------------------------------- MODULE UserSwarm -------------------------------
(* The swarm configuration of one user                                     *)
(* (backend/src/services/user-swarm-service.ts): the cache, its row, the   *)
(* updates, which are serialised by a chain of promises, and what reads    *)
(* rows into the cache: the load at the start, a look-up, change events.   *)
EXTENDS Integers, Sequences

CONSTANTS
    Updates,   \* the updates that may be asked for: numbers from 1
    Fields,    \* what they change, one field each
    Mode       \* the field that a reset to COPY changes

VARIABLES
    cache,     \* the entry, or NoConfig
    row,       \* the row of user_swarm_configs
    update,    \* per upsert: its stage, the one it waits for, field and result
    tail,      \* userLocks: the last upsert of the chain, or 0
    loading,   \* the load and the look-up: their stage and the row they read
    looking,
    events,    \* change events on their way
    latest,    \* history: the last update that was executed, per field
    disturbed  \* history: what came in between

swarmVars == <<cache, row, update, tail, loading, looking, events, latest, disturbed>>

(* A configuration names the update each field has its value from: 0 for   *)
(* the row as it was, -1 for the default.                                  *)
Configs == [Fields -> Updates \cup {-1, 0}]
Default == [f \in Fields |-> -1]
NoConfig == [f \in Fields |-> -2]
Stored == [f \in Fields |-> 0]

Asked == [stage |-> "asked", read |-> NoConfig]
Over == [stage |-> "over", read |-> NoConfig]

Init ==
    /\ cache = NoConfig
    /\ row = Stored
    /\ update = [u \in Updates |-> [stage |-> "new", prev |-> 0, next |-> NoConfig]]
    /\ tail = 0
    /\ loading = Asked
    /\ looking = Over
    /\ events = <<>>
    /\ latest = [f \in Fields |-> 0]
    /\ disturbed = {}

Known == IF cache = NoConfig THEN Default ELSE cache
Marked(cause, when) == disturbed' = IF when THEN disturbed \cup {cause} ELSE disturbed

-----------------------------------------------------------------------------
(* A row replaces the cached entry, whatever it is.                        *)
PutIntoCache(config, cause) ==
    /\ cache' = config
    /\ Marked(cause, cache \notin {NoConfig, config})

(* loadFromDb reads the row, if it is among the first 500 ...              *)
LoadReads ==
    /\ loading.stage = "asked"
    /\ loading' \in {Over, [stage |-> "read", read |-> row]}
    /\ UNCHANGED <<cache, row, update, tail, looking, events, latest, disturbed>>

(* ... and puts it into the cache when the answer arrives.                 *)
LoadArrives ==
    /\ loading.stage = "read"
    /\ PutIntoCache(loading.read, "read")
    /\ loading' = Over
    /\ UNCHANGED <<row, update, tail, looking, events, latest>>

(* getOrFetchConfig, after the load, for a user who is not in the cache.   *)
LookUp ==
    /\ loading.stage = "over" /\ looking.stage = "over"
    /\ cache = NoConfig
    /\ looking' = Asked
    /\ UNCHANGED <<cache, row, update, tail, loading, events, latest, disturbed>>

LookUpReads ==
    /\ looking.stage = "asked"
    /\ looking' = [stage |-> "read", read |-> row]
    /\ UNCHANGED <<cache, row, update, tail, loading, events, latest, disturbed>>

LookUpArrives ==
    /\ looking.stage = "read"
    /\ PutIntoCache(looking.read, "read")
    /\ looking' = Over
    /\ UNCHANGED <<row, update, tail, loading, events, latest>>

(* getConfig, for a user who is not in the cache: the default is cached    *)
(* and not stored.                                                         *)
GetConfig ==
    /\ cache = NoConfig
    /\ cache' = Default
    /\ Marked("miss", TRUE)
    /\ UNCHANGED <<row, update, tail, loading, looking, events, latest>>

(* The change event of a row that was written; events come in order, and   *)
(* some never.                                                             *)
EventArrives ==
    /\ events # <<>>
    /\ PutIntoCache(Head(events), "event")
    /\ events' = Tail(events)
    /\ UNCHANGED <<row, update, tail, loading, looking, latest>>

EventLost ==
    /\ events # <<>>
    /\ events' = Tail(events)
    /\ UNCHANGED <<cache, row, update, tail, loading, looking, latest, disturbed>>

-----------------------------------------------------------------------------
Outside(u) == update[u].prev = -1

(* What an update may meet: an empty cache, or a write across the chain.   *)
Meeting(across) ==
    disturbed \cup (IF cache = NoConfig THEN {"miss"} ELSE {}) \cup (IF across THEN {"reset"} ELSE {})

(* The updates are numbered in the order in which they are asked for.      *)
IsNext(u) == update[u].stage = "new" /\ \A v \in Updates : v < u => update[v].stage # "new"

Ask(u) ==
    /\ IsNext(u)
    /\ update' = [update EXCEPT ![u].stage = "asked", ![u].prev = tail]
    /\ tail' = u
    /\ UNCHANGED <<cache, row, loading, looking, events, latest, disturbed>>

(* A mutation: an upsert does not wait for the one before it.              *)
AnyTurn(u) == TRUE

(* await prev: the one before it has been answered.                        *)
Turn(u) == update[u].prev \in {0} \cup {v \in Updates : update[v].stage = "over"}

(* executeUpsert, up to the write: the field is changed in a copy of the   *)
(* entry, or of the default, and the copy is cached.                       *)
Execute(u, f) ==
    /\ update[u].stage = "asked"
    /\ Turn(u)
    /\ LET next == [Known EXCEPT ![f] = u]
       IN  /\ cache' = next
           /\ update' = [update EXCEPT ![u].stage = "writing", ![u].next = next]
    /\ latest' = [latest EXCEPT ![f] = u]
    /\ disturbed' = Meeting(\E v \in Updates : Outside(v) /\ update[v].stage = "writing")
    /\ UNCHANGED <<row, tail, loading, looking, events>>

(* It refuses an invalid value before it changes anything.                 *)
Refuse(u) ==
    /\ update[u].stage = "asked"
    /\ Turn(u)
    /\ cache' = Known
    /\ Marked("miss", cache = NoConfig)
    /\ update' = [update EXCEPT ![u].stage = "over"]
    /\ tail' = IF tail = u THEN 0 ELSE tail
    /\ UNCHANGED <<row, loading, looking, events, latest>>

(* Its write lands, or fails with a warning; the upsert is over.           *)
Written(u, landed) ==
    /\ update[u].stage = "writing"
    /\ update' = [update EXCEPT ![u].stage = "over"]
    /\ tail' = IF tail = u THEN 0 ELSE tail
    /\ row' = IF landed THEN update[u].next ELSE row
    /\ events' = IF landed THEN Append(events, update[u].next) ELSE events
    /\ Marked("lost", ~landed)
    /\ UNCHANGED <<cache, loading, looking, latest>>

(* resetToCopy: an update of the mode that does not join the chain.        *)
Reset(u) ==
    /\ IsNext(u)
    /\ LET next == [Known EXCEPT ![Mode] = u]
       IN  /\ cache' = next
           /\ update' = [update EXCEPT ![u] = [stage |-> "writing", prev |-> -1, next |-> next]]
    /\ latest' = [latest EXCEPT ![Mode] = u]
    /\ disturbed' = Meeting(\E v \in Updates : update[v].stage = "writing")
    /\ UNCHANGED <<row, tail, loading, looking, events>>

Next ==
    \/ LoadReads \/ LoadArrives \/ LookUp \/ LookUpReads \/ LookUpArrives
    \/ GetConfig \/ EventArrives \/ EventLost
    \/ \E u \in Updates : \/ Ask(u) \/ Refuse(u) \/ Reset(u)
                          \/ \E f \in Fields : Execute(u, f)
                          \/ \E landed \in BOOLEAN : Written(u, landed)

Spec == Init /\ [][Next]_swarmVars

-----------------------------------------------------------------------------
TypeOK ==
    /\ cache \in Configs \cup {NoConfig}
    /\ row \in Configs
    /\ update \in [Updates -> [stage : {"new", "asked", "writing", "over"},
                              prev : Updates \cup {-1, 0}, next : Configs \cup {NoConfig}]]
    /\ tail \in Updates \cup {0}
    /\ {loading, looking} \subseteq
         [stage : {"asked", "read", "over"}, read : Configs \cup {NoConfig}]
    /\ events \in Seq(Configs)
    /\ latest \in [Fields -> Updates \cup {0}]
    /\ disturbed \subseteq {"read", "event", "miss", "reset", "lost"}

AtRest == \A u \in Updates : update[u].stage \in {"new", "over"}
Exact == AtRest => row = latest

(* When no update is under way the row has, in each field, the value of    *)
(* the last update of it, also when updates overlapped: upsertConfig       *)
(* serialises them.  What may still come in between is a write that        *)
(* failed, a row read late, a reset, and an update of an uncached user.    *)
NoUpdateLost == disturbed = {} => Exact

(* The chain is there to prevent races of the updates of a user; a late    *)
(* change event is enough for one.                                         *)
NoUpdateLostToEvents == disturbed \subseteq {"event"} => Exact

(* A read that misses the cache must never overwrite the database.         *)
ReadsOverwriteNothing == disturbed \subseteq {"miss"} => Exact

(* A reset is as safe as an update.                                        *)
NoUpdateLostToResets == disturbed \subseteq {"reset"} => Exact
=============================================================================
