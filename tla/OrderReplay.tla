------------------------------ MODULE OrderReplay ------------------------------
(***************************************************************************)
(* Orders the user's own wallet placed and then submits by transaction     *)
(* hash: the first half of submitUserOrder (services/order-service.ts),    *)
(* guarded against booking one transaction twice by a set of hashes in     *)
(* flight, the bounded cache of orders and the orders table.               *)
(*                                                                         *)
(* The chain's verdict on a hash is external.  The hexadecimal digits of a *)
(* hash may be written in either case: the slots and the cache compare     *)
(* hashes in lower case, the table compares them as they were written.     *)
(***************************************************************************)
EXTENDS Integers, Sequences, FiniteSets, SequencesExt

CONSTANTS
    Hashes,      \* transactions that placed an order
    Fakes,       \* hashes that verification never accepts
    Spellings,   \* the ways to write a hash
    Requests,    \* submissions (bounded), each made once
    CacheSize,   \* OrderService.MAX_CACHE_SIZE
    MaxOthers,   \* bound on orders of other kinds that enter the cache
    MaxRestarts  \* bound on process restarts

VARIABLES
    inFlightTxHashes,  \* hashes, in lower case
    orders,     \* the cache, newest first: hashes as written, and Other for any other order
    table,      \* hashes that have a row, as written
    request,    \* per submission: its stage and its hash as written
    booked,     \* history: per written hash, how many orders were made of it
    unguarded,  \* history: written hashes for which the database failed or lost the process
    others, restarts

replayVars == <<inFlightTxHashes, orders, table, request, booked, unguarded, others, restarts>>

Other == <<"other", "order">>
None == <<"no", "hash">>

(* A hash as it is written, and the hash it is.                            *)
TxHashes == (Hashes \cup Fakes) \X Spellings
Placed == Hashes \X Spellings
toLowerCase(t) == t[1]

At(stage, t) == [stage |-> stage, txHash |-> t]
Ended == At("ended", None)

TypeOK ==
    /\ inFlightTxHashes \subseteq Hashes \cup Fakes
    /\ ToSet(orders) \subseteq Placed \cup {Other}
    /\ Len(orders) =< CacheSize
    /\ table \subseteq Placed
    /\ request \in [Requests -> [stage : {"idle", "checking", "verifying", "persisting", "ended"},
                                 txHash : TxHashes \cup {None}]]
    /\ booked \in [Placed -> Nat]
    /\ unguarded \subseteq Placed
    /\ others \in 0..MaxOthers
    /\ restarts \in 0..MaxRestarts

-----------------------------------------------------------------------------
Init ==
    /\ inFlightTxHashes = {}
    /\ orders = <<>>
    /\ table = {}
    /\ request = [r \in Requests |-> At("idle", None)]
    /\ booked = [t \in Placed |-> 0]
    /\ unguarded = {}
    /\ others = 0
    /\ restarts = 0

(* insertIntoCache: in front, and the last one falls out of a full cache.  *)
InsertIntoCache(o) ==
    LET longer == <<o>> \o orders IN
    orders' = IF Len(longer) > CacheSize THEN Front(longer) ELSE longer

(* Up to the database check: a hash in flight or in the cache is refused,  *)
(* any other is reserved before the first await.                           *)
Submit(r, t) ==
    LET cached == {toLowerCase(o) : o \in ToSet(orders) \ {Other}} IN
    /\ request[r].stage = "idle"
    /\ IF toLowerCase(t) \in inFlightTxHashes \cup cached
       THEN /\ request' = [request EXCEPT ![r] = Ended]
            /\ UNCHANGED inFlightTxHashes
       ELSE /\ request' = [request EXCEPT ![r] = At("checking", t)]
            /\ inFlightTxHashes' = inFlightTxHashes \cup {toLowerCase(t)}
    /\ UNCHANGED <<orders, table, booked, unguarded, others, restarts>>

(* A mutation: the hash is reserved after the database has answered.       *)
CheckThenReserve(r) ==
    LET t == request[r].txHash IN
    /\ request[r].stage = "checking"
    /\ request' = [request EXCEPT ![r] = IF t \in table THEN Ended ELSE At("verifying", t)]
    /\ inFlightTxHashes' = inFlightTxHashes \ {toLowerCase(t)}
    /\ UNCHANGED <<orders, table, booked, unguarded, others, restarts>>

(* The database check, for the hash as it is written.  A row ends the      *)
(* submission outside the try block that frees the slot; an error of the   *)
(* database lets it pass.                                                  *)
CheckDatabase(r) ==
    LET t == request[r].txHash IN
    /\ request[r].stage = "checking"
    /\ \/ /\ request' = [request EXCEPT ![r] = IF t \in table THEN Ended
                                               ELSE At("verifying", t)]
          /\ UNCHANGED unguarded
       \/ /\ request' = [request EXCEPT ![r] = At("verifying", t)]
          /\ unguarded' = unguarded \cup ({t} \cap Placed)
    /\ UNCHANGED <<inFlightTxHashes, orders, table, booked, others, restarts>>

(* A mutation: a refused hash stays reserved.                              *)
RefuseAndKeep(r) ==
    /\ request[r].stage = "verifying"
    /\ request' = [request EXCEPT ![r] = Ended]
    /\ UNCHANGED <<inFlightTxHashes, orders, table, booked, unguarded, others, restarts>>

(* verifyUserOrderTxHashOnChain refuses, or has no receipt in time.        *)
Refuse(r) ==
    /\ request[r].stage = "verifying"
    /\ request' = [request EXCEPT ![r] = Ended]
    /\ inFlightTxHashes' = inFlightTxHashes \ {toLowerCase(request[r].txHash)}
    /\ UNCHANGED <<orders, table, booked, unguarded, others, restarts>>

(* The chain confirms the order: it is booked in memory.                   *)
Book(r) ==
    LET t == request[r].txHash IN
    /\ request[r].stage = "verifying"
    /\ t \in Placed
    /\ InsertIntoCache(t)
    /\ booked' = [booked EXCEPT ![t] = @ + 1]
    /\ request' = [request EXCEPT ![r] = At("persisting", t)]
    /\ UNCHANGED <<inFlightTxHashes, table, unguarded, others, restarts>>

(* The row is inserted, unless the table has one with the same text        *)
(* (idx_orders_tx_hash_unique), or is not, which is only logged; either    *)
(* way the slot is freed.                                                  *)
Persist(r) ==
    LET t == request[r].txHash IN
    /\ request[r].stage = "persisting"
    /\ \/ table' = table \cup {t} /\ UNCHANGED unguarded
       \/ unguarded' = unguarded \cup {t} /\ UNCHANGED table
    /\ request' = [request EXCEPT ![r] = Ended]
    /\ inFlightTxHashes' = inFlightTxHashes \ {toLowerCase(t)}
    /\ UNCHANGED <<orders, booked, others, restarts>>

(* Orders of sessions, agents and copies go through the same cache.        *)
OtherOrder ==
    /\ others < MaxOthers
    /\ others' = others + 1
    /\ InsertIntoCache(Other)
    /\ UNCHANGED <<inFlightTxHashes, table, request, booked, unguarded, restarts>>

(* The process restarts.  Inserts that were sent may land; the cache is    *)
(* reloaded from the table as far as that succeeds.                        *)
Restart ==
    LET open == {r \in Requests : request[r].stage \in {"checking", "verifying", "persisting"}}
        writing == {request[r].txHash : r \in {q \in open : request[q].stage = "persisting"}}
    IN
    /\ restarts < MaxRestarts
    /\ restarts' = restarts + 1
    /\ inFlightTxHashes' = {}
    /\ \E sent \in SUBSET writing :
          /\ table' = table \cup sent
          /\ unguarded' = unguarded \cup (writing \ sent)
    /\ \E known \in SUBSET table :
          /\ Cardinality(known) =< CacheSize
          /\ orders' = SetToSeq(known)
    /\ request' = [r \in Requests |-> IF r \in open THEN Ended ELSE request[r]]
    /\ UNCHANGED <<booked, others>>

Next ==
    \/ \E r \in Requests : \/ \E t \in TxHashes : Submit(r, t)
                           \/ CheckDatabase(r) \/ Refuse(r) \/ Book(r) \/ Persist(r)
    \/ OtherOrder
    \/ Restart

Spec == Init /\ [][Next]_replayVars
-----------------------------------------------------------------------------
(* Properties                                                              *)

InProgress(r) == request[r].stage \in {"checking", "verifying", "persisting"}

(* A transaction becomes an order at most once in each spelling, whatever  *)
(* submissions overlap, whatever the cache has evicted and however often   *)
(* the process restarts, as long as the database kept its row and answered *)
(* for it; and never are two submissions of one transaction on their way   *)
(* together, in whichever spelling.                                        *)
BookedOnce ==
    /\ \A t \in Placed : booked[t] =< 1 \/ t \in unguarded
    /\ \A r, q \in {s \in Requests : InProgress(s)} :
          toLowerCase(request[r].txHash) = toLowerCase(request[q].txHash) => r = q

(* No transaction is locked out before it was booked: a slot that no       *)
(* submission in progress will free belongs to a transaction that has its  *)
(* row already, in some spelling.                                          *)
LockedOutOnlyIfBooked ==
    \A h \in inFlightTxHashes :
        \/ \E t \in table : toLowerCase(t) = h
        \/ \E r \in Requests : InProgress(r) /\ toLowerCase(request[r].txHash) = h
-----------------------------------------------------------------------------
(* What the migration says and the code does not do (section 5 of the      *)
(* README).  A transaction the database has answered for becomes one       *)
(* order, in whichever spellings it is submitted.                          *)
BookedOnceInAnySpelling ==
    \A t, u \in Placed : /\ toLowerCase(t) = toLowerCase(u)
                         /\ {booked[t], booked[u]} \subseteq Nat \ {0}
                         /\ {t, u} \cap unguarded = {}
                        => t = u
=============================================================================
