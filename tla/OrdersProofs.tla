------------------------------ MODULE OrdersProofs ------------------------------
(* For all values of the constants: a transaction becomes one order in     *)
(* each spelling of its hash, the books agree with the chain, failures     *)
(* hold back who comes after them, and a booked order keeps its final      *)
(* status and its agent one result.  Each part of Orders has its own       *)
(* invariant and its own step lemma.                                       *)
EXTENDS Orders, Sequences, FiniteSetTheorems, WellFoundedInduction, TLAPS

-----------------------------------------------------------------------------
(* The submission of wallet-signed orders.  The slots serialise the        *)
(* submissions of one transaction, so that between the database's answer   *)
(* and the booking nobody else books it.                                   *)

Underway(r) == request[r].stage \in {"checking", "verifying", "persisting"}

(* A submission that goes on holds the slot of its transaction, alone.     *)
SlotHeld ==
    /\ \A r \in Requests : Underway(r) =>
          /\ Replay!toLowerCase(request[r].txHash) \in inFlightTxHashes
          /\ request[r].stage = "persisting" => request[r].txHash \in Replay!Placed
    /\ \A r, q \in Requests :
          /\ Underway(r) /\ Underway(q)
          /\ Replay!toLowerCase(request[r].txHash) = Replay!toLowerCase(request[q].txHash)
          => r = q

(* What was booked has its row, or soon has, unless the database failed;   *)
(* what is verified was not booked.                                        *)
BookedIsGuarded ==
    /\ booked \in [Replay!Placed -> Nat]
    /\ \A t \in Replay!Placed \ unguarded :
          booked[t] > 0 =>
             t \in table \/ \E r \in Requests : request[r].stage = "persisting" /\ request[r].txHash = t
    /\ \A r \in Requests : request[r].stage = "verifying" /\ request[r].txHash \in Replay!Placed \ unguarded
          => booked[request[r].txHash] = 0

OncePerSpelling == \A t \in Replay!Placed : booked[t] =< 1 \/ t \in unguarded

ReplayInv ==
    /\ request \in [Requests -> [stage : {"idle", "checking", "verifying", "persisting", "ended"},
                                 txHash : Replay!TxHashes \cup {Replay!None}]]
    /\ SlotHeld
    /\ BookedIsGuarded
    /\ OncePerSpelling
    /\ Replay!LockedOutOnlyIfBooked

LEMMA ReplayBookedOnce ==
    ASSUME ReplayInv
    PROVE  Replay!BookedOnce
BY DEF ReplayInv, OncePerSpelling, SlotHeld, Underway, Replay!BookedOnce, Replay!InProgress

(* A request goes on to another stage.                                     *)
LEMMA RequestMoves ==
    ASSUME ReplayInv, NEW r \in Requests, NEW stage, NEW hash,
           request' = [request EXCEPT ![r] = Replay!At(stage, hash)]
    PROVE  /\ request'[r].stage = stage /\ request'[r].txHash = hash
           /\ \A q \in Requests \ {r} : request'[q] = request[q]
           /\ stage \in {"checking", "verifying", "persisting", "ended"}
                /\ hash \in Replay!TxHashes \cup {Replay!None}
              => request' \in [Requests -> [stage : {"idle", "checking", "verifying", "persisting", "ended"},
                                            txHash : Replay!TxHashes \cup {Replay!None}]]
BY DEF ReplayInv, Replay!At

(* A submission ends without a booking, with or without its slot.          *)
LEMMA RequestEnds ==
    ASSUME ReplayInv, NEW r \in Requests, request' = [request EXCEPT ![r] = Replay!Ended],
           UNCHANGED <<table, booked, unguarded>>, request[r].stage # "persisting",
           \/ inFlightTxHashes' = inFlightTxHashes \ {Replay!toLowerCase(request[r].txHash)} /\ Underway(r)
           \/ /\ UNCHANGED inFlightTxHashes
              /\ request[r].stage = "idle" \/ request[r].txHash \in table
    PROVE  ReplayInv'
<1>1. /\ request'[r].stage = "ended" /\ request'[r].txHash = Replay!None
      /\ \A q \in Requests \ {r} : request'[q] = request[q]
      /\ request' \in [Requests -> [stage : {"idle", "checking", "verifying", "persisting", "ended"},
                                    txHash : Replay!TxHashes \cup {Replay!None}]]
    BY RequestMoves DEF Replay!Ended
<1>2. \A q \in Requests : Underway(q)' => q # r /\ Underway(q)
    BY <1>1 DEF Underway
<1>3. SlotHeld'
    BY <1>1, <1>2 DEF ReplayInv, SlotHeld
<1>4. BookedIsGuarded'
    BY <1>1 DEF ReplayInv, BookedIsGuarded
<1>5. OncePerSpelling'
    BY DEF ReplayInv, OncePerSpelling
<1>6. Replay!LockedOutOnlyIfBooked'
    BY <1>1, <1>3 DEF ReplayInv, SlotHeld, Underway, Replay!LockedOutOnlyIfBooked, Replay!InProgress
<1> QED BY <1>1, <1>3, <1>4, <1>5, <1>6 DEF ReplayInv

(* A new submission reserves a slot that nobody holds.                     *)
LEMMA SubmitStep ==
    ASSUME ReplayInv, NEW r \in Requests, NEW t \in Replay!TxHashes, Replay!Submit(r, t)
    PROVE  ReplayInv'
<1>1. /\ request[r].stage = "idle" /\ UNCHANGED <<table, booked, unguarded>>
      /\ \/ request' = [request EXCEPT ![r] = Replay!Ended] /\ UNCHANGED inFlightTxHashes
         \/ /\ Replay!toLowerCase(t) \notin inFlightTxHashes
            /\ request' = [request EXCEPT ![r] = Replay!At("checking", t)]
            /\ inFlightTxHashes' = inFlightTxHashes \cup {Replay!toLowerCase(t)}
    BY DEF Replay!Submit
<1>2. CASE request' = [request EXCEPT ![r] = Replay!Ended] /\ UNCHANGED inFlightTxHashes
    BY <1>1, <1>2, RequestEnds
<1>3. CASE /\ Replay!toLowerCase(t) \notin inFlightTxHashes
           /\ request' = [request EXCEPT ![r] = Replay!At("checking", t)]
           /\ inFlightTxHashes' = inFlightTxHashes \cup {Replay!toLowerCase(t)}
    <2>1. /\ request'[r].stage = "checking" /\ request'[r].txHash = t
          /\ \A q \in Requests \ {r} : request'[q] = request[q]
          /\ request' \in [Requests -> [stage : {"idle", "checking", "verifying", "persisting", "ended"},
                                        txHash : Replay!TxHashes \cup {Replay!None}]]
        BY <1>3, RequestMoves
    <2>2. \A q \in Requests : Underway(q)' =>
              q = r \/ (Underway(q) /\ Replay!toLowerCase(request[q].txHash) # Replay!toLowerCase(t))
        <3>1. \A q \in Requests : Underway(q) => Replay!toLowerCase(request[q].txHash) # Replay!toLowerCase(t)
            BY <1>3 DEF ReplayInv, SlotHeld
        <3>2. ASSUME NEW q \in Requests \ {r}, Underway(q)'
              PROVE  Underway(q) /\ Replay!toLowerCase(request[q].txHash) # Replay!toLowerCase(t)
            <4>1. request'[q] = request[q]
                BY <2>1
            <4> QED BY <3>1, <3>2, <4>1 DEF Underway
        <3> QED BY <3>2 DEF Underway
    <2>3. SlotHeld'
        BY <1>3, <2>1, <2>2 DEF ReplayInv, SlotHeld
    <2>4. BookedIsGuarded'
        BY <1>1, <2>1 DEF ReplayInv, BookedIsGuarded
    <2>5. OncePerSpelling'
        BY <1>1 DEF ReplayInv, OncePerSpelling
    <2>6. Replay!LockedOutOnlyIfBooked'
        BY <1>1, <1>3, <2>1 DEF ReplayInv, Replay!LockedOutOnlyIfBooked, Replay!InProgress
    <2> QED BY <2>1, <2>3, <2>4, <2>5, <2>6 DEF ReplayInv
<1> QED BY <1>1, <1>2, <1>3

(* The database answers, or fails and lets the submission pass.            *)
LEMMA CheckDatabaseStep ==
    ASSUME ReplayInv, NEW r \in Requests, Replay!CheckDatabase(r)
    PROVE  ReplayInv'
<1> DEFINE t == request[r].txHash
<1>1. /\ request[r].stage = "checking" /\ UNCHANGED <<inFlightTxHashes, table, booked>>
      /\ \/ t \in table /\ request' = [request EXCEPT ![r] = Replay!Ended] /\ UNCHANGED unguarded
         \/ /\ request' = [request EXCEPT ![r] = Replay!At("verifying", t)]
            /\ \/ t \notin table /\ unguarded' = unguarded
               \/ unguarded' = unguarded \cup ({t} \cap Replay!Placed)
    BY DEF Replay!CheckDatabase
<1>2. CASE t \in table /\ request' = [request EXCEPT ![r] = Replay!Ended] /\ UNCHANGED unguarded
    BY <1>1, <1>2, RequestEnds
<1>3. CASE /\ request' = [request EXCEPT ![r] = Replay!At("verifying", t)]
           /\ \/ t \notin table /\ unguarded' = unguarded
              \/ unguarded' = unguarded \cup ({t} \cap Replay!Placed)
    <2>1. t \in Replay!TxHashes \cup {Replay!None}
        BY DEF ReplayInv
    <2>2. /\ request'[r].stage = "verifying" /\ request'[r].txHash = t
          /\ \A q \in Requests \ {r} : request'[q] = request[q]
          /\ request' \in [Requests -> [stage : {"idle", "checking", "verifying", "persisting", "ended"},
                                        txHash : Replay!TxHashes \cup {Replay!None}]]
        <3>1. request' = [request EXCEPT ![r] = Replay!At("verifying", t)]
            BY <1>3
        <3> HIDE DEF t
        <3> QED BY <2>1, <3>1, RequestMoves
    <2>3. unguarded \subseteq unguarded'
        BY <1>3
    <2>4. \A q \in Requests : Underway(q)' <=> Underway(q)
        BY <1>1, <2>2 DEF Underway
    <2>5. SlotHeld'
        BY <1>1, <2>2, <2>4 DEF ReplayInv, SlotHeld
    <2>6. t \in Replay!Placed \ unguarded' => booked[t] = 0
        <3>1. SUFFICES ASSUME t \in Replay!Placed \ unguarded', booked[t] # 0 PROVE FALSE
            OBVIOUS
        <3>2. t \notin table
            BY <1>3, <3>1
        <3>3. booked[t] > 0
            BY <3>1 DEF ReplayInv, BookedIsGuarded
        <3>4. PICK q \in Requests : request[q].stage = "persisting" /\ request[q].txHash = t
            BY <2>3, <3>1, <3>2, <3>3 DEF ReplayInv, BookedIsGuarded
        <3> QED BY <1>1, <3>4 DEF ReplayInv, SlotHeld, Underway
    <2>7. BookedIsGuarded'
        BY <1>1, <2>2, <2>3, <2>6 DEF ReplayInv, BookedIsGuarded
    <2>8. OncePerSpelling'
        BY <1>1, <2>3 DEF ReplayInv, OncePerSpelling
    <2>9. Replay!LockedOutOnlyIfBooked'
        BY <1>1, <2>2 DEF ReplayInv, Replay!LockedOutOnlyIfBooked, Replay!InProgress
    <2> QED BY <2>2, <2>5, <2>7, <2>8, <2>9 DEF ReplayInv
<1> QED BY <1>1, <1>2, <1>3

(* The order is booked in memory.                                          *)
LEMMA BookStep ==
    ASSUME ReplayInv, NEW r \in Requests, Replay!Book(r)
    PROVE  ReplayInv'
<1> DEFINE t == request[r].txHash
<1>1. /\ request[r].stage = "verifying" /\ t \in Replay!Placed
      /\ booked' = [booked EXCEPT ![t] = booked[t] + 1]
      /\ request' = [request EXCEPT ![r] = Replay!At("persisting", t)]
      /\ UNCHANGED <<inFlightTxHashes, table, unguarded>>
    BY DEF Replay!Book
<1>2. /\ request'[r].stage = "persisting" /\ request'[r].txHash = t
      /\ \A q \in Requests \ {r} : request'[q] = request[q]
      /\ request' \in [Requests -> [stage : {"idle", "checking", "verifying", "persisting", "ended"},
                                    txHash : Replay!TxHashes \cup {Replay!None}]]
    <2>1. t \in Replay!TxHashes \cup {Replay!None}
        BY <1>1 DEF Replay!TxHashes, Replay!Placed
    <2>2. request' = [request EXCEPT ![r] = Replay!At("persisting", t)]
        BY <1>1
    <2> HIDE DEF t
    <2> QED BY <2>1, <2>2, RequestMoves
<1>3. /\ booked \in [Replay!Placed -> Nat] /\ booked' \in [Replay!Placed -> Nat]
      /\ booked'[t] = booked[t] + 1
      /\ \A u \in Replay!Placed \ {t} : booked'[u] = booked[u]
    BY <1>1 DEF ReplayInv, BookedIsGuarded
<1>4. t \notin unguarded => booked[t] = 0
    BY <1>1 DEF ReplayInv, BookedIsGuarded
<1>5. \A q \in Requests : Underway(q)' <=> Underway(q)
    BY <1>1, <1>2 DEF Underway
<1>6. SlotHeld'
    BY <1>1, <1>2, <1>5 DEF ReplayInv, SlotHeld
<1>7. \A q \in Requests \ {r} : 
          Underway(q) => Replay!toLowerCase(request[q].txHash) # Replay!toLowerCase(t)
    BY <1>1 DEF ReplayInv, SlotHeld, Underway
<1>8. BookedIsGuarded'
    <2>1. ASSUME NEW u \in Replay!Placed \ unguarded, booked'[u] > 0
          PROVE  u \in table \/ \E q \in Requests : request'[q].stage = "persisting" /\ request'[q].txHash = u
        <3>1. CASE u = t
            BY <1>2, <3>1
        <3>2. CASE u # t
            <4>1. u \in table \/ \E q \in Requests : request[q].stage = "persisting" /\ request[q].txHash = u
                BY <1>3, <2>1, <3>2 DEF ReplayInv, BookedIsGuarded
            <4> QED BY <1>1, <1>2, <4>1
        <3> QED BY <3>1, <3>2
    <2>2. ASSUME NEW q \in Requests, request'[q].stage = "verifying",
                 request'[q].txHash \in Replay!Placed \ unguarded
          PROVE  booked'[request'[q].txHash] = 0
        <3>1. q # r /\ request'[q] = request[q]
            BY <1>2, <2>2
        <3>2. request[q].txHash # t
            BY <1>7, <2>2, <3>1 DEF Underway
        <3> QED BY <1>3, <2>2, <3>1, <3>2 DEF ReplayInv, BookedIsGuarded
    <2> QED BY <1>1, <1>3, <2>1, <2>2 DEF BookedIsGuarded
<1>9. OncePerSpelling'
    BY <1>1, <1>3, <1>4 DEF ReplayInv, OncePerSpelling
<1>10. Replay!LockedOutOnlyIfBooked'
    BY <1>1, <1>2 DEF ReplayInv, Replay!LockedOutOnlyIfBooked, Replay!InProgress
<1> QED BY <1>2, <1>6, <1>8, <1>9, <1>10 DEF ReplayInv

(* Its row is inserted, or the database fails.                             *)
LEMMA PersistStep ==
    ASSUME ReplayInv, NEW r \in Requests, Replay!Persist(r)
    PROVE  ReplayInv'
<1> DEFINE t == request[r].txHash
<1>1. /\ request[r].stage = "persisting"
      /\ \/ table' = table \cup {t} /\ unguarded' = unguarded
         \/ unguarded' = unguarded \cup {t} /\ table' = table
      /\ request' = [request EXCEPT ![r] = Replay!Ended]
      /\ inFlightTxHashes' = inFlightTxHashes \ {Replay!toLowerCase(t)}
      /\ UNCHANGED booked
    BY DEF Replay!Persist
<1>2. /\ request'[r].stage = "ended" /\ request'[r].txHash = Replay!None
      /\ \A q \in Requests \ {r} : request'[q] = request[q]
      /\ request' \in [Requests -> [stage : {"idle", "checking", "verifying", "persisting", "ended"},
                                    txHash : Replay!TxHashes \cup {Replay!None}]]
    BY <1>1, RequestMoves DEF Replay!Ended
<1>3. \A q \in Requests : Underway(q)' =>
          q # r /\ Underway(q) /\ Replay!toLowerCase(request[q].txHash) # Replay!toLowerCase(t)
    BY <1>1, <1>2 DEF Underway, ReplayInv, SlotHeld
<1>4. SlotHeld'
    BY <1>1, <1>2, <1>3 DEF ReplayInv, SlotHeld
<1>5. table \subseteq table' /\ unguarded \subseteq unguarded' /\ t \in table' \cup unguarded'
    BY <1>1
<1>6. BookedIsGuarded'
    <2>1. ASSUME NEW u \in Replay!Placed \ unguarded', booked[u] > 0
          PROVE  u \in table' \/ \E q \in Requests : request'[q].stage = "persisting" /\ request'[q].txHash = u
        <3>1. CASE u = t
            BY <1>5, <2>1, <3>1
        <3>2. CASE u # t
            <4>1. u \in table \/ \E q \in Requests : request[q].stage = "persisting" /\ request[q].txHash = u
                BY <1>5, <2>1 DEF ReplayInv, BookedIsGuarded
            <4> QED BY <1>2, <1>5, <3>2, <4>1
        <3> QED BY <3>1, <3>2
    <2> QED BY <1>1, <1>2, <1>5, <2>1 DEF ReplayInv, BookedIsGuarded
<1>7. OncePerSpelling'
    BY <1>1, <1>5 DEF ReplayInv, OncePerSpelling
<1>8. Replay!LockedOutOnlyIfBooked'
    BY <1>1, <1>2, <1>5 DEF ReplayInv, Replay!LockedOutOnlyIfBooked, Replay!InProgress
<1> QED BY <1>2, <1>4, <1>6, <1>7, <1>8 DEF ReplayInv

(* A restart ends what is under way and frees every slot; what was being   *)
(* inserted has its row or was lost.                                       *)
LEMMA ReplayRestartStep ==
    ASSUME ReplayInv, Replay!Restart
    PROVE  ReplayInv'
<1> DEFINE open == {r \in Requests : request[r].stage \in {"checking", "verifying", "persisting"}}
           inserting == {request[r].txHash : r \in {q \in open : request[q].stage = "persisting"}}
<1>1. /\ inFlightTxHashes' = {} /\ UNCHANGED booked
      /\ request' = [r \in Requests |-> IF r \in open THEN Replay!Ended ELSE request[r]]
      /\ \E sent \in SUBSET inserting : /\ table' = table \cup sent
                                        /\ unguarded' = unguarded \cup (inserting \ sent)
    BY DEF Replay!Restart
<1>2. table \subseteq table' /\ unguarded \subseteq unguarded' /\ inserting \subseteq table' \cup unguarded'
    BY <1>1
<1>3. \A r \in Requests : request[r].stage = "persisting" => request[r].txHash \in inserting
    OBVIOUS
<1> HIDE DEF inserting
<1>4. \A r \in Requests : request'[r].stage \in {"idle", "ended"}
    BY <1>1 DEF ReplayInv, Replay!Ended, Replay!At
<1>5. request' \in [Requests -> [stage : {"idle", "checking", "verifying", "persisting", "ended"},
                                 txHash : Replay!TxHashes \cup {Replay!None}]]
    BY <1>1 DEF ReplayInv, Replay!Ended, Replay!At
<1>6. SlotHeld'
    BY <1>4 DEF SlotHeld, Underway
<1>7. BookedIsGuarded'
    BY <1>1, <1>2, <1>3, <1>4 DEF ReplayInv, BookedIsGuarded
<1>8. OncePerSpelling'
    BY <1>1, <1>2 DEF ReplayInv, OncePerSpelling
<1>9. Replay!LockedOutOnlyIfBooked'
    BY <1>1 DEF Replay!LockedOutOnlyIfBooked
<1> QED BY <1>5, <1>6, <1>7, <1>8, <1>9 DEF ReplayInv

(* Every step of a submission keeps the invariant.                         *)
LEMMA ReplayStep ==
    ASSUME ReplayInv, Replay!Next
    PROVE  ReplayInv'
<1>1. ASSUME NEW r \in Requests, Replay!Refuse(r) PROVE ReplayInv'
    BY <1>1, RequestEnds DEF Replay!Refuse, Underway
<1>2. CASE Replay!OtherOrder
    BY <1>2 DEF Replay!OtherOrder, ReplayInv, SlotHeld, Underway, BookedIsGuarded,
                OncePerSpelling, Replay!LockedOutOnlyIfBooked, Replay!InProgress
<1> QED BY <1>1, <1>2, SubmitStep, CheckDatabaseStep, BookStep, PersistStep, ReplayRestartStep
        DEF Replay!Next
-----------------------------------------------------------------------------
(* The life of a booked order.  A filled order does not rest, so that no   *)
(* cancellation of it is sent; and what credits the agent settles the      *)
(* order first, which nothing undoes.                                      *)

Statuses == Life!Booked \cup {"CANCELLED", "EXPIRED"}
Records == [status : Statuses, isSettled : BOOLEAN, pnl : -1..1]

LifeInv ==
    /\ order \in Records
    /\ result \in {-1, 1}
    /\ order.status = "FILLED" => ~resting
    /\ credits \in {0, 1}
    /\ credits = 1 => order.isSettled

(* What a step of the life must establish.                                 *)
StatusStays == order.status \in {"CANCELLED", "FILLED"} => order'.status = order.status

(* The records that settling leaves behind.                                *)
LEMMA SettledRecord ==
    ASSUME LifeInv, NEW o,
           o = IF order.status \in Life!Filled
                THEN [order EXCEPT !.isSettled = TRUE, !.pnl = result]
                ELSE [status |-> IF order.status = "CANCELLED" THEN "CANCELLED" ELSE "EXPIRED",
                      isSettled |-> TRUE, pnl |-> 0]
    PROVE  /\ o \in Records /\ o.isSettled
           /\ order.status \in {"CANCELLED", "FILLED"} => o.status = order.status
           /\ o.status = "FILLED" => order.status = "FILLED"
<1> USE DEF LifeInv, Records, Statuses, Life!Booked, Life!Filled
<1>1. CASE order.status \in Life!Filled
    <2>1. o = [order EXCEPT !.isSettled = TRUE, !.pnl = result]
        BY <1>1
    <2>2. o.status = order.status /\ o.isSettled = TRUE
        BY <2>1
    <2>3. o = [status |-> order.status, isSettled |-> TRUE, pnl |-> result]
        BY <2>1
    <2>4. order.status \in Statuses /\ result \in -1..1
        OBVIOUS
    <2>5. [status |-> order.status, isSettled |-> TRUE, pnl |-> result] \in Records
        BY <2>4
    <2>6. o \in Records
        BY <2>3, <2>5
    <2> QED BY <1>1, <2>2, <2>6
<1>2. CASE order.status \notin Life!Filled
    BY <1>2
<1> QED BY <1>1, <1>2

(* SettleOrder, for an order that is not settled.                          *)
LEMMA SettleStep ==
    ASSUME LifeInv, ~order.isSettled, Life!SettleOrder, UNCHANGED <<resting, result>>
    PROVE  LifeInv' /\ StatusStays
<1>1. /\ order' = IF order.status \in Life!Filled
                    THEN [order EXCEPT !.isSettled = TRUE, !.pnl = result]
                    ELSE [status |-> IF order.status = "CANCELLED" THEN "CANCELLED" ELSE "EXPIRED",
                          isSettled |-> TRUE, pnl |-> 0]
      /\ credits' \in {credits, credits + 1}
    BY DEF Life!SettleOrder, LifeInv
<1>2. /\ order' \in Records /\ order'.isSettled
      /\ StatusStays
      /\ order'.status = "FILLED" => order.status = "FILLED"
    BY <1>1, SettledRecord DEF StatusStays
<1>3. credits = 0
    BY DEF LifeInv
<1> QED BY <1>1, <1>2, <1>3 DEF LifeInv

(* The order stays as it is.                                               *)
LEMMA LifeQuietStep ==
    ASSUME LifeInv, UNCHANGED <<order, result, credits>>, resting' => resting
    PROVE  LifeInv' /\ StatusStays
BY DEF LifeInv, StatusStays

(* Every step of an order's life keeps the invariant and a final status.   *)
LEMMA LifeStep ==
    ASSUME LifeInv, Life!Next
    PROVE  LifeInv' /\ StatusStays
<1>1. CASE Life!PoolFills \/ Life!MarketResolves
    BY <1>1, LifeQuietStep DEF Life!PoolFills, Life!MarketResolves
<1>2. ASSUME NEW c \in Cancels,
             Life!CancellationMined(c) \/ Life!CancelOrderFor(c) \/ Life!CancelFails(c)
      PROVE  LifeInv' /\ StatusStays
    BY <1>2, LifeQuietStep DEF Life!CancellationMined, Life!CancelOrderFor, Life!CancelFails
<1>3. ASSUME NEW c \in Cancels, Life!CancelSent(c) PROVE LifeInv' /\ StatusStays
    <2> DEFINE o == [order EXCEPT !.status = "CANCELLED"]
    <2>1. order' = o /\ resting /\ UNCHANGED <<resting, result, credits>>
        BY <1>3 DEF Life!CancelSent
    <2>2. o \in Records /\ o.status = "CANCELLED" /\ o.isSettled = order.isSettled
        BY DEF LifeInv, Records, Statuses
    <2> HIDE DEF o
    <2> QED BY <2>1, <2>2 DEF LifeInv, StatusStays
<1>4. CASE Life!SettleOrdersForMarket
    <2>1. /\ UNCHANGED <<resting, result>>
          /\ (~order.isSettled /\ Life!SettleOrder) \/ UNCHANGED <<order, credits>>
        BY <1>4 DEF Life!SettleOrdersForMarket
    <2> QED BY <2>1, SettleStep, LifeQuietStep
<1>5. ASSUME NEW s \in Syncs, Life!SyncBegins(s) \/ Life!SyncLoads(s)
      PROVE  LifeInv' /\ StatusStays
    BY <1>5, LifeQuietStep DEF Life!SyncBegins, Life!SyncLoads
<1>6. ASSUME NEW s \in Syncs, Life!SyncEnds(s) PROVE LifeInv' /\ StatusStays
    <2>1. /\ UNCHANGED <<resting, result>>
          /\ (~order.isSettled /\ Life!SettleOrder) \/ UNCHANGED <<order, credits>>
        BY <1>6 DEF Life!SyncEnds
    <2> QED BY <2>1, SettleStep, LifeQuietStep
<1>7. ASSUME NEW r \in Reconciles, Life!ReconcileBegins(r) PROVE LifeInv' /\ StatusStays
    BY <1>7, LifeQuietStep DEF Life!ReconcileBegins
<1>8. ASSUME NEW r \in Reconciles, Life!ReconcileEnds(r) PROVE LifeInv' /\ StatusStays
    <2> DEFINE o == IF order.status \in Life!Filled
                      THEN [order EXCEPT !.isSettled = TRUE, !.pnl = result]
                      ELSE [status |-> IF order.status = "CANCELLED" THEN "CANCELLED" ELSE "EXPIRED",
                            isSettled |-> TRUE, pnl |-> 0]
    <2>1. /\ order' = order \/ order' = o
          /\ UNCHANGED <<resting, result, credits>>
        BY <1>8 DEF Life!ReconcileEnds
    <2>2. /\ o \in Records /\ o.isSettled
          /\ order.status \in {"CANCELLED", "FILLED"} => o.status = order.status
          /\ o.status = "FILLED" => order.status = "FILLED"
        BY SettledRecord
    <2> HIDE DEF o
    <2>3. CASE order' = order
        BY <2>1, <2>3, LifeQuietStep
    <2>4. CASE order' = o
        BY <2>1, <2>2, <2>4 DEF LifeInv, StatusStays
    <2> QED BY <2>1, <2>3, <2>4
<1> QED BY <1>1, <1>2, <1>3, <1>4, <1>5, <1>6, <1>7, <1>8 DEF Life!Next
-----------------------------------------------------------------------------
(* The placement of session orders.  A cool-down outlasts every failure it *)
(* is for, and an execution that has passed the checks passed them after   *)
(* all failures that were there when it began.                             *)

(* Times are in order, and the pool a failure was counted on stays.        *)
Timely ==
    /\ now \in Nat
    /\ circuitBreakerUntil \in Nat
    /\ poolFailureUntil \in [Pools -> Nat]
    /\ exec \in [Execs -> [stage : Exec!Stages, pool : Pools, operator : BOOLEAN]]
    /\ begun \in [Execs -> Nat \cup {Exec!Never}]
    /\ failedAt \in [Execs -> Nat \cup {Exec!Never}]
    /\ \A p \in Pools : poolFailureUntil[p] =< now + PoolTime
    /\ \A e \in Execs :
          /\ begun[e] =< now /\ failedAt[e] =< now
          /\ failedAt[e] # Exec!Never => ~Exec!At(e, "idle")
          /\ failedAt[e] # Exec!Never => failedAt[e] + PoolTime =< poolFailureUntil[exec[e].pool]

(* Past the breaker's check, an open breaker has tripped since the order   *)
(* began; past the pool's, the failures it might have seen are over.       *)
PastBreaker == {"funds", "faucet", "funded", "expiry"}

ChecksHold(e) ==
    /\ exec[e].stage \in PastBreaker /\ now < circuitBreakerUntil =>
          begun[e] =< circuitBreakerUntil - BreakerTime
    /\ Exec!At(e, "expiry") =>
          \A f \in Execs :
             failedAt[f] # Exec!Never /\ exec[f].pool = exec[e].pool /\ begun[e] > failedAt[f]
             => now >= failedAt[f] + PoolTime

(* A transaction is sent when placing begins, and who has ended knows what *)
(* became of it.                                                           *)
ChainFollows(e) ==
    /\ chain[e] \in Exec!Matches \cup {"none", "sent", "nothing", "reverted"}
    /\ exec[e].stage \in {"idle", "gas"} \cup PastBreaker => chain[e] = "none"
    /\ Exec!At(e, "ended") => chain[e] # "sent"
    /\ book[e] # "none" => Exec!At(e, "ended")

ExecInv ==
    /\ Timely
    /\ chain \in [Execs -> Exec!Matches \cup {"none", "sent", "nothing", "reverted"}]
    /\ book \in [Execs -> Exec!Matches \cup {"none"}]
    /\ \A e \in Execs : ChecksHold(e) /\ ChainFollows(e)
    /\ Exec!BooksMatchChain

(* What a step of the executions must establish.                           *)
HeldBack ==
    \A e \in Execs :
       Exec!Sends(e) =>
          /\ \A f \in Execs :
                /\ failedAt[f] # Exec!Never
                /\ exec[f].pool = exec[e].pool
                /\ begun[e] > failedAt[f]
                => now >= failedAt[f] + PoolTime
          /\ Exec!isOnChainCircuitBroken => begun[e] =< circuitBreakerUntil - BreakerTime

(* An execution goes on to another stage.                                  *)
LEMMA ExecMoves ==
    ASSUME Timely, NEW e \in Execs, NEW stage \in Exec!Stages, Exec!Goto(e, stage)
    PROVE  /\ exec' \in [Execs -> [stage : Exec!Stages, pool : Pools, operator : BOOLEAN]]
           /\ exec'[e].stage = stage
           /\ exec'[e].pool = exec[e].pool /\ exec'[e].operator = exec[e].operator
           /\ \A f \in Execs \ {e} : exec'[f] = exec[f]
<1>1. exec \in [Execs -> [stage : Exec!Stages, pool : Pools, operator : BOOLEAN]]
    BY DEF Timely
<1> DEFINE x == [exec[e] EXCEPT !.stage = stage]
<1>2. exec' = [exec EXCEPT ![e] = x]
    BY DEF Exec!Goto
<1>3. /\ x \in [stage : Exec!Stages, pool : Pools, operator : BOOLEAN] /\ x.stage = stage
      /\ x.pool = exec[e].pool /\ x.operator = exec[e].operator
    BY <1>1
<1> HIDE DEF x
<1> QED BY <1>1, <1>2, <1>3

(* It goes on without a failure; what the next stage asks for is there.    *)
LEMMA QuietMove ==
    ASSUME ExecInv, NEW e \in Execs, NEW stage \in Exec!Stages \ {"idle"}, Exec!Goto(e, stage),
           UNCHANGED <<now, circuitBreakerUntil, poolFailureUntil, begun, failedAt>>,
           stage \in PastBreaker /\ now < circuitBreakerUntil => exec[e].stage \in PastBreaker,
           stage = "expiry" => ~(now < poolFailureUntil[exec[e].pool])
    PROVE  Timely' /\ \A f \in Execs : ChecksHold(f)'
<1>1. Timely
    BY DEF ExecInv
<1>2. /\ exec' \in [Execs -> [stage : Exec!Stages, pool : Pools, operator : BOOLEAN]]
      /\ exec'[e].stage = stage
      /\ \A f \in Execs \ {e} : exec'[f] = exec[f]
      /\ \A f \in Execs : exec'[f].pool = exec[f].pool
    BY <1>1, ExecMoves
<1>3. Timely'
    BY <1>1, <1>2 DEF Timely, Exec!At
<1>4. ASSUME NEW f \in Execs PROVE ChecksHold(f)'
    <2>1. ChecksHold(f)
        BY DEF ExecInv
    <2>2. CASE f # e
        BY <1>2, <2>1, <2>2 DEF ChecksHold, Exec!At
    <2>3. CASE f = e
        <3>1. stage \in PastBreaker /\ now < circuitBreakerUntil =>
                 begun[e] =< circuitBreakerUntil - BreakerTime
            BY <2>1, <2>3 DEF ChecksHold
        <3>2. stage = "expiry" => now >= poolFailureUntil[exec[e].pool]
            BY <1>1 DEF Timely
        <3>3. ASSUME NEW g \in Execs, stage = "expiry",
                     failedAt[g] # Exec!Never, exec[g].pool = exec[e].pool
              PROVE  now >= failedAt[g] + PoolTime
            <4>1. failedAt[g] + PoolTime =< poolFailureUntil[exec[e].pool]
                BY <1>1, <3>3 DEF Timely
            <4>2. failedAt[g] \in Nat /\ poolFailureUntil[exec[e].pool] \in Nat /\ now \in Nat
                BY <1>1, <3>3 DEF Timely
            <4> QED BY <3>2, <3>3, <4>1, <4>2, ExecAssumption
        <3> QED BY <1>2, <2>3, <3>1, <3>3 DEF ChecksHold, Exec!At
    <2> QED BY <2>2, <2>3
<1> QED BY <1>3, <1>4

(* A placement fails and is counted: whoever comes now is held back, who   *)
(* is past the checks began before it.                                     *)
LEMMA FailureMove ==
    ASSUME ExecInv, NEW e \in Execs, NEW stage \in {"ended", "unanswered"}, Exec!Goto(e, stage),
           Exec!RecordFailure(e), UNCHANGED <<now, begun>>
    PROVE  Timely' /\ \A f \in Execs : ChecksHold(f)'
<1>1. Timely /\ stage \in Exec!Stages
    BY DEF ExecInv, Exec!Stages
<1>2. /\ exec' \in [Execs -> [stage : Exec!Stages, pool : Pools, operator : BOOLEAN]]
      /\ exec'[e].stage = stage
      /\ \A f \in Execs \ {e} : exec'[f] = exec[f]
      /\ \A f \in Execs : exec'[f].pool = exec[f].pool
    BY <1>1, ExecMoves
<1>3. /\ circuitBreakerUntil' \in {now + BreakerTime, circuitBreakerUntil}
      /\ poolFailureUntil' = [poolFailureUntil EXCEPT ![exec[e].pool] = now + PoolTime]
      /\ failedAt' = [failedAt EXCEPT ![e] = now]
    BY DEF Exec!RecordFailure
<1>4. /\ now \in Nat /\ {BreakerTime, PoolTime} \subseteq Nat
      /\ exec[e].pool \in Pools /\ poolFailureUntil \in [Pools -> Nat]
      /\ \A p \in Pools : poolFailureUntil[p] =< now + PoolTime
    BY <1>1, ExecAssumption DEF Timely
<1>5. /\ poolFailureUntil' \in [Pools -> Nat]
      /\ poolFailureUntil'[exec[e].pool] = now + PoolTime
      /\ \A p \in Pools : poolFailureUntil[p] =< poolFailureUntil'[p]
      /\ \A p \in Pools : poolFailureUntil'[p] =< now + PoolTime
    BY <1>3, <1>4
<1>6. /\ failedAt' \in [Execs -> Nat \cup {Exec!Never}] /\ failedAt'[e] = now
      /\ \A f \in Execs \ {e} : failedAt'[f] = failedAt[f]
    BY <1>1, <1>3 DEF Timely
<1>7. ASSUME NEW f \in Execs, failedAt'[f] # Exec!Never
      PROVE  ~Exec!At(f, "idle")' /\ failedAt'[f] + PoolTime =< poolFailureUntil'[exec'[f].pool]
    <2>1. CASE f = e
        BY <1>2, <1>4, <1>5, <1>6, <2>1 DEF Exec!At
    <2>2. CASE f # e
        <3>1. /\ failedAt[f] \in Nat /\ ~Exec!At(f, "idle") /\ exec[f].pool \in Pools
              /\ failedAt[f] + PoolTime =< poolFailureUntil[exec[f].pool]
            BY <1>1, <1>6, <1>7, <2>2 DEF Timely
        <3>2. poolFailureUntil[exec[f].pool] =< poolFailureUntil'[exec[f].pool]
            BY <1>5, <3>1
        <3>3. poolFailureUntil[exec[f].pool] \in Nat /\ poolFailureUntil'[exec[f].pool] \in Nat
            BY <1>4, <1>5, <3>1
        <3> QED BY <1>2, <1>4, <1>6, <2>2, <3>1, <3>2, <3>3 DEF Exec!At
    <2> QED BY <2>1, <2>2
<1>8. Timely'
    <2>1. circuitBreakerUntil' \in Nat
        BY <1>1, <1>3, <1>4 DEF Timely
    <2>2. \A f \in Execs : begun'[f] =< now /\ failedAt'[f] =< now
        BY <1>1, <1>4, <1>6 DEF Timely
    <2> QED BY <1>1, <1>2, <1>5, <1>6, <1>7, <2>1, <2>2 DEF Timely
<1>9. ASSUME NEW f \in Execs PROVE ChecksHold(f)'
    <2>1. CASE f = e
        BY <1>2, <2>1 DEF ChecksHold, PastBreaker, Exec!At
    <2>2. CASE f # e
        <3>1. ChecksHold(f) /\ exec'[f] = exec[f] /\ begun[f] =< now
            BY <1>1, <1>2, <2>2 DEF ExecInv, Timely
        <3>2. begun[f] \in Nat \cup {-1} /\ circuitBreakerUntil \in Nat
            BY <1>1 DEF Timely, Exec!Never
        <3>3. exec[f].stage \in PastBreaker /\ now < circuitBreakerUntil' =>
                 begun[f] =< circuitBreakerUntil' - BreakerTime
            BY <1>3, <1>4, <3>1, <3>2 DEF ChecksHold
        <3>4. ASSUME Exec!At(f, "expiry"), NEW g \in Execs, failedAt'[g] # Exec!Never,
                     exec'[g].pool = exec[f].pool, begun[f] > failedAt'[g]
              PROVE  now >= failedAt'[g] + PoolTime
            <4>1. g # e
                BY <1>4, <1>6, <3>1, <3>2, <3>4
            <4> QED BY <1>2, <1>6, <3>1, <3>4, <4>1 DEF ChecksHold
        <3> QED BY <1>2, <3>1, <3>3, <3>4 DEF ChecksHold, Exec!At
    <2> QED BY <2>1, <2>2
<1> QED BY <1>8, <1>9

(* BooksMatchChain for one execution.                                      *)
Agrees(e) ==
    /\ Exec!At(e, "ended") /\ chain[e] \in Exec!Matches => book[e] # "none"
    /\ book[e] # "none" => chain[e] # "reverted"
    /\ book[e] # "none" /\ exec[e].operator => book[e] = chain[e]

(* The other executions follow the chain as before.                        *)
LEMMA OneMoves ==
    ASSUME ExecInv, NEW e \in Execs, Timely', \A f \in Execs : ChecksHold(f)',
           chain' \in [Execs -> Exec!Matches \cup {"none", "sent", "nothing", "reverted"}],
           book' \in [Execs -> Exec!Matches \cup {"none"}],
           \A f \in Execs \ {e} : exec'[f] = exec[f] /\ chain'[f] = chain[f] /\ book'[f] = book[f],
           ChainFollows(e)', Agrees(e)'
    PROVE  ExecInv'
<1>1. \A f \in Execs : ChainFollows(f)'
    BY DEF ExecInv, ChainFollows, Exec!At
<1>2. \A f \in Execs : Agrees(f)
    BY DEF ExecInv, Exec!BooksMatchChain, Agrees
<1>3. \A f \in Execs : Agrees(f)'
    BY <1>2 DEF Agrees, Exec!At
<1>4. Exec!BooksMatchChain'
    BY <1>3 DEF Agrees, Exec!BooksMatchChain
<1> QED BY <1>1, <1>4 DEF ExecInv

(* A move that neither sends nor books.                                    *)
LEMMA PlainMove ==
    ASSUME ExecInv, NEW e \in Execs, NEW stage \in Exec!Stages \ {"idle"}, Exec!Goto(e, stage),
           Timely', \A f \in Execs : ChecksHold(f)', UNCHANGED book, ~Exec!At(e, "ended"),
           \/ /\ UNCHANGED chain
              /\ exec[e].stage \in {"idle", "gas"} \cup PastBreaker
              /\ stage \in {"gas", "ended"} \cup PastBreaker
           \/ UNCHANGED chain /\ stage = "unanswered"
           \/ UNCHANGED chain /\ stage = "ended" /\ chain[e] = "reverted"
           \/ chain' = [chain EXCEPT ![e] = "nothing"] /\ stage = "ended"
    PROVE  ExecInv'
<1>1. /\ exec'[e].stage = stage
      /\ \A f \in Execs \ {e} : exec'[f] = exec[f]
    BY ExecMoves DEF ExecInv
<1>2. ChainFollows(e) /\ book[e] = "none" /\ chain[e] \in Exec!Matches \cup {"none", "sent", "nothing", "reverted"}
    BY DEF ExecInv, ChainFollows
<1>3. /\ chain' \in [Execs -> Exec!Matches \cup {"none", "sent", "nothing", "reverted"}]
      /\ \A f \in Execs \ {e} : chain'[f] = chain[f]
    BY DEF ExecInv
<1>4. chain'[e] \in {chain[e], "nothing"}
    BY DEF ExecInv
<1>5. /\ stage \in {"gas"} \cup PastBreaker => chain'[e] = "none"
      /\ stage = "ended" => chain'[e] \in {"none", "nothing", "reverted"}
    BY <1>2 DEF ExecInv, ChainFollows, PastBreaker
<1>6. ChainFollows(e)'
    BY <1>1, <1>2, <1>4, <1>5 DEF ChainFollows, Exec!At, Exec!Stages
<1>7. Agrees(e)'
    BY <1>1, <1>2, <1>5 DEF Agrees, Exec!At, Exec!Matches
<1>8. book' \in [Execs -> Exec!Matches \cup {"none"}]
    BY DEF ExecInv
<1> QED BY <1>1, <1>3, <1>6, <1>7, <1>8, OneMoves

(* An order that begins.                                                   *)
LEMMA BeginStep ==
    ASSUME ExecInv, NEW e \in Execs, Exec!Begin(e)
    PROVE  ExecInv'
<1>1. PICK x \in [stage : {"gas"}, pool : Pools, operator : BOOLEAN] :
          exec' = [exec EXCEPT ![e] = x]
    BY DEF Exec!Begin
<1>2. /\ Exec!At(e, "idle") /\ begun' = [begun EXCEPT ![e] = now]
      /\ UNCHANGED <<now, circuitBreakerUntil, poolFailureUntil, chain, book, failedAt>>
    BY DEF Exec!Begin, Exec!gates
<1>3. Timely
    BY DEF ExecInv
<1>4. /\ exec'[e] = x /\ \A f \in Execs \ {e} : exec'[f] = exec[f]
      /\ begun'[e] = now /\ \A f \in Execs \ {e} : begun'[f] = begun[f]
      /\ exec' \in [Execs -> [stage : Exec!Stages, pool : Pools, operator : BOOLEAN]]
      /\ begun' \in [Execs -> Nat \cup {Exec!Never}]
    BY <1>1, <1>2, <1>3 DEF Timely, Exec!Stages
<1>5. failedAt[e] = Exec!Never /\ ~(now < now)
    BY <1>2, <1>3 DEF Timely
<1>6. Timely'
    <2>1. \A f \in Execs : begun'[f] =< now
        BY <1>3, <1>4 DEF Timely
    <2>2. \A f \in Execs : failedAt[f] # Exec!Never =>
             /\ ~Exec!At(f, "idle")'
             /\ failedAt[f] + PoolTime =< poolFailureUntil[exec'[f].pool]
        BY <1>3, <1>4, <1>5 DEF Timely, Exec!At
    <2> QED BY <1>2, <1>3, <1>4, <2>1, <2>2 DEF Timely
<1>7. ASSUME NEW f \in Execs PROVE ChecksHold(f)'
    <2>1. CASE f = e
        BY <1>1, <1>4, <2>1 DEF ChecksHold, PastBreaker, Exec!At
    <2>2. CASE f # e
        <3>1. ChecksHold(f)
            BY DEF ExecInv
        <3>2. \A g \in Execs : failedAt[g] # Exec!Never => exec'[g].pool = exec[g].pool
            BY <1>4, <1>5
        <3> QED BY <1>2, <1>4, <2>2, <3>1, <3>2 DEF ChecksHold, Exec!At
    <2> QED BY <2>1, <2>2
<1>8. chain[e] = "none" /\ book[e] = "none"
    BY <1>2 DEF ExecInv, ChainFollows, Exec!At
<1>9. ChainFollows(e)' /\ Agrees(e)'
    BY <1>1, <1>2, <1>4, <1>8 DEF ChainFollows, Agrees, Exec!At, Exec!Matches
<1>10. /\ chain' \in [Execs -> Exec!Matches \cup {"none", "sent", "nothing", "reverted"}]
       /\ book' \in [Execs -> Exec!Matches \cup {"none"}]
    BY <1>2 DEF ExecInv
<1> QED BY <1>2, <1>4, <1>6, <1>7, <1>9, <1>10, OneMoves

(* The checks before the placement.                                        *)
LEMMA CheckStep ==
    ASSUME ExecInv, NEW e \in Execs,
           Exec!CheckBreaker(e) \/ Exec!CheckFunds(e) \/ Exec!CheckPool(e) \/ Exec!Decline(e)
    PROVE  ExecInv'
<1>1. UNCHANGED <<now, circuitBreakerUntil, poolFailureUntil, chain, book, begun, failedAt>>
    BY DEF Exec!CheckBreaker, Exec!CheckFunds, Exec!CheckPool, Exec!Decline, Exec!gates,
           Exec!histories
<1>2. PICK stage \in {"ended", "funds", "funded", "faucet", "expiry"} :
          /\ Exec!Goto(e, stage)
          /\ exec[e].stage \in {"gas"} \cup PastBreaker
          /\ stage \in PastBreaker /\ now < circuitBreakerUntil => exec[e].stage \in PastBreaker
          /\ stage = "expiry" => ~(now < poolFailureUntil[exec[e].pool])
    BY DEF Exec!CheckBreaker, Exec!CheckFunds, Exec!CheckPool, Exec!Decline, Exec!At,
           Exec!isOnChainCircuitBroken, PastBreaker
<1>3. stage \in Exec!Stages \ {"idle"} /\ stage \in {"gas", "ended"} \cup PastBreaker
    BY DEF Exec!Stages, PastBreaker
<1>4. Timely' /\ \A f \in Execs : ChecksHold(f)'
    BY <1>1, <1>2, <1>3, QuietMove
<1>5. ~Exec!At(e, "ended")
    BY <1>2 DEF Exec!At, PastBreaker
<1>6. exec[e].stage \in {"idle", "gas"} \cup PastBreaker
    BY <1>2
<1> QED BY <1>1, <1>2, <1>3, <1>4, <1>5, <1>6, PlainMove

(* The transaction is sent: who sends has been held back as it should.     *)
LEMMA PlaceStep ==
    ASSUME ExecInv, NEW e \in Execs, Exec!Place(e)
    PROVE  ExecInv' /\ HeldBack
<1>1. /\ Exec!At(e, "expiry") /\ Exec!Goto(e, "placing") /\ chain' = [chain EXCEPT ![e] = "sent"]
      /\ UNCHANGED <<now, circuitBreakerUntil, poolFailureUntil, book, begun, failedAt>>
    BY DEF Exec!Place, Exec!gates, Exec!histories
<1>2. "placing" \in Exec!Stages \ {"idle"} /\ "placing" \notin PastBreaker
    BY DEF Exec!Stages, PastBreaker
<1>3. Timely' /\ \A f \in Execs : ChecksHold(f)'
    BY <1>1, <1>2, QuietMove
<1>4. /\ exec'[e].stage = "placing"
      /\ \A f \in Execs \ {e} : exec'[f] = exec[f]
    BY <1>1, <1>2, ExecMoves DEF ExecInv
<1>5. /\ chain' \in [Execs -> Exec!Matches \cup {"none", "sent", "nothing", "reverted"}]
      /\ chain'[e] = "sent" /\ \A f \in Execs \ {e} : chain'[f] = chain[f]
    BY <1>1 DEF ExecInv
<1>6. book[e] = "none" /\ book' \in [Execs -> Exec!Matches \cup {"none"}]
    BY <1>1 DEF ExecInv, ChainFollows, Exec!At
<1>7. ChainFollows(e)' /\ Agrees(e)'
    BY <1>1, <1>2, <1>4, <1>5, <1>6 DEF ChainFollows, Agrees, Exec!At
<1>8. ExecInv'
    BY <1>1, <1>3, <1>4, <1>5, <1>6, <1>7, OneMoves
<1>9. ASSUME NEW f \in Execs, Exec!Sends(f) PROVE f = e
    BY <1>5, <1>9 DEF Exec!Sends
<1>10. HeldBack
    <2>1. ChecksHold(e) /\ exec[e].stage \in PastBreaker
        BY <1>1 DEF ExecInv, Exec!At, PastBreaker
    <2> QED BY <1>1, <1>9, <2>1 DEF HeldBack, ChecksHold, Exec!isOnChainCircuitBroken
<1> QED BY <1>8, <1>10

(* The chain executes it.                                                  *)
LEMMA MineStep ==
    ASSUME ExecInv, NEW e \in Execs, Exec!Mine(e)
    PROVE  ExecInv'
<1>1. PICK res \in Exec!Matches \cup {"nothing", "reverted"} : chain' = [chain EXCEPT ![e] = res]
    BY DEF Exec!Mine
<1>2. /\ chain[e] = "sent"
      /\ UNCHANGED <<now, circuitBreakerUntil, poolFailureUntil, exec, book, begun, failedAt>>
    BY DEF Exec!Mine, Exec!gates, Exec!histories
<1>3. Timely' /\ \A f \in Execs : ChecksHold(f)'
    BY <1>2 DEF ExecInv, Timely, ChecksHold, Exec!At
<1>4. /\ chain' \in [Execs -> Exec!Matches \cup {"none", "sent", "nothing", "reverted"}]
      /\ chain'[e] = res /\ \A f \in Execs \ {e} : chain'[f] = chain[f]
    BY <1>1 DEF ExecInv
<1>5. ~Exec!At(e, "ended") /\ exec[e].stage \notin {"idle", "gas"} \cup PastBreaker /\ book[e] = "none"
    BY <1>2 DEF ExecInv, ChainFollows
<1>6. ChainFollows(e)' /\ Agrees(e)'
    BY <1>2, <1>4, <1>5 DEF ChainFollows, Agrees, Exec!At
<1>7. book' \in [Execs -> Exec!Matches \cup {"none"}]
    BY <1>2 DEF ExecInv
<1> QED BY <1>2, <1>3, <1>4, <1>6, <1>7, OneMoves

(* The placement fails, or is not answered in time.                        *)
LEMMA FailStep ==
    ASSUME ExecInv, NEW e \in Execs,
           Exec!Reverted(e) \/ Exec!PlacementFails(e) \/ Exec!TimesOut(e)
    PROVE  ExecInv'
<1>1. /\ Exec!At(e, "placing") /\ UNCHANGED <<now, book, begun>>
      /\ \/ Exec!RecordFailure(e)
         \/ UNCHANGED <<circuitBreakerUntil, poolFailureUntil, failedAt>>
    BY DEF Exec!Reverted, Exec!PlacementFails, Exec!TimesOut, Exec!gates
<1>2. PICK stage \in {"ended", "unanswered"} :
          /\ Exec!Goto(e, stage)
          /\ \/ UNCHANGED chain /\ stage = "unanswered"
             \/ UNCHANGED chain /\ stage = "ended" /\ chain[e] = "reverted"
             \/ chain' = [chain EXCEPT ![e] = "nothing"] /\ stage = "ended"
    BY DEF Exec!Reverted, Exec!PlacementFails, Exec!TimesOut
<1>3. /\ stage \in Exec!Stages \ {"idle"} /\ stage \notin PastBreaker /\ stage # "expiry"
      /\ ~Exec!At(e, "ended")
    BY <1>1 DEF Exec!Stages, PastBreaker, Exec!At
<1>4. Timely' /\ \A f \in Execs : ChecksHold(f)'
    BY <1>1, <1>2, <1>3, QuietMove, FailureMove
<1> QED BY <1>1, <1>2, <1>3, <1>4, PlainMove

(* The order is booked as the receipt says.                                *)
LEMMA BookedStep ==
    ASSUME ExecInv, NEW e \in Execs, Exec!Booked(e)
    PROVE  ExecInv'
<1> DEFINE status == IF exec[e].operator THEN Exec!StatusOf(e) ELSE "FILLED"
<1>1. /\ Exec!At(e, "placing") /\ chain[e] \in Exec!Matches \cup {"nothing"}
      /\ Exec!Goto(e, "ended") /\ book' = [book EXCEPT ![e] = status]
      /\ UNCHANGED <<now, circuitBreakerUntil, poolFailureUntil, chain, begun, failedAt>>
    BY DEF Exec!Booked, Exec!histories
<1>2. "ended" \in Exec!Stages \ {"idle"} /\ "ended" \notin PastBreaker
    BY DEF Exec!Stages, PastBreaker
<1>3. Timely' /\ \A f \in Execs : ChecksHold(f)'
    BY <1>1, <1>2, QuietMove
<1>4. /\ exec'[e].stage = "ended" /\ exec'[e].operator = exec[e].operator
      /\ \A f \in Execs \ {e} : exec'[f] = exec[f]
    BY <1>1, <1>2, ExecMoves DEF ExecInv
<1>5. /\ status \in Exec!Matches \cup {"none"}
      /\ chain[e] \in Exec!Matches => status # "none"
      /\ exec[e].operator /\ status # "none" => status = chain[e]
    BY <1>1 DEF Exec!StatusOf, Exec!Matches
<1> HIDE DEF status
<1>6. /\ book' \in [Execs -> Exec!Matches \cup {"none"}]
      /\ book'[e] = status /\ \A f \in Execs \ {e} : book'[f] = book[f]
    BY <1>1, <1>5 DEF ExecInv
<1>7. ChainFollows(e)' /\ Agrees(e)'
    BY <1>1, <1>2, <1>4, <1>5, <1>6 DEF ChainFollows, Agrees, Exec!At, Exec!Matches
<1>8. chain' \in [Execs -> Exec!Matches \cup {"none", "sent", "nothing", "reverted"}]
    BY <1>1 DEF ExecInv
<1> QED BY <1>1, <1>3, <1>4, <1>6, <1>7, <1>8, OneMoves

(* The faucet ends for all who wait for it.                                *)
LEMMA FaucetStep ==
    ASSUME ExecInv, Exec!FaucetEnds
    PROVE  ExecInv'
<1>1. UNCHANGED <<now, circuitBreakerUntil, poolFailureUntil, chain, book, begun, failedAt>>
    BY DEF Exec!FaucetEnds, Exec!histories
<1>2. Timely
    BY DEF ExecInv
<1>3. ASSUME NEW e \in Execs
      PROVE  /\ exec'[e] \in [stage : Exec!Stages, pool : Pools, operator : BOOLEAN]
             /\ exec'[e].pool = exec[e].pool /\ exec'[e].operator = exec[e].operator
             /\ \/ exec'[e].stage = exec[e].stage
                \/ exec[e].stage = "faucet" /\ exec'[e].stage = "funded"
    <2> DEFINE x == [exec[e] EXCEPT !.stage = "funded"]
    <2>1. exec'[e] = IF Exec!At(e, "faucet") THEN x ELSE exec[e]
        BY DEF Exec!FaucetEnds
    <2>2. exec[e] \in [stage : Exec!Stages, pool : Pools, operator : BOOLEAN]
        BY <1>2 DEF Timely
    <2>3. /\ x \in [stage : Exec!Stages, pool : Pools, operator : BOOLEAN] /\ x.stage = "funded"
          /\ x.pool = exec[e].pool /\ x.operator = exec[e].operator
        BY <2>2 DEF Exec!Stages
    <2> HIDE DEF x
    <2> QED BY <2>1, <2>2, <2>3 DEF Exec!At
<1>4. exec' \in [Execs -> [stage : Exec!Stages, pool : Pools, operator : BOOLEAN]]
    <2>1. exec' = [e \in Execs |-> exec'[e]]
        BY DEF Exec!FaucetEnds
    <2> QED BY <1>3, <2>1
<1>5. Timely'
    BY <1>1, <1>2, <1>3, <1>4 DEF Timely, Exec!At
<1>6. ASSUME NEW e \in Execs PROVE ChecksHold(e)' /\ ChainFollows(e)' /\ Agrees(e)'
    <2>1. ChecksHold(e) /\ ChainFollows(e) /\ Agrees(e)
        BY DEF ExecInv, Exec!BooksMatchChain, Agrees
    <2>2. ChecksHold(e)'
        BY <1>1, <1>3, <2>1 DEF ChecksHold, PastBreaker, Exec!At
    <2>3. ChainFollows(e)' /\ Agrees(e)'
        BY <1>1, <1>3, <2>1 DEF ChainFollows, Agrees, PastBreaker, Exec!At
    <2> QED BY <2>2, <2>3
<1>7. Exec!BooksMatchChain'
    BY <1>6 DEF Agrees, Exec!BooksMatchChain
<1> QED BY <1>1, <1>5, <1>6, <1>7 DEF ExecInv

(* Time passes.                                                            *)
LEMMA ExecTickStep ==
    ASSUME ExecInv, Exec!Tick
    PROVE  ExecInv'
<1>1. /\ now' = now + 1 /\ now \in Nat
      /\ UNCHANGED <<circuitBreakerUntil, poolFailureUntil, exec, chain, book, begun, failedAt>>
    BY DEF Exec!Tick, Exec!gates, Exec!histories, ExecInv, Timely
<1>2. Timely'
    BY <1>1, ExecAssumption DEF ExecInv, Timely, Exec!At, Exec!Never
<1>3. ASSUME NEW e \in Execs PROVE ChecksHold(e)'
    <2>1. ChecksHold(e) /\ circuitBreakerUntil \in Nat
          /\ \A f \in Execs : failedAt[f] \in Nat \cup {Exec!Never}
        BY DEF ExecInv, Timely
    <2> QED BY <1>1, <2>1, ExecAssumption DEF ChecksHold, Exec!At
<1> QED BY <1>1, <1>2, <1>3 DEF ExecInv, ChainFollows, Exec!BooksMatchChain, Exec!At

(* Every step of the executions keeps the invariant and holds back.        *)
LEMMA ExecStep ==
    ASSUME ExecInv, Exec!Next
    PROVE  ExecInv' /\ HeldBack
<1>1. ExecInv' /\ ((\E e \in Execs : Exec!Place(e)) => HeldBack)
    BY BeginStep, CheckStep, PlaceStep, MineStep, FailStep, BookedStep, FaucetStep, ExecTickStep
       DEF Exec!Next
<1>2. ASSUME NEW f \in Execs, Exec!Sends(f) PROVE \E e \in Execs : Exec!Place(e)
    <2>1. chain[f] = "none" /\ chain'[f] = "sent" /\ chain \in [Execs -> Exec!Matches \cup {"none", "sent", "nothing", "reverted"}]
        BY <1>2 DEF Exec!Sends, ExecInv
    <2>2. ASSUME chain' = chain PROVE FALSE
        BY <2>1, <2>2
    <2>3. ASSUME NEW e \in Execs, NEW res \in Exec!Matches \cup {"nothing", "reverted"},
                 chain' = [chain EXCEPT ![e] = res]
          PROVE  FALSE
        BY <2>1, <2>3 DEF Exec!Matches
    <2> QED BY <2>2, <2>3
            DEF Exec!Next, Exec!Begin, Exec!CheckBreaker, Exec!CheckFunds, Exec!CheckPool,
                Exec!Decline, Exec!Mine, Exec!Reverted, Exec!PlacementFails, Exec!TimesOut,
                Exec!Booked, Exec!FaucetEnds, Exec!Tick
<1> QED BY <1>1, <1>2 DEF HeldBack
-----------------------------------------------------------------------------
(* The books of payouts.  A row is known if it is in the list or was       *)
(* dropped from it for its length.  What is known is counted, and a user   *)
(* load knows the rows at the places it has read, wherever new rows go.    *)

Known == Ledger!ToSet(sweeps) \cup evicted
SweptOf(S) == {s \in S : payout[s] = "swept"}

LedgerTypes ==
    /\ payout \in [Sweeps -> {"none", "swept", "claimed"}]
    /\ claimedAt \in [Sweeps -> Nat]
    /\ sweeps \in Seq(Sweeps)
    /\ total \in Nat
    /\ loader \in [Loaders -> [kind : {"idle", "user", "all", "ended"}, page : Nat, before : Int]]

HasRead(l) ==
    \A s \in sweepRows : Ledger!Place(s, sweepRows) < loader[l].page * PageSize => s \in Known

LedgerInv ==
    /\ LedgerTypes
    /\ Known \cup sweepRows \subseteq Ledger!Made
    /\ writing \subseteq Known
    /\ here \subseteq SweptOf(Known)
    /\ sweeps = <<>> => evicted = {}
    /\ Cardinality(SweptOf(Known)) =< total
    /\ loaded => sweepRows \subseteq Known
    /\ \A l \in Loaders : loader[l].kind = "user" => HasRead(l)
    /\ Ledger!IsInjective(sweeps)

LEMMA SameRowCount == \A S : Ledger!Cardinality(S) = Cardinality(S)
BY SMT DEF Ledger!Cardinality, Cardinality

(* The order of the rows is strict and total.                              *)
LEMMA RowOrder ==
    ASSUME claimedAt \in [Sweeps -> Nat], NEW r \in Sweeps, NEW s \in Sweeps, NEW t \in Sweeps
    PROVE  /\ ~Ledger!Before(s, s)
           /\ Ledger!Before(r, s) /\ Ledger!Before(s, t) => Ledger!Before(r, t)
           /\ r # s => Ledger!Before(r, s) \/ Ledger!Before(s, r)
<1>1. r \in Int /\ s \in Int /\ t \in Int
    BY LedgerAssumption
<1>2. claimedAt[r] \in Nat /\ claimedAt[s] \in Nat /\ claimedAt[t] \in Nat
    OBVIOUS
<1> QED BY ONLY <1>1, <1>2 DEF Ledger!Before

(* The place of a row is the number of those before it.                    *)
LEMMA PlaceIsCount ==
    ASSUME NEW S, S \subseteq Sweeps, NEW s
    PROVE  /\ IsFiniteSet(S)
           /\ IsFiniteSet({r \in S : Ledger!Before(r, s)})
           /\ Ledger!Place(s, S) = Cardinality({r \in S : Ledger!Before(r, s)})
           /\ Ledger!Place(s, S) \in Nat
<1>1. IsFiniteSet(S)
    BY LedgerAssumption, FS_Subset
<1>2. IsFiniteSet({r \in S : Ledger!Before(r, s)})
    <2>1. {r \in S : Ledger!Before(r, s)} \in SUBSET S
        OBVIOUS
    <2> QED BY <1>1, <2>1, FS_Subset
<1>3. Ledger!Place(s, S) = Cardinality({r \in S : Ledger!Before(r, s)})
    BY SameRowCount DEF Ledger!Place
<1> QED BY <1>1, <1>2, <1>3, FS_CardinalityType

(* An earlier row has a smaller place.                                     *)
LEMMA PlaceRises ==
    ASSUME claimedAt \in [Sweeps -> Nat], NEW S, S \subseteq Sweeps,
           NEW r \in S, NEW s \in S, Ledger!Before(r, s)
    PROVE  Ledger!Place(r, S) < Ledger!Place(s, S)
<1> DEFINE A == {x \in S : Ledger!Before(x, r)}
           B == {x \in S : Ledger!Before(x, s)}
<1>1. A \subseteq B /\ r \in B /\ r \notin A
    BY RowOrder
<1>2. IsFiniteSet(B) /\ Ledger!Place(r, S) = Cardinality(A) /\ Ledger!Place(s, S) = Cardinality(B)
    BY PlaceIsCount
<1>3. Cardinality(A) \in Nat /\ Cardinality(B) \in Nat
    BY <1>2, PlaceIsCount
<1> HIDE DEF A, B
<1>4. Cardinality(A) =< Cardinality(B) /\ Cardinality(A) # Cardinality(B)
    BY <1>1, <1>2, FS_Subset
<1> QED BY <1>2, <1>3, <1>4

LEMMA PlacesDiffer ==
    ASSUME claimedAt \in [Sweeps -> Nat], NEW S, S \subseteq Sweeps, NEW r \in S, NEW s \in S, r # s
    PROVE  Ledger!Place(r, S) # Ledger!Place(s, S)
<1>1. Ledger!Place(r, S) \in Nat /\ Ledger!Place(s, S) \in Nat
    BY PlaceIsCount
<1>2. Ledger!Before(r, s) \/ Ledger!Before(s, r)
    BY RowOrder
<1>3. Ledger!Place(r, S) < Ledger!Place(s, S) \/ Ledger!Place(s, S) < Ledger!Place(r, S)
    BY <1>2, PlaceRises
<1> QED BY <1>1, <1>3

(* More rows never bring a row forward.                                    *)
LEMMA PlaceGrows ==
    ASSUME NEW T, T \subseteq Sweeps, NEW S, S \subseteq T, NEW s
    PROVE  Ledger!Place(s, S) =< Ledger!Place(s, T)
<1>1. S \subseteq Sweeps
    OBVIOUS
<1>2. {r \in S : Ledger!Before(r, s)} \in SUBSET {r \in T : Ledger!Before(r, s)}
    OBVIOUS
<1>3. Cardinality({r \in S : Ledger!Before(r, s)}) =< Cardinality({r \in T : Ledger!Before(r, s)})
    BY <1>2, PlaceIsCount, FS_Subset
<1> QED BY <1>1, <1>3, PlaceIsCount

(* The rows take all places, from 0 on.                                    *)
LEMMA PlacesTaken ==
    ASSUME claimedAt \in [Sweeps -> Nat], NEW S, S \subseteq Sweeps
    PROVE  /\ Cardinality(S) \in Nat
           /\ \A s \in S : Ledger!Place(s, S) \in 0..(Cardinality(S) - 1)
           /\ \A i \in 0..(Cardinality(S) - 1) : \E s \in S : Ledger!Place(s, S) = i
<1> DEFINE n == Cardinality(S)
           f == [s \in S |-> Ledger!Place(s, S) + 1]
<1>1. IsFiniteSet(S) /\ n \in Nat
    BY PlaceIsCount, FS_CardinalityType
<1>2. ASSUME NEW s \in S PROVE Ledger!Place(s, S) \in Nat /\ Ledger!Place(s, S) < n
    <2> DEFINE A == {r \in S : Ledger!Before(r, s)}
    <2>1. A \in SUBSET S /\ s \notin A
        BY RowOrder
    <2>2. Ledger!Place(s, S) = Cardinality(A) /\ Ledger!Place(s, S) \in Nat
        BY PlaceIsCount
    <2> HIDE DEF A
    <2>3. Cardinality(A) =< n /\ Cardinality(A) # n
        BY <1>1, <2>1, FS_Subset
    <2> QED BY <1>1, <2>2, <2>3
<1>3. f \in [S -> 1..n]
    BY <1>1, <1>2
<1>4. f \in Injection(S, 1..n)
    <2>1. ASSUME NEW r \in S, NEW s \in S, f[r] = f[s] PROVE r = s
        <3>1. Ledger!Place(r, S) = Ledger!Place(s, S)
            BY <1>2, <2>1
        <3> QED BY <3>1, PlacesDiffer
    <2> QED BY <1>3, <2>1 DEF Injection, IsInjective
<1>5. IsFiniteSet(1..n) /\ Cardinality(1..n) = n
    BY <1>1, FS_Interval
<1> HIDE DEF f
<1>6. f \in Surjection(S, 1..n)
    BY <1>4, <1>5, FS_Injection
<1>7. ASSUME NEW i \in 0..(n - 1) PROVE \E s \in S : Ledger!Place(s, S) = i
    <2>1. i + 1 \in 1..n
        BY <1>1
    <2>2. PICK s \in S : f[s] = i + 1
        BY <1>6, <2>1 DEF Surjection
    <2>3. f[s] = Ledger!Place(s, S) + 1
        BY DEF f
    <2> QED BY <1>2, <2>2, <2>3
<1> QED BY <1>1, <1>2, <1>7

(* A list of rows by place holds each of them once.                        *)
LEMMA NewestFirstList ==
    ASSUME claimedAt \in [Sweeps -> Nat], NEW S, S \subseteq Sweeps
    PROVE  /\ Ledger!NewestFirst(S) \in Seq(S)
           /\ Ledger!ToSet(Ledger!NewestFirst(S)) = S
           /\ Ledger!IsInjective(Ledger!NewestFirst(S))
<1> DEFINE n == Cardinality(S)
           q == Ledger!NewestFirst(S)
<1>1. n \in Nat /\ DOMAIN q = 1..n
    BY PlacesTaken, SameRowCount DEF Ledger!NewestFirst
<1>2. ASSUME NEW i \in 1..n PROVE q[i] \in S /\ Ledger!Place(q[i], S) = i - 1
    <2>1. q[i] = CHOOSE s \in S : Ledger!Place(s, S) = i - 1
        BY <1>2, SameRowCount DEF Ledger!NewestFirst
    <2>2. i - 1 \in 0..(n - 1)
        BY <1>1
    <2>3. \E s \in S : Ledger!Place(s, S) = i - 1
        BY <2>2, PlacesTaken
    <2> HIDE DEF q
    <2> QED BY <2>1, <2>3
<1>3. ASSUME NEW s \in S PROVE \E i \in 1..n : q[i] = s
    <2>1. Ledger!Place(s, S) \in 0..(n - 1)
        BY PlacesTaken
    <2>2. Ledger!Place(s, S) + 1 \in 1..n /\ (Ledger!Place(s, S) + 1) - 1 = Ledger!Place(s, S)
        BY <1>1, <2>1
    <2>3. q[Ledger!Place(s, S) + 1] = s
        BY <1>2, <2>2, PlacesDiffer
    <2> QED BY <2>2, <2>3
<1>4. q = [i \in 1..n |-> q[i]]
    BY SameRowCount DEF Ledger!NewestFirst
<1> HIDE DEF n, q
<1>5. q \in Seq(S)
    BY <1>1, <1>2, <1>4
<1>6. Ledger!ToSet(q) = S
    BY <1>1, <1>2, <1>3 DEF Ledger!ToSet
<1>7. Ledger!IsInjective(q)
    <2>1. ASSUME NEW i \in 1..n, NEW j \in 1..n, q[i] = q[j] PROVE i = j
        <3>1. i - 1 = j - 1
            BY <1>2, <2>1
        <3> QED BY <1>1, <3>1
    <2> QED BY <1>1, <2>1 DEF Ledger!IsInjective
<1> QED BY <1>5, <1>6, <1>7 DEF q

(* A page with fewer rows than it can hold is the last.                    *)
LEMMA ShortPage ==
    ASSUME claimedAt \in [Sweeps -> Nat], NEW S, S \subseteq Sweeps, NEW k \in Nat,
           Ledger!Cardinality(Ledger!Page(S, k)) < PageSize
    PROVE  \A s \in S : Ledger!Place(s, S) < k + PageSize
<1> SUFFICES ASSUME NEW t \in S, ~(Ledger!Place(t, S) < k + PageSize) PROVE FALSE
    OBVIOUS
<1> DEFINE P == Ledger!Page(S, k)
           n == Cardinality(S)
           I == k..(k + PageSize - 1)
           f == [i \in I |-> CHOOSE s \in S : Ledger!Place(s, S) = i]
<1>1. PageSize \in Nat \ {0} /\ n \in Nat /\ Ledger!Place(t, S) \in 0..(n - 1)
    BY LedgerAssumption, PlacesTaken
<1>2. I \subseteq 0..(n - 1)
    BY <1>1
<1>3. ASSUME NEW i \in I PROVE f[i] \in P /\ Ledger!Place(f[i], S) = i
    <2>1. \E s \in S : Ledger!Place(s, S) = i
        BY <1>2, PlacesTaken
    <2>2. f[i] = CHOOSE s \in S : Ledger!Place(s, S) = i
        OBVIOUS
    <2> HIDE DEF f
    <2>3. f[i] \in S /\ Ledger!Place(f[i], S) = i
        BY <2>1, <2>2
    <2> QED BY <2>3 DEF Ledger!Page
<1>4. f \in [I -> P]
    BY <1>3
<1>5. DOMAIN f = I
    OBVIOUS
<1> HIDE DEF f
<1>6. f \in Injection(I, P)
    BY <1>3, <1>4 DEF Injection, IsInjective
<1>7. P \subseteq Sweeps
    BY DEF Ledger!Page
<1>8. IsFiniteSet(P) /\ Cardinality(P) \in Nat
    BY <1>7, PlaceIsCount, FS_CardinalityType
<1>9. Cardinality(I) =< Cardinality(P)
    BY <1>6, <1>8, FS_Injection
<1>10. Cardinality(I) = PageSize
    <2>1. k \in Int /\ k + PageSize - 1 \in Int /\ ~(k > k + PageSize - 1)
        BY <1>1
    <2>2. Cardinality(I) = (k + PageSize - 1) - k + 1
        BY <2>1, FS_Interval
    <2> QED BY <1>1, <2>2
<1>11. Cardinality(P) < PageSize
    BY SameRowCount
<1> HIDE DEF P, I
<1> QED BY <1>1, <1>8, <1>9, <1>10, <1>11

LEMMA KnownRows ==
    ASSUME LedgerInv
    PROVE  /\ Known \subseteq Sweeps
           /\ sweepRows \subseteq Sweeps
           /\ SweptOf(Known) \subseteq Sweeps
BY DEF LedgerInv, Ledger!Made, SweptOf

(* A booked payout goes to the head of the list, which drops at most its   *)
(* last record.                                                            *)
LEMMA FirstPut ==
    ASSUME LedgerInv, NEW s \in Sweeps, s \notin Ledger!Made, NEW cap \in Nat \ {0},
           Ledger!PutFirst(s, cap)
    PROVE  /\ sweeps' \in Seq(Sweeps) /\ sweeps' # <<>>
           /\ Known' = Known \cup {s}
           /\ Ledger!IsInjective(sweeps')
<1> DEFINE q == <<s>> \o sweeps
           n == Len(sweeps)
<1>1. sweeps \in Seq(Sweeps) /\ Known \subseteq Ledger!Made /\ Ledger!IsInjective(sweeps)
    BY DEF LedgerInv, LedgerTypes
<1>2. n \in Nat /\ DOMAIN sweeps = 1..n
    BY <1>1
<1>3. \A i \in 1..n : sweeps[i] # s
    BY <1>1, <1>2 DEF Known, Ledger!ToSet
<1>4. q \in Seq(Sweeps) /\ Len(q) = n + 1 /\ q[1] = s /\ \A i \in 2..(n + 1) : q[i] = sweeps[i - 1]
    BY <1>1
<1>5. DOMAIN q = 1..(n + 1)
    BY <1>4
<1> HIDE DEF q, n
<1>6. Ledger!ToSet(q) = Ledger!ToSet(sweeps) \cup {s}
    <2>1. ASSUME NEW i \in 1..n PROVE i + 1 \in 1..(n + 1) /\ q[i + 1] = sweeps[i]
        <3>1. i + 1 \in 2..(n + 1) /\ (i + 1) - 1 = i
            BY <1>2
        <3> QED BY <1>4, <3>1
    <2>2. ASSUME NEW i \in 1..(n + 1) PROVE q[i] = s \/ \E j \in 1..n : q[i] = sweeps[j]
        <3>1. i = 1 \/ (i \in 2..(n + 1) /\ i - 1 \in 1..n)
            BY <1>2
        <3> QED BY <1>4, <3>1
    <2>3. 1 \in 1..(n + 1)
        BY <1>2
    <2>4. Ledger!ToSet(q) \subseteq Ledger!ToSet(sweeps) \cup {s}
        BY ONLY <1>2, <1>5, <2>2, Zenon DEF Ledger!ToSet
    <2>5. Ledger!ToSet(sweeps) \subseteq Ledger!ToSet(q)
        BY ONLY <1>2, <1>5, <2>1, Zenon DEF Ledger!ToSet
    <2>6. s \in Ledger!ToSet(q)
        BY <1>4, <1>5, <2>3 DEF Ledger!ToSet
    <2> QED BY <2>4, <2>5, <2>6
<1>7. ASSUME NEW i \in 1..(n + 1), NEW j \in 1..(n + 1), q[i] = q[j] PROVE i = j
    <2>1. \A k \in 1..(n + 1) : k = 1 \/ (k \in 2..(n + 1) /\ k - 1 \in 1..n)
        BY <1>2
    <2>2. \A k, m \in 1..n : sweeps[k] = sweeps[m] => k = m
        BY <1>1, <1>2 DEF Ledger!IsInjective
    <2>3. CASE i = 1
        BY <1>3, <1>4, <1>7, <2>1, <2>3
    <2>4. CASE j = 1
        BY <1>3, <1>4, <1>7, <2>1, <2>4
    <2>5. CASE i # 1 /\ j # 1
        <3>1. i - 1 \in 1..n /\ j - 1 \in 1..n /\ sweeps[i - 1] = sweeps[j - 1]
            BY <1>4, <1>7, <2>1, <2>5
        <3>2. i - 1 = j - 1
            BY <2>2, <3>1
        <3> QED BY <3>2
    <2> QED BY <2>3, <2>4, <2>5
<1>8. CASE ~(Len(q) > cap)
    <2>1. sweeps' = q /\ evicted' = evicted
        BY <1>8 DEF Ledger!PutFirst, q
    <2>2. sweeps' # <<>>
        BY <1>2, <1>4, <2>1
    <2>3. Known' = Known \cup {s}
        BY <1>6, <2>1 DEF Known
    <2>4. Ledger!IsInjective(sweeps')
        BY <1>5, <1>7, <2>1 DEF Ledger!IsInjective
    <2> QED BY <1>4, <2>1, <2>2, <2>3, <2>4
<1>9. CASE Len(q) > cap
    <2> DEFINE f == SubSeq(q, 1, n)
    <2>1. sweeps' = f /\ evicted' = evicted \cup {q[n + 1]}
        <3>1. Len(q) - 1 = n
            BY <1>2, <1>4
        <3> QED BY <1>4, <1>9, <3>1 DEF Ledger!PutFirst, Ledger!Front, Ledger!Last, q
    <2>2. n >= 1
        BY <1>2, <1>4, <1>9
    <2>3. f \in Seq(Sweeps) /\ Len(f) = n /\ DOMAIN f = 1..n /\ \A i \in 1..n : f[i] = q[i]
        BY <1>2, <1>4
    <2> HIDE DEF f
    <2>4. f # <<>>
        <3>1. Len(f) # 0 /\ f \in Seq(Sweeps)
            BY <1>2, <2>2, <2>3
        <3> QED BY <3>1
    <2>5. Ledger!ToSet(q) = Ledger!ToSet(f) \cup {q[n + 1]}
        <3>1. \A i : i \in 1..(n + 1) <=> i \in 1..n \/ i = n + 1
            BY <1>2
        <3> QED BY <1>5, <2>3, <3>1 DEF Ledger!ToSet
    <2>6. Known' = Known \cup {s}
        BY <1>6, <2>1, <2>5 DEF Known
    <2>7. \A i \in 1..n : i \in 1..(n + 1)
        BY <1>2
    <2>8. Ledger!IsInjective(f)
        BY <1>7, <2>3, <2>7 DEF Ledger!IsInjective
    <2> QED BY <2>1, <2>3, <2>4, <2>6, <2>8
<1> QED BY <1>8, <1>9

(* Rows a page brings become known, and all of them are counted.           *)
LEMMA RowsTaken ==
    ASSUME LedgerInv, NEW rows, rows \subseteq sweepRows, Ledger!TakeRows(rows),
           UNCHANGED <<payout, evicted>>
    PROVE  /\ sweeps' \in Seq(Sweeps) /\ (sweeps' = <<>> => sweeps = <<>>)
           /\ Known' = Known \cup rows
           /\ Ledger!IsInjective(sweeps')
           /\ total' \in Nat /\ Cardinality(SweptOf(Known)') =< total'
<1> DEFINE new == rows \ Ledger!ToSet(sweeps)
           q == Ledger!NewestFirst(new)
           n == Len(sweeps)
           m == Len(q)
<1>1. /\ sweeps \in Seq(Sweeps) /\ Ledger!IsInjective(sweeps) /\ claimedAt \in [Sweeps -> Nat]
      /\ total \in Nat /\ Cardinality(SweptOf(Known)) =< total
    BY DEF LedgerInv, LedgerTypes
<1>2. rows \subseteq Sweeps /\ new \subseteq Sweeps
    BY KnownRows
<1>3. q \in Seq(new) /\ Ledger!ToSet(q) = new /\ Ledger!IsInjective(q)
    BY <1>1, <1>2, NewestFirstList
<1>4. sweeps' = sweeps \o q
    BY DEF Ledger!TakeRows
<1> HIDE DEF new, q
<1>5. q \in Seq(Sweeps)
    BY <1>2, <1>3
<1>6. n \in Nat /\ m \in Nat /\ DOMAIN sweeps = 1..n /\ DOMAIN q = 1..m
    BY <1>1, <1>5
<1>7. /\ sweeps' \in Seq(Sweeps) /\ Len(sweeps') = n + m /\ DOMAIN sweeps' = 1..(n + m)
      /\ \A i \in 1..n : sweeps'[i] = sweeps[i]
      /\ \A i \in 1..m : sweeps'[n + i] = q[i]
    BY <1>1, <1>4, <1>5
<1> HIDE DEF n, m
<1>8. \A k \in 1..(n + m) : k \in 1..n \/ (k - n \in 1..m /\ k = n + (k - n))
    BY <1>6
<1>9. (\A k \in 1..n : k \in 1..(n + m)) /\ (\A k \in 1..m : n + k \in 1..(n + m))
    BY <1>6
<1>10. Ledger!ToSet(sweeps') = Ledger!ToSet(sweeps) \cup rows
    <2>1. Ledger!ToSet(sweeps') \subseteq Ledger!ToSet(sweeps) \cup Ledger!ToSet(q)
        <3>1. ASSUME NEW k \in 1..(n + m)
              PROVE  sweeps'[k] \in Ledger!ToSet(sweeps) \cup Ledger!ToSet(q)
            <4>1. CASE k \in 1..n
                BY <1>6, <1>7, <4>1 DEF Ledger!ToSet
            <4>2. CASE k - n \in 1..m /\ k = n + (k - n)
                <5>1. sweeps'[k] = q[k - n]
                    BY <1>7, <4>2
                <5> QED BY <1>6, <4>2, <5>1 DEF Ledger!ToSet
            <4> QED BY <1>8, <4>1, <4>2
        <3> QED BY <1>7, <3>1 DEF Ledger!ToSet
    <2>2. Ledger!ToSet(sweeps) \cup Ledger!ToSet(q) \subseteq Ledger!ToSet(sweeps')
        BY <1>6, <1>7, <1>9 DEF Ledger!ToSet
    <2> QED BY <1>3, <2>1, <2>2 DEF new
<1>11. Known' = Known \cup rows
    BY <1>10 DEF Known
<1>12. ASSUME NEW i \in 1..(n + m), NEW j \in 1..(n + m), sweeps'[i] = sweeps'[j] PROVE i = j
    <2>1. \A k \in 1..n, l \in 1..m : sweeps[k] # q[l]
        BY <1>3, <1>6 DEF Ledger!ToSet, new
    <2>2. (i \in 1..n \/ (i - n \in 1..m /\ i = n + (i - n))) /\ (j \in 1..n \/ (j - n \in 1..m /\ j = n + (j - n)))
        BY <1>8
    <2>3. (i \in 1..n => sweeps'[i] = sweeps[i]) /\ (j \in 1..n => sweeps'[j] = sweeps[j])
        BY <1>7
    <2>4. /\ (i - n \in 1..m /\ i = n + (i - n)) => sweeps'[i] = q[i - n]
          /\ (j - n \in 1..m /\ j = n + (j - n)) => sweeps'[j] = q[j - n]
        BY <1>7
    <2>5. CASE i \in 1..n /\ j \in 1..n
        BY <1>1, <1>6, <1>12, <2>3, <2>5 DEF Ledger!IsInjective
    <2>6. CASE (i - n \in 1..m /\ i = n + (i - n)) /\ (j - n \in 1..m /\ j = n + (j - n))
        <3>1. q[i - n] = q[j - n]
            BY <1>12, <2>4, <2>6
        <3>2. i - n = j - n
            BY <1>3, <1>6, <2>6, <3>1 DEF Ledger!IsInjective
        <3> QED BY <2>6, <3>2
    <2> QED BY <1>12, <2>1, <2>2, <2>3, <2>4, <2>5, <2>6
<1>13. Ledger!IsInjective(sweeps')
    BY <1>7, <1>12 DEF Ledger!IsInjective
<1>14. sweeps' = <<>> => sweeps = <<>>
    BY <1>1, <1>6, <1>7 DEF n
<1>15. total' \in Nat /\ Cardinality(SweptOf(Known)') =< total'
    <2>1. total' = total + Cardinality(rows)
        BY SameRowCount DEF Ledger!TakeRows
    <2>2. IsFiniteSet(rows) /\ Cardinality(rows) \in Nat
        BY <1>2, PlaceIsCount, FS_CardinalityType
    <2>3. IsFiniteSet(SweptOf(Known)) /\ Cardinality(SweptOf(Known)) \in Nat
        BY KnownRows, PlaceIsCount, FS_CardinalityType
    <2>4. SweptOf(Known)' \in SUBSET (SweptOf(Known) \cup rows)
        BY <1>11 DEF SweptOf
    <2>5. /\ IsFiniteSet(SweptOf(Known) \cup rows)
          /\ Cardinality(SweptOf(Known) \cup rows) =< Cardinality(SweptOf(Known)) + Cardinality(rows)
        <3>1. Cardinality(SweptOf(Known) \cap rows) \in Nat
            BY <2>2, FS_Intersection, FS_CardinalityType
        <3>2. /\ IsFiniteSet(SweptOf(Known) \cup rows)
              /\ Cardinality(SweptOf(Known) \cup rows)
                     = Cardinality(SweptOf(Known)) + Cardinality(rows) - Cardinality(SweptOf(Known) \cap rows)
            BY <2>2, <2>3, FS_Union
        <3> QED BY <2>2, <2>3, <3>1, <3>2
    <2>6. IsFiniteSet(SweptOf(Known)') /\ Cardinality(SweptOf(Known)') =< Cardinality(SweptOf(Known) \cup rows)
        BY <2>4, <2>5, FS_Subset
    <2>7. Cardinality(SweptOf(Known)') \in Nat /\ Cardinality(SweptOf(Known) \cup rows) \in Nat
        BY <2>5, <2>6, FS_CardinalityType
    <2> QED BY <1>1, <2>1, <2>2, <2>3, <2>5, <2>6, <2>7
<1> QED BY <1>7, <1>11, <1>13, <1>14, <1>15

(* What a load has read it goes on to know.                                *)
LEMMA ReadStays ==
    ASSUME UNCHANGED <<claimedAt, sweepRows>>, Known \subseteq Known',
           NEW l \in Loaders, HasRead(l), loader'[l].page = loader[l].page
    PROVE  HasRead(l)'
<1>1. \A s \in sweepRows : Ledger!Place(s, sweepRows)' = Ledger!Place(s, sweepRows)
    BY DEF Ledger!Place, Ledger!Before
<1> QED BY <1>1 DEF HasRead

(* A payout is booked: in the list, and in the total if it is a sweep.     *)
LEMMA BookingStep ==
    ASSUME LedgerInv, NEW s \in Sweeps, NEW kind \in {"swept", "claimed"}, Ledger!Mint(s, kind),
           NEW cap \in Nat \ {0}, Ledger!PutFirst(s, cap), writing' \subseteq writing \cup {s},
           kind = "swept" => total' = total + 1 /\ here' = here \cup {s},
           kind = "claimed" => total' = total /\ here' = here,
           UNCHANGED <<loaded, sweepRows, loader>>
    PROVE  LedgerInv'
<1>1. /\ LedgerTypes /\ Known \subseteq Ledger!Made /\ sweepRows \subseteq Ledger!Made
      /\ writing \subseteq Known /\ here \subseteq SweptOf(Known)
      /\ Cardinality(SweptOf(Known)) =< total
      /\ loaded => sweepRows \subseteq Known
      /\ \A l \in Loaders : loader[l].kind = "user" => HasRead(l)
    BY DEF LedgerInv
<1>2. s \notin Ledger!Made /\ payout' = [payout EXCEPT ![s] = kind]
    BY DEF Ledger!Mint, Ledger!Made
<1>3. PICK t \in 1..MaxStamps : claimedAt' = [claimedAt EXCEPT ![s] = t]
    BY DEF Ledger!Mint
<1>4. t \in Nat
    BY <1>3, LedgerAssumption
<1>5. sweeps' \in Seq(Sweeps) /\ sweeps' # <<>> /\ Known' = Known \cup {s} /\ Ledger!IsInjective(sweeps')
    BY <1>2, FirstPut
<1>6. Ledger!Made' = Ledger!Made \cup {s}
    BY <1>1, <1>2 DEF Ledger!Made, LedgerTypes
<1>7. SweptOf(Known)' = IF kind = "swept" THEN SweptOf(Known) \cup {s} ELSE SweptOf(Known)
    <2>1. Known \subseteq Sweeps /\ s \notin Known
        BY <1>1, <1>2, KnownRows
    <2>2. payout'[s] = kind /\ \A r \in Known : payout'[r] = payout[r]
        BY <1>1, <1>2, <2>1 DEF LedgerTypes
    <2> QED BY <1>5, <2>2 DEF SweptOf
<1>8. total' \in Nat /\ Cardinality(SweptOf(Known)') =< total'
    <2>1. IsFiniteSet(SweptOf(Known))
        BY KnownRows, PlaceIsCount
    <2>2. Cardinality(SweptOf(Known)) \in Nat /\ total \in Nat
        BY <1>1, <2>1, FS_CardinalityType DEF LedgerTypes
    <2>3. Cardinality(SweptOf(Known) \cup {s}) =< Cardinality(SweptOf(Known)) + 1
        <3>1. Cardinality(SweptOf(Known) \cup {s}) = IF s \in SweptOf(Known)
                                                     THEN Cardinality(SweptOf(Known))
                                                     ELSE Cardinality(SweptOf(Known)) + 1
            BY <2>1, FS_AddElement
        <3> QED BY <2>2, <3>1
    <2>4. CASE kind = "swept"
        <3>1. Cardinality(SweptOf(Known) \cup {s}) \in Nat
            BY <2>1, FS_AddElement, FS_CardinalityType
        <3> QED BY <1>1, <1>7, <2>2, <2>3, <2>4, <3>1
    <2>5. CASE kind = "claimed"
        BY <1>1, <1>7, <2>2, <2>5
    <2> QED BY <2>4, <2>5
<1>9. LedgerTypes'
    BY <1>1, <1>2, <1>3, <1>4, <1>5, <1>8 DEF LedgerTypes
<1>10. here' \subseteq SweptOf(Known)'
    BY <1>1, <1>7
<1>11. \A r \in sweepRows : Ledger!Place(r, sweepRows)' = Ledger!Place(r, sweepRows)
    <2>1. \A r \in sweepRows : claimedAt'[r] = claimedAt[r]
        BY <1>1, <1>2, <1>3 DEF LedgerTypes, Ledger!Made
    <2> QED BY <2>1 DEF Ledger!Place, Ledger!Before
<1>12. \A l \in Loaders : loader'[l].kind = "user" => HasRead(l)'
    BY <1>1, <1>5, <1>11 DEF HasRead
<1>13. (Known \cup sweepRows)' \subseteq Ledger!Made' /\ writing' \subseteq Known'
    BY <1>1, <1>5, <1>6
<1>14. loaded' => sweepRows' \subseteq Known'
    BY <1>1, <1>5
<1>15. Ledger!IsInjective(sweeps)'
    BY <1>5 DEF Ledger!IsInjective
<1> QED BY <1>5, <1>8, <1>9, <1>10, <1>12, <1>13, <1>14, <1>15 DEF LedgerInv

(* An insert lands or fails: its row is known already.                     *)
LEMMA InsertStep ==
    ASSUME LedgerInv, NEW s \in Sweeps, Ledger!InsertRow(s)
    PROVE  LedgerInv'
<1>1. /\ s \in writing /\ writing' = writing \ {s} /\ sweepRows \subseteq sweepRows'
      /\ sweepRows' \subseteq sweepRows \cup {s}
      /\ UNCHANGED <<payout, claimedAt, sweeps, total, loaded, loader, evicted, here>>
    BY DEF Ledger!InsertRow
<1>2. Known' = Known /\ Ledger!Made' = Ledger!Made /\ SweptOf(Known)' = SweptOf(Known)
    BY <1>1 DEF Known, Ledger!Made, SweptOf, Ledger!ToSet
<1>3. s \in Known /\ sweepRows' \subseteq Sweeps
    BY <1>1, KnownRows DEF LedgerInv
<1>4. ASSUME NEW l \in Loaders, HasRead(l) PROVE HasRead(l)'
    <2> SUFFICES ASSUME NEW r \in sweepRows', Ledger!Place(r, sweepRows)' < loader[l].page * PageSize
                 PROVE  r \in Known
        BY <1>1, <1>2 DEF HasRead
    <2>1. CASE r = s
        BY <1>3, <2>1
    <2>2. CASE r \in sweepRows
        <3>1. Ledger!Place(r, sweepRows)' = Ledger!Place(r, sweepRows')
            BY <1>1 DEF Ledger!Place, Ledger!Before
        <3>2. Ledger!Place(r, sweepRows) =< Ledger!Place(r, sweepRows')
            BY <1>1, <1>3, PlaceGrows
        <3>3. Ledger!Place(r, sweepRows) \in Nat /\ Ledger!Place(r, sweepRows') \in Nat
            BY <1>3, KnownRows, PlaceIsCount
        <3>4. loader[l].page * PageSize \in Int
            BY LedgerAssumption DEF LedgerInv, LedgerTypes
        <3>5. Ledger!Place(r, sweepRows) < loader[l].page * PageSize
            BY <3>1, <3>2, <3>3, <3>4
        <3> QED BY <1>4, <2>2, <3>5 DEF HasRead
    <2> QED BY <1>1, <2>1, <2>2
<1>5. (Known \cup sweepRows)' \subseteq Ledger!Made' /\ writing' \subseteq Known'
    BY <1>1, <1>2, <1>3 DEF LedgerInv
<1>6. loaded' => sweepRows' \subseteq Known'
    BY <1>1, <1>2, <1>3 DEF LedgerInv
<1>7. LedgerTypes' /\ here' \subseteq SweptOf(Known)' /\ Cardinality(SweptOf(Known)') =< total'
    BY <1>1, <1>2 DEF LedgerInv, LedgerTypes
<1>8. (sweeps' = <<>> => evicted' = {}) /\ Ledger!IsInjective(sweeps)'
    BY <1>1 DEF LedgerInv, Ledger!IsInjective
<1>9. \A l \in Loaders : loader'[l].kind = "user" => HasRead(l)'
    BY <1>1, <1>4 DEF LedgerInv
<1> QED BY <1>5, <1>6, <1>7, <1>8, <1>9 DEF LedgerInv

(* Rows are taken over, and every user load knows what it has read.        *)
LEMMA TakingStep ==
    ASSUME LedgerInv, NEW rows, rows \subseteq sweepRows, Ledger!TakeRows(rows),
           UNCHANGED <<payout, claimedAt, sweepRows, writing, evicted, here>>,
           loader' \in [Loaders -> [kind : {"idle", "user", "all", "ended"}, page : Nat, before : Int]],
           \A l \in Loaders : \/ loader'[l] = loader[l]
                              \/ loader'[l].kind = "user" => HasRead(l)',
           loaded' => loaded \/ sweepRows \subseteq Known \cup rows
    PROVE  LedgerInv'
<1>1. /\ sweeps' \in Seq(Sweeps) /\ (sweeps' = <<>> => sweeps = <<>>)
      /\ Known' = Known \cup rows
      /\ Ledger!IsInjective(sweeps')
      /\ total' \in Nat /\ Cardinality(SweptOf(Known)') =< total'
    BY RowsTaken
<1>2. /\ LedgerTypes /\ Known \subseteq Ledger!Made /\ sweepRows \subseteq Ledger!Made
      /\ writing \subseteq Known /\ here \subseteq SweptOf(Known)
      /\ loaded => sweepRows \subseteq Known
      /\ sweeps = <<>> => evicted = {}
      /\ \A l \in Loaders : loader[l].kind = "user" => HasRead(l)
    BY DEF LedgerInv
<1>3. Ledger!Made' = Ledger!Made
    BY DEF Ledger!Made
<1>4. here' \subseteq SweptOf(Known)'
    BY <1>1, <1>2 DEF SweptOf
<1>5. \A l \in Loaders : loader'[l].kind = "user" => HasRead(l)'
    <2> SUFFICES ASSUME NEW l \in Loaders, loader'[l].kind = "user", loader'[l] = loader[l]
                 PROVE  HasRead(l)'
        OBVIOUS
    <2>1. HasRead(l)
        BY <1>2
    <2> QED BY <1>1, <2>1, ReadStays
<1>6. LedgerTypes'
    BY <1>1, <1>2 DEF LedgerTypes
<1>7. Ledger!IsInjective(sweeps)'
    BY <1>1 DEF Ledger!IsInjective
<1>8. /\ (Known \cup sweepRows)' \subseteq Ledger!Made' /\ writing' \subseteq Known'
      /\ loaded' => sweepRows' \subseteq Known'
    BY <1>1, <1>2, <1>3
<1>9. sweeps' = <<>> => evicted' = {}
    BY <1>1, <1>2
<1> QED BY <1>1, <1>4, <1>5, <1>6, <1>7, <1>8, <1>9 DEF LedgerInv

(* A load ends, or goes on to its next page.                               *)
LEMMA LoaderMoves ==
    ASSUME LedgerTypes, NEW l \in Loaders, NEW page \in Nat, NEW before \in Int
    PROVE  LET R == [kind : {"idle", "user", "all", "ended"}, page : Nat, before : Int] IN
           /\ [loader EXCEPT ![l] = Ledger!Ended] \in [Loaders -> R]
           /\ [loader EXCEPT ![l] = [loader[l] EXCEPT !.page = page]] \in [Loaders -> R]
           /\ [loader EXCEPT ![l] = [loader[l] EXCEPT !.before = before]] \in [Loaders -> R]
<1> DEFINE R == [kind : {"idle", "user", "all", "ended"}, page : Nat, before : Int]
<1>1. loader \in [Loaders -> R]
    BY DEF LedgerTypes
<1>2. Ledger!Ended \in R
    BY LedgerAssumption DEF Ledger!Ended, Ledger!Idle
<1>3. loader[l] \in R
    BY <1>1
<1>4. [loader[l] EXCEPT !.page = page] \in R
    BY <1>3
<1>5. [loader[l] EXCEPT !.before = before] \in R
    BY <1>3
<1> HIDE DEF R
<1>6. \A x \in R : [loader EXCEPT ![l] = x] \in [Loaders -> R]
    BY <1>1
<1> QED BY <1>2, <1>4, <1>5, <1>6 DEF R

LEMMA BeginUserLoadStep ==
    ASSUME LedgerInv, NEW l \in Loaders, Ledger!BeginUserLoad(l)
    PROVE  LedgerInv'
<1>1. /\ loader' = [loader EXCEPT ![l] = [Ledger!Idle EXCEPT !.kind = "user"]]
      /\ UNCHANGED <<payout, claimedAt, sweeps, total, loaded, sweepRows, writing, evicted, here>>
    BY DEF Ledger!BeginUserLoad
<1>2. /\ LedgerTypes /\ \A k \in Loaders : loader[k].kind = "user" => HasRead(k)
      /\ sweepRows \subseteq Sweeps
    BY KnownRows DEF LedgerInv
<1>3. [Ledger!Idle EXCEPT !.kind = "user"] = [kind |-> "user", page |-> 0, before |-> MaxStamps + 1]
    BY DEF Ledger!Idle
<1>4. LedgerTypes'
    BY <1>1, <1>2, <1>3, LedgerAssumption DEF LedgerTypes
<1>5. Known' = Known /\ Ledger!Made' = Ledger!Made /\ SweptOf(Known)' = SweptOf(Known)
    BY <1>1 DEF Known, Ledger!Made, SweptOf, Ledger!ToSet
<1>6. HasRead(l)'
    <2>1. loader'[l].page * PageSize = 0
        <3>1. loader'[l].page = 0
            BY <1>1, <1>2, <1>3 DEF LedgerTypes
        <3>2. PageSize \in Nat
            BY LedgerAssumption
        <3> QED BY <3>1, <3>2
    <2>2. \A s \in sweepRows : Ledger!Place(s, sweepRows)' = Ledger!Place(s, sweepRows)
        BY <1>1 DEF Ledger!Place, Ledger!Before
    <2>3. \A s \in sweepRows : Ledger!Place(s, sweepRows) \in Nat
        BY <1>2, PlaceIsCount
    <2> QED BY <1>1, <2>1, <2>2, <2>3 DEF HasRead
<1>7. \A k \in Loaders : loader'[k].kind = "user" => HasRead(k)'
    <2> SUFFICES ASSUME NEW k \in Loaders, loader'[k].kind = "user", k # l PROVE HasRead(k)'
        BY <1>6
    <2>1. loader'[k] = loader[k]
        BY <1>1, <1>2 DEF LedgerTypes
    <2> QED BY <1>1, <1>2, <1>5, <2>1, ReadStays
<1>8. Ledger!IsInjective(sweeps)'
    BY <1>1 DEF LedgerInv, Ledger!IsInjective
<1> QED BY <1>1, <1>4, <1>5, <1>7, <1>8 DEF LedgerInv

(* The list is empty, so there is nothing to forget.                       *)
LEMMA BeginInitializeStep ==
    ASSUME LedgerInv, NEW l \in Loaders, Ledger!BeginInitialize(l)
    PROVE  LedgerInv'
<1>1. /\ sweeps = <<>> /\ total' = 0 /\ ~loaded'
      /\ loader' = [loader EXCEPT ![l] = [Ledger!Idle EXCEPT !.kind = "all"]]
      /\ UNCHANGED <<payout, claimedAt, sweeps, sweepRows, writing, evicted, here>>
    BY DEF Ledger!BeginInitialize
<1>2. LedgerTypes /\ \A k \in Loaders : loader[k].kind = "user" => HasRead(k)
    BY DEF LedgerInv
<1>3. [Ledger!Idle EXCEPT !.kind = "all"] = [kind |-> "all", page |-> 0, before |-> MaxStamps + 1]
    BY DEF Ledger!Idle
<1>4. LedgerTypes'
    BY <1>1, <1>2, <1>3, LedgerAssumption DEF LedgerTypes
<1>5. Known' = Known /\ Ledger!Made' = Ledger!Made /\ SweptOf(Known)' = SweptOf(Known)
    BY <1>1 DEF Known, Ledger!Made, SweptOf, Ledger!ToSet
<1>6. Cardinality(SweptOf(Known)') =< total'
    <2>1. evicted = {}
        BY <1>1 DEF LedgerInv
    <2>2. SweptOf(Known) = {}
        BY <1>1, <2>1 DEF SweptOf, Known, Ledger!ToSet
    <2> QED BY <1>1, <1>5, <2>2, FS_EmptySet
<1>7. \A k \in Loaders : loader'[k].kind = "user" => HasRead(k)'
    <2> SUFFICES ASSUME NEW k \in Loaders, loader'[k].kind = "user" PROVE HasRead(k)'
        OBVIOUS
    <2>1. loader'[k] = loader[k]
        BY <1>1, <1>2, <1>3 DEF LedgerTypes
    <2> QED BY <1>1, <1>2, <1>5, <2>1, ReadStays
<1>8. Ledger!IsInjective(sweeps)'
    BY <1>1 DEF LedgerInv, Ledger!IsInjective
<1> QED BY <1>1, <1>4, <1>5, <1>6, <1>7, <1>8 DEF LedgerInv

(* The next page by offset: the rows at the places after those read, or    *)
(* rows read before, pushed back by new ones.                              *)
LEMMA UserPageStep ==
    ASSUME LedgerInv, NEW l \in Loaders, Ledger!UserPage(l)
    PROVE  LedgerInv'
<1> DEFINE k == loader[l].page * PageSize
           rows == Ledger!Page(sweepRows, k)
           last == Ledger!Cardinality(rows) < PageSize
<1>1. /\ loader[l].kind = "user" /\ Ledger!TakeRows(rows) /\ loaded' = (loaded \/ last)
      /\ UNCHANGED <<payout, claimedAt, sweepRows, writing, evicted, here>>
    BY DEF Ledger!UserPage
<1>2. LedgerTypes /\ HasRead(l) /\ sweepRows \subseteq Sweeps
    BY <1>1, KnownRows DEF LedgerInv
<1>3. loader[l].page \in Nat /\ PageSize \in Nat \ {0}
    BY <1>2, LedgerAssumption DEF LedgerTypes
<1>4. k \in Nat /\ (loader[l].page + 1) * PageSize = k + PageSize
    BY <1>3
<1>5. rows \subseteq sweepRows
    BY DEF Ledger!Page
<1>6. \A s \in sweepRows : Ledger!Place(s, sweepRows) < k + PageSize => s \in Known \cup rows
    <2> SUFFICES ASSUME NEW s \in sweepRows, Ledger!Place(s, sweepRows) < k + PageSize
                 PROVE  s \in Known \cup rows
        OBVIOUS
    <2>1. Ledger!Place(s, sweepRows) \in Nat
        BY <1>2, PlaceIsCount
    <2>2. CASE Ledger!Place(s, sweepRows) < k
        BY <1>2, <2>2 DEF HasRead
    <2>3. CASE ~(Ledger!Place(s, sweepRows) < k)
        <3> HIDE DEF k
        <3>1. Ledger!Place(s, sweepRows) \in k..(k + PageSize - 1)
            BY <1>3, <1>4, <2>1, <2>3
        <3> QED BY <3>1 DEF Ledger!Page, rows
    <2> QED BY <2>2, <2>3
<1>7. loader' = [loader EXCEPT ![l] = IF last THEN Ledger!Ended
                                      ELSE [loader[l] EXCEPT !.page = loader[l].page + 1]]
    BY DEF Ledger!UserPage
<1> HIDE DEF k, rows, last
<1>8. Ledger!Ended = [kind |-> "ended", page |-> 0, before |-> MaxStamps + 1]
    BY DEF Ledger!Ended, Ledger!Idle
<1>9. loader' \in [Loaders -> [kind : {"idle", "user", "all", "ended"}, page : Nat, before : Int]]
    <2>1. loader[l].page + 1 \in Nat /\ 0 \in Int
        BY <1>3
    <2>2. CASE last
        BY <1>2, <1>7, <2>1, <2>2, LoaderMoves
    <2>3. CASE ~last
        <3>1. loader' = [loader EXCEPT ![l] = [loader[l] EXCEPT !.page = loader[l].page + 1]]
            BY <1>7, <2>3
        <3> QED BY <1>2, <2>1, <3>1, LoaderMoves
    <2> QED BY <2>2, <2>3
<1>10. \A j \in Loaders : j # l => loader'[j] = loader[j]
    BY <1>2, <1>7 DEF LedgerTypes
<1>11. loader'[l].kind = "user" => HasRead(l)'
    <2> SUFFICES ASSUME loader'[l].kind = "user" PROVE HasRead(l)'
        OBVIOUS
    <2>1. loader'[l].page = loader[l].page + 1
        BY <1>2, <1>7, <1>8 DEF LedgerTypes
    <2>2. Known' = Known \cup rows
        BY <1>1, <1>5, RowsTaken
    <2>3. \A s \in sweepRows : Ledger!Place(s, sweepRows)' = Ledger!Place(s, sweepRows)
        BY <1>1 DEF Ledger!Place, Ledger!Before
    <2>4. loader'[l].page * PageSize = k + PageSize
        BY <1>4, <2>1
    <2> QED BY <1>1, <1>6, <2>2, <2>3, <2>4 DEF HasRead
<1>12. loaded' => loaded \/ sweepRows \subseteq Known \cup rows
    <2> SUFFICES ASSUME last PROVE sweepRows \subseteq Known \cup rows
        BY <1>1
    <2>1. \A s \in sweepRows : Ledger!Place(s, sweepRows) < k + PageSize
        BY <1>2, <1>4, ShortPage DEF LedgerTypes, last, rows
    <2> QED BY <1>6, <2>1
<1> QED BY <1>1, <1>5, <1>9, <1>10, <1>11, <1>12, TakingStep

(* A set of numbers that is not empty has a smallest member.               *)
LEMMA SmallestOfSome ==
    ASSUME NEW S, S \subseteq Nat, S # {}
    PROVE  Ledger!Min(S) \in S
<1>1. PICK k \in S : \A j \in S : <<j, k>> \notin OpToRel(<, Nat)
    BY NatLessThanWellFounded, WFMin
<1>2. \A j \in S : ~(j < k)
    <2>1. ASSUME NEW j \in S, j < k PROVE <<j, k>> \in OpToRel(<, Nat)
        BY <2>1, Zenon DEF OpToRel
    <2> QED BY <1>1, <2>1
<1>3. \E x \in S : \A y \in S : x =< y
    BY <1>2
<1> QED BY <1>3, Zenon DEF Ledger!Min

(* The next page by cursor.                                                *)
LEMMA InitializePageStep ==
    ASSUME LedgerInv, NEW l \in Loaders, Ledger!InitializePage(l)
    PROVE  LedgerInv'
<1> DEFINE rows == Ledger!Page({s \in sweepRows : claimedAt[s] < loader[l].before}, 0)
           stamps == {claimedAt[s] : s \in rows}
           last == Ledger!Cardinality(rows) < PageSize
<1>1. /\ loader[l].kind = "all" /\ Ledger!TakeRows(rows)
      /\ UNCHANGED <<payout, claimedAt, sweepRows, writing, evicted, here, loaded>>
    BY DEF Ledger!InitializePage
<1>2. LedgerTypes /\ sweepRows \subseteq Sweeps
    BY KnownRows DEF LedgerInv
<1>3. rows \subseteq sweepRows
    BY DEF Ledger!Page
<1>4. loader' = [loader EXCEPT ![l] = IF last THEN Ledger!Ended
                                      ELSE [loader[l] EXCEPT !.before = Ledger!Min(stamps)]]
    BY DEF Ledger!InitializePage
<1> HIDE DEF rows
<1>5. ~last => Ledger!Min(stamps) \in Int
    <2> SUFFICES ASSUME ~last PROVE Ledger!Min(stamps) \in Int
        OBVIOUS
    <2>1. rows # {}
        BY SameRowCount, FS_EmptySet, LedgerAssumption
    <2>2. stamps # {} /\ stamps \subseteq Nat
        BY <1>2, <1>3, <2>1 DEF LedgerTypes
    <2> HIDE DEF stamps
    <2>3. Ledger!Min(stamps) \in stamps
        BY <2>2, SmallestOfSome
    <2>4. Ledger!Min(stamps) \in Nat
        BY <2>2, <2>3, Zenon
    <2> QED BY <2>4
<1> HIDE DEF stamps, last
<1>6. Ledger!Ended = [kind |-> "ended", page |-> 0, before |-> MaxStamps + 1]
    BY DEF Ledger!Ended, Ledger!Idle
<1>7. loader' \in [Loaders -> [kind : {"idle", "user", "all", "ended"}, page : Nat, before : Int]]
    <2>1. 0 \in Nat /\ 0 \in Int
        OBVIOUS
    <2>2. CASE last
        BY <1>2, <1>4, <2>1, <2>2, LoaderMoves
    <2>3. CASE ~last
        <3>1. loader' = [loader EXCEPT ![l] = [loader[l] EXCEPT !.before = Ledger!Min(stamps)]]
            BY <1>4, <2>3
        <3> QED BY <1>2, <1>5, <2>1, <2>3, <3>1, LoaderMoves
    <2> QED BY <2>2, <2>3
<1>8. /\ loader'[l].kind # "user"
      /\ \A j \in Loaders : j # l => loader'[j] = loader[j]
    BY <1>1, <1>2, <1>4, <1>6 DEF LedgerTypes
<1> QED BY <1>1, <1>3, <1>7, <1>8, TakingStep

LEMMA LoadFailsStep ==
    ASSUME LedgerInv, NEW l \in Loaders, Ledger!LoadFails(l)
    PROVE  LedgerInv'
<1>1. /\ loader' = [loader EXCEPT ![l] = Ledger!Ended] /\ (loaded' => loaded)
      /\ UNCHANGED <<payout, claimedAt, sweeps, total, sweepRows, writing, evicted, here>>
    BY DEF Ledger!LoadFails
<1>2. LedgerTypes /\ \A k \in Loaders : loader[k].kind = "user" => HasRead(k)
    BY DEF LedgerInv
<1>3. Ledger!Ended = [kind |-> "ended", page |-> 0, before |-> MaxStamps + 1]
    BY DEF Ledger!Ended, Ledger!Idle
<1>4. LedgerTypes'
    BY <1>1, <1>2, <1>3, LedgerAssumption DEF LedgerTypes
<1>5. Known' = Known /\ Ledger!Made' = Ledger!Made /\ SweptOf(Known)' = SweptOf(Known)
    BY <1>1 DEF Known, Ledger!Made, SweptOf, Ledger!ToSet
<1>6. \A k \in Loaders : loader'[k].kind = "user" => HasRead(k)'
    <2> SUFFICES ASSUME NEW k \in Loaders, loader'[k].kind = "user" PROVE HasRead(k)'
        OBVIOUS
    <2>1. loader'[k] = loader[k]
        BY <1>1, <1>2, <1>3 DEF LedgerTypes
    <2> QED BY <1>1, <1>2, <1>5, <2>1, ReadStays
<1>7. Ledger!IsInjective(sweeps)'
    BY <1>1 DEF LedgerInv, Ledger!IsInjective
<1> QED BY <1>1, <1>4, <1>5, <1>6, <1>7 DEF LedgerInv

(* A new process knows nothing and counts nothing.                         *)
LEMMA LedgerRestartStep ==
    ASSUME LedgerInv, NEW l \in Loaders, Ledger!Restart(l)
    PROVE  LedgerInv'
<1>1. /\ sweepRows' \subseteq sweepRows \cup writing
      /\ writing' = {} /\ sweeps' = <<>> /\ total' = 0 /\ ~loaded' /\ evicted' = {} /\ here' = {}
      /\ loader' = [k \in Loaders |-> IF k = l THEN [Ledger!Idle EXCEPT !.kind = "all"]
                                      ELSE IF loader[k].kind = "idle" THEN Ledger!Idle ELSE Ledger!Ended]
      /\ UNCHANGED <<payout, claimedAt>>
    BY DEF Ledger!Restart
<1>2. /\ LedgerTypes /\ writing \subseteq Known
      /\ Known \subseteq Ledger!Made /\ sweepRows \subseteq Ledger!Made
    BY DEF LedgerInv
<1>3. /\ Ledger!Idle = [kind |-> "idle", page |-> 0, before |-> MaxStamps + 1]
      /\ Ledger!Ended = [kind |-> "ended", page |-> 0, before |-> MaxStamps + 1]
      /\ [Ledger!Idle EXCEPT !.kind = "all"] = [kind |-> "all", page |-> 0, before |-> MaxStamps + 1]
    BY DEF Ledger!Ended, Ledger!Idle
<1>4. \A k \in Loaders : /\ loader'[k] \in [kind : {"idle", "user", "all", "ended"}, page : Nat, before : Int]
                         /\ loader'[k].kind # "user"
    BY <1>1, <1>3, LedgerAssumption
<1>5. LedgerTypes'
    <2>1. loader' \in [Loaders -> [kind : {"idle", "user", "all", "ended"}, page : Nat, before : Int]]
        BY <1>1, <1>4
    <2>2. sweeps' \in Seq(Sweeps) /\ total' \in Nat
        BY <1>1
    <2>3. payout' = payout /\ claimedAt' = claimedAt
        BY <1>1
    <2> QED BY <1>2, <2>1, <2>2, <2>3 DEF LedgerTypes
<1>6. Known' = {} /\ Ledger!Made' = Ledger!Made
    BY <1>1 DEF Known, Ledger!ToSet, Ledger!Made
<1>7. Cardinality(SweptOf(Known)') =< total'
    <2>1. SweptOf(Known)' = {}
        BY <1>6 DEF SweptOf
    <2> QED BY <1>1, <2>1, FS_EmptySet
<1>8. Ledger!IsInjective(sweeps)'
    BY <1>1 DEF Ledger!IsInjective
<1>9. (Known \cup sweepRows)' \subseteq Ledger!Made'
    BY <1>1, <1>2, <1>6
<1> QED BY <1>1, <1>4, <1>5, <1>6, <1>7, <1>8, <1>9 DEF LedgerInv

LEMMA LedgerStep ==
    ASSUME LedgerInv, Ledger!Next
    PROVE  LedgerInv'
<1>1. RecordCap \in Nat \ {0} /\ ClaimCap \in Nat \ {0}
    BY LedgerAssumption
<1>2. ASSUME NEW s \in Sweeps, Ledger!RecordSweep(s) PROVE LedgerInv'
    BY <1>1, <1>2, BookingStep DEF Ledger!RecordSweep
<1>3. ASSUME NEW s \in Sweeps, Ledger!ClaimMarketPayout(s) PROVE LedgerInv'
    BY <1>1, <1>3, BookingStep DEF Ledger!ClaimMarketPayout
<1> QED BY <1>2, <1>3, InsertStep, BeginUserLoadStep, BeginInitializeStep, UserPageStep,
           InitializePageStep, LoadFailsStep, LedgerRestartStep DEF Ledger!Next

-----------------------------------------------------------------------------
(* The parts together.                                                     *)

OrdersInv == ReplayInv /\ LifeInv /\ ExecInv /\ LedgerInv

LEMMA OrdersInit == Init => OrdersInv
<1> SUFFICES ASSUME Init PROVE OrdersInv
    OBVIOUS
<1>1. Replay!Init /\ Exec!Init /\ Life!Init /\ Ledger!Init
    BY DEF Init
<1>2. ReplayInv
    <2>1. \A r \in Requests : request[r] = [stage |-> "idle", txHash |-> Replay!None]
        BY <1>1 DEF Replay!Init, Replay!At
    <2>2. request \in [Requests -> [stage : {"idle", "checking", "verifying", "persisting", "ended"},
                                    txHash : Replay!TxHashes \cup {Replay!None}]]
        BY <1>1 DEF Replay!Init, Replay!At
    <2>3. SlotHeld /\ BookedIsGuarded
        BY <1>1, <2>1 DEF Replay!Init, SlotHeld, Underway, BookedIsGuarded
    <2>4. OncePerSpelling /\ Replay!LockedOutOnlyIfBooked
        BY <1>1 DEF Replay!Init, OncePerSpelling, Replay!LockedOutOnlyIfBooked
    <2> QED BY <2>2, <2>3, <2>4 DEF ReplayInv
<1>3. LifeInv
    <2>1. PICK s \in Life!Booked : /\ order = [status |-> s, isSettled |-> FALSE, pnl |-> 0]
                                   /\ resting = (s # "FILLED")
        BY <1>1 DEF Life!Init
    <2>2. s \in Statuses /\ 0 \in -1..1
        BY DEF Statuses
    <2>3. order \in Records /\ order.status = s
        BY <2>1, <2>2 DEF Records
    <2>4. credits = 0 /\ result \in {-1, 1}
        BY <1>1 DEF Life!Init
    <2>5. s = "FILLED" => ~resting
        BY <2>1
    <2> QED BY <2>3, <2>4, <2>5 DEF LifeInv
<1>4. ExecInv
    <2> DEFINE x == [stage |-> "idle", pool |-> CHOOSE p \in Pools : TRUE, operator |-> TRUE]
    <2>1. x \in [stage : Exec!Stages, pool : Pools, operator : BOOLEAN] /\ x.stage = "idle"
        BY ExecAssumption DEF Exec!Stages
    <2>2. exec = [e \in Execs |-> x]
        BY <1>1 DEF Exec!Init
    <2> HIDE DEF x
    <2>3. Timely
        BY <1>1, <2>1, <2>2, ExecAssumption DEF Exec!Init, Timely, Exec!At, Exec!Never
    <2>4. \A e \in Execs : ChecksHold(e) /\ ChainFollows(e)
        BY <1>1, <2>1, <2>2 DEF Exec!Init, ChecksHold, ChainFollows, PastBreaker, Exec!At
    <2>5. Exec!BooksMatchChain
        BY <1>1, <2>1, <2>2 DEF Exec!Init, Exec!BooksMatchChain, Exec!At
    <2> QED BY <1>1, <2>3, <2>4, <2>5 DEF Exec!Init, ExecInv
<1>5. LedgerInv
    <2>1. /\ payout = [s \in Sweeps |-> "none"] /\ claimedAt = [s \in Sweeps |-> 0]
          /\ sweeps = <<>> /\ total = 0 /\ ~loaded /\ sweepRows = {} /\ writing = {}
          /\ loader = [l \in Loaders |-> Ledger!Idle] /\ evicted = {} /\ here = {}
        BY <1>1 DEF Ledger!Init
    <2>2. Ledger!Idle = [kind |-> "idle", page |-> 0, before |-> MaxStamps + 1]
        BY DEF Ledger!Idle
    <2>3. LedgerTypes
        <3>1. Ledger!Idle \in [kind : {"idle", "user", "all", "ended"}, page : Nat, before : Int]
            BY <2>2, LedgerAssumption
        <3>2. sweeps \in Seq(Sweeps) /\ total \in Nat
            BY <2>1
        <3> QED BY <2>1, <3>1, <3>2 DEF LedgerTypes
    <2>4. Known = {}
        BY <2>1 DEF Known, Ledger!ToSet
    <2>5. Cardinality(SweptOf(Known)) =< total
        <3>1. SweptOf(Known) = {}
            BY <2>4 DEF SweptOf
        <3> QED BY <2>1, <3>1, FS_EmptySet
    <2>6. \A l \in Loaders : loader[l].kind # "user"
        BY <2>1, <2>2
    <2>7. Ledger!IsInjective(sweeps)
        BY <2>1 DEF Ledger!IsInjective
    <2> QED BY <2>1, <2>3, <2>4, <2>5, <2>6, <2>7 DEF LedgerInv
<1> QED BY <1>2, <1>3, <1>4, <1>5 DEF OrdersInv

(* A step of one part, which leaves the variables of the others.           *)
LEMMA OrdersStep ==
    ASSUME OrdersInv, [Next]_vars
    PROVE  OrdersInv' /\ [HeldBack]_(Exec!execVars) /\ [StatusStays]_(Life!lifeVars)
<1>1. ASSUME UNCHANGED replayVars PROVE ReplayInv'
    BY <1>1 DEF replayVars, OrdersInv, ReplayInv, SlotHeld, Underway, BookedIsGuarded,
                OncePerSpelling, Replay!LockedOutOnlyIfBooked, Replay!InProgress
<1>2. ASSUME UNCHANGED execVars PROVE ExecInv' /\ [HeldBack]_(Exec!execVars)
    BY <1>2 DEF execVars, OrdersInv, ExecInv, Timely, ChecksHold, ChainFollows, Exec!At,
                Exec!BooksMatchChain, Exec!execVars
<1>3. ASSUME UNCHANGED lifeVars PROVE LifeInv' /\ [StatusStays]_(Life!lifeVars)
    BY <1>3 DEF lifeVars, OrdersInv, LifeInv, Life!lifeVars
<1>4. ASSUME UNCHANGED ledgerVars PROVE LedgerInv'
    <2>1. UNCHANGED <<payout, claimedAt, sweeps, total, loaded, sweepRows, writing, loader, evicted, here>>
        BY <1>4 DEF ledgerVars
    <2>2. Known' = Known /\ Ledger!Made' = Ledger!Made /\ SweptOf(Known)' = SweptOf(Known)
        BY <2>1 DEF Known, Ledger!Made, SweptOf, Ledger!ToSet
    <2>3. \A l \in Loaders : HasRead(l) => HasRead(l)'
        BY <2>1, <2>2, ReadStays
    <2>4. LedgerInv
        BY DEF OrdersInv
    <2>5. LedgerTypes' /\ Ledger!IsInjective(sweeps)'
        BY <2>1, <2>4 DEF LedgerInv, LedgerTypes, Ledger!IsInjective
    <2> QED BY <2>1, <2>2, <2>3, <2>4, <2>5 DEF LedgerInv
<1>5. CASE Replay!Next /\ UNCHANGED <<part, execVars, lifeVars, ledgerVars>>
    BY <1>2, <1>3, <1>4, <1>5, ReplayStep DEF OrdersInv
<1>6. CASE Exec!Next /\ UNCHANGED <<part, replayVars, lifeVars, ledgerVars>>
    BY <1>1, <1>3, <1>4, <1>6, ExecStep DEF OrdersInv
<1>7. CASE Life!Next /\ UNCHANGED <<part, replayVars, execVars, ledgerVars>>
    BY <1>1, <1>2, <1>4, <1>7, LifeStep DEF OrdersInv
<1>8. CASE Ledger!Next /\ UNCHANGED <<part, replayVars, execVars, lifeVars>>
    BY <1>1, <1>2, <1>3, <1>8, LedgerStep DEF OrdersInv
<1>9. CASE UNCHANGED <<part, replayVars, execVars, lifeVars, ledgerVars>>
    BY <1>1, <1>2, <1>3, <1>4, <1>9 DEF OrdersInv
<1> QED BY <1>5, <1>6, <1>7, <1>8, <1>9 DEF Next, vars

(* The inductive invariant, in every behaviour.                            *)
LEMMA OrdersInvariant == Spec => []OrdersInv
<1>1. OrdersInv /\ [Next]_vars => OrdersInv'
    BY OrdersStep
<1> QED BY <1>1, OrdersInit, PTL DEF Spec

-----------------------------------------------------------------------------
(* A wallet's transaction becomes an order at most once in each spelling   *)
(* of its hash, whatever submissions overlap and however often the process *)
(* restarts, as long as the database kept its row and answered for it; its *)
(* submissions are never on their way together (submitUserOrder).          *)
THEOREM NeverBookedTwice == Spec => []BookedOnce
<1>1. OrdersInv => BookedOnce
    BY ReplayBookedOnce DEF OrdersInv, BookedOnce
<1> QED BY <1>1, OrdersInvariant, PTL

(* A slot that no submission in progress will free belongs to a            *)
(* transaction that has a row (submitUserOrder).                         *)
THEOREM NobodyLockedOut == Spec => []LockedOutOnlyIfBooked
<1>1. OrdersInv => LockedOutOnlyIfBooked
    BY DEF OrdersInv, ReplayInv, LockedOutOnlyIfBooked
<1> QED BY <1>1, OrdersInvariant, PTL

(* The books and the chain agree on every order whose placement was        *)
(* answered, for any number of executions at a time (executeAgentDecision).*)
THEOREM BooksFollowChain == Spec => []BooksMatchChain
<1>1. OrdersInv => BooksMatchChain
    BY DEF OrdersInv, ExecInv, BooksMatchChain
<1> QED BY <1>1, OrdersInvariant, PTL

(* A pool's cool-down and the open breaker hold back every order that      *)
(* began after the failure, for any threshold and cool-downs, although     *)
(* the checks are awaits apart (executeAgentDecision, recordOnChainRevert).*)
THEOREM FailuresAlwaysHoldBack == Spec => FailuresHoldBack
<1>1. OrdersInv /\ [Next]_vars => [HeldBack]_(Exec!execVars)
    BY OrdersStep
<1>2. Spec => [][HeldBack]_(Exec!execVars)
    BY <1>1, OrdersInvariant, PTL DEF Spec
<1> QED BY <1>2 DEF FailuresHoldBack, Exec!FailuresHoldBack, HeldBack

(* A custom agent is told the result of its order at most once, however    *)
(* many settlements and reconciliations overlap (settleOrdersForMarket,    *)
(* syncResolvedOrdersPnLAsync, reconcileSettledOrdersWithOnChain).         *)
THEOREM ResultToldOnce == Spec => []AgentCreditedOnce
<1>1. OrdersInv => AgentCreditedOnce
    BY DEF OrdersInv, LifeInv, AgentCreditedOnce, Life!AgentCreditedOnce
<1> QED BY <1>1, OrdersInvariant, PTL

(* No settlement with an old choice of orders undoes a cancellation or a   *)
(* fill, and no cancellation a fill (the same and cancelOrderFor).         *)
THEOREM FinalIsFinal == Spec => FinalStatusStays
<1>1. OrdersInv /\ [Next]_vars => [StatusStays]_(Life!lifeVars)
    BY OrdersStep
<1>2. Spec => [][StatusStays]_(Life!lifeVars)
    BY <1>1, OrdersInvariant, PTL DEF Spec
<1> QED BY <1>2 DEF FinalStatusStays, Life!FinalStatusStays, StatusStays

(* The total of a loaded user misses no payout that is booked or has a     *)
(* row, so the scanner pays none again; the list misses no row and holds   *)
(* none twice.  So it is for any number of payouts and loads, any size of  *)
(* a page, whatever pages shift or fail and however often the process      *)
(* restarts (recordSweep, claimMarketPayout, ensureUserSweepsLoaded,       *)
(* initializeFromDb).                                                      *)
THEOREM PayoutsSubtracted == Spec => []PayoutBooksSound
<1>1. OrdersInv => PayoutBooksSound
    <2> SUFFICES ASSUME LedgerInv PROVE PayoutBooksSound
        BY DEF OrdersInv
    <2>1. /\ LedgerTypes /\ here \subseteq SweptOf(Known) /\ Cardinality(SweptOf(Known)) =< total
          /\ loaded => sweepRows \subseteq Known
          /\ Ledger!IsInjective(sweeps)
        BY DEF LedgerInv
    <2>2. Ledger!LoadedIsComplete /\ Ledger!HistoryHasNoDuplicates
        BY <2>1 DEF Ledger!LoadedIsComplete, Ledger!HistoryHasNoDuplicates, Known
    <2>3. Ledger!PaymentsSubtracted
        <3> DEFINE S == here \cup {s \in sweepRows : payout[s] = "swept"}
        <3> SUFFICES ASSUME loaded PROVE Ledger!Cardinality(S) =< total
            BY DEF Ledger!PaymentsSubtracted
        <3>1. S \in SUBSET SweptOf(Known)
            BY <2>1 DEF SweptOf
        <3>2. IsFiniteSet(SweptOf(Known)) /\ SweptOf(Known) \subseteq Sweeps
            BY KnownRows, PlaceIsCount
        <3> HIDE DEF S
        <3>3. IsFiniteSet(S) /\ Cardinality(S) =< Cardinality(SweptOf(Known))
            BY <3>1, <3>2, FS_Subset
        <3>4. Cardinality(S) \in Nat /\ Cardinality(SweptOf(Known)) \in Nat /\ total \in Nat
            BY <2>1, <3>2, <3>3, FS_CardinalityType DEF LedgerTypes
        <3> QED BY <2>1, <3>3, <3>4, SameRowCount
    <2> QED BY <2>2, <2>3 DEF PayoutBooksSound
<1> QED BY <1>1, OrdersInvariant, PTL
=============================================================================
