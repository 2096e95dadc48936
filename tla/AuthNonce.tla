------------------------------ MODULE AuthNonce ------------------------------
(***************************************************************************)
(* The replay guard of signed log-in messages (services/auth-service.ts):  *)
(* verifyAuthSignature looks the nonce up before it verifies the signature *)
(* and remembers it afterwards, in a bounded cache that is kept in memory. *)
(*                                                                         *)
(* A message is identified by its nonce, which the wallet draws afresh for *)
(* every message it signs.  Time is in ticks of the issue window.          *)
(***************************************************************************)
EXTENDS Integers, FiniteSets

CONSTANTS
    Messages,    \* signed messages
    Requests,    \* log-in requests (bounded), each presents one message once
    CacheMax,    \* NONCE_MAX_SIZE, 5000
    CacheCut,    \* how many entries an eviction aims to free, 1000
    Skew,        \* largest distance of issuedAt from now, 300 s
    MaxTime,     \* bound on the clock
    MaxRestarts  \* bound on process restarts

VARIABLES
    now,
    expiresAt,  \* of each message; all are issued at tick 0
    nonceCache, \* the remembered nonces, with the number of their insertion
    insertions, \* how many there were; a Map goes through its keys in that order
    request,    \* idle, verifying a message, or ended
    fresh,      \* history: per request, the nonce had not been accepted when it was checked
    spent,      \* history: nonces accepted by this process and not crowded out since
    replayed,   \* history: a nonce was accepted that had been spent when it was checked
    restarts

authVars == <<now, expiresAt, nonceCache, insertions, request, fresh, spent, replayed, restarts>>

None == "none"
Ended == [state |-> "ended", message |-> None]

TypeOK ==
    /\ now \in 0..MaxTime
    /\ expiresAt \in [Messages -> 1..MaxTime + 1]
    /\ insertions \in 0..Cardinality(Requests)
    /\ \E S \in SUBSET Messages : nonceCache \in [S -> 1..insertions]
    /\ request \in [Requests -> [state : {"idle", "verifying", "ended"}, message : Messages \cup {None}]]
    /\ fresh \in [Requests -> BOOLEAN]
    /\ spent \subseteq Messages
    /\ replayed \in BOOLEAN
    /\ restarts \in 0..MaxRestarts

-----------------------------------------------------------------------------
Expired(m) == expiresAt[m] =< now

Remembered == DOMAIN nonceCache

(* The n keys of S that were inserted first.                               *)
Oldest(S, n) ==
    {m \in S : Cardinality({k \in S : nonceCache[k] < nonceCache[m]}) < n}

(* Deletes expired nonces, oldest first, until CacheCut places are free.   *)
EvictExpired ==
    LET left(k) == {m \in Remembered : Expired(m) => nonceCache[m] > k}
        enough == {k \in 0..insertions : Cardinality(left(k)) =< CacheMax - CacheCut}
    IN  left(IF enough = {} THEN insertions
             ELSE CHOOSE k \in enough : \A j \in enough : k =< j)

(* A mutation: the oldest nonces go, expired or not.                       *)
EvictOldest ==
    IF Cardinality(Remembered) > CacheMax THEN Remembered \ Oldest(Remembered, CacheCut)
    ELSE Remembered

(* What rememberNonce leaves before it adds a nonce: a full cache drops    *)
(* expired nonces, and its oldest ones if that is not enough.              *)
Evict ==
    IF Cardinality(Remembered) =< CacheMax THEN Remembered
    ELSE IF Cardinality(EvictExpired) =< CacheMax THEN EvictExpired
    ELSE EvictExpired \ Oldest(EvictExpired, CacheCut)

Init ==
    /\ now = 0
    /\ expiresAt \in [Messages -> 1..MaxTime + 1]
    /\ nonceCache = [m \in {} |-> 0]
    /\ insertions = 0
    /\ request = [r \in Requests |-> [state |-> "idle", message |-> None]]
    /\ fresh = [r \in Requests |-> TRUE]
    /\ spent = {}
    /\ replayed = FALSE
    /\ restarts = 0

(* verifyAuthSignature up to its await: a message outside its window is    *)
(* refused, and so is a nonce in the cache; isNonceReplay drops the nonce  *)
(* of an expired message on the way (which the window check precludes).    *)
CheckNonce(r, m) ==
    /\ request[r].state = "idle"
    /\ IF now > Skew \/ Expired(m) \/ m \in Remembered
       THEN /\ request' = [request EXCEPT ![r] = Ended]
            /\ UNCHANGED fresh
       ELSE /\ request' = [request EXCEPT ![r] = [state |-> "verifying", message |-> m]]
            /\ fresh' = [fresh EXCEPT ![r] = m \notin spent]
    /\ UNCHANGED <<now, expiresAt, nonceCache, insertions, spent, replayed, restarts>>

(* The signature is valid: the nonce is remembered, unless its message has *)
(* expired meanwhile, and the caller is let in.  Map.set leaves a nonce    *)
(* that is there already in its place.                                     *)
Accept(r) ==
    LET m == request[r].message
        kept == Evict
    IN
    /\ request[r].state = "verifying"
    /\ request' = [request EXCEPT ![r] = Ended]
    /\ replayed' = (replayed \/ ~fresh[r])
    /\ IF Expired(m)
       THEN /\ spent' = spent \cup {m}
            /\ UNCHANGED <<nonceCache, insertions>>
       ELSE /\ insertions' = insertions + 1
            /\ nonceCache' = [k \in kept \cup {m} |-> IF k \in kept THEN nonceCache[k]
                                                       ELSE insertions']
            /\ spent' = (spent \ (Remembered \ kept)) \cup {m}
    /\ UNCHANGED <<now, expiresAt, fresh, restarts>>

(* The signature is wrong, or verifying it fails.                          *)
Reject(r) ==
    /\ request[r].state = "verifying"
    /\ request' = [request EXCEPT ![r] = Ended]
    /\ UNCHANGED <<now, expiresAt, nonceCache, insertions, fresh, spent, replayed, restarts>>

Tick ==
    /\ now < MaxTime
    /\ now' = now + 1
    /\ UNCHANGED <<expiresAt, nonceCache, insertions, request, fresh, spent, replayed, restarts>>

(* The process restarts: the cache is gone, and so are the requests.       *)
Restart ==
    /\ restarts < MaxRestarts
    /\ restarts' = restarts + 1
    /\ nonceCache' = [m \in {} |-> 0]
    /\ insertions' = 0
    /\ request' = [r \in Requests |-> IF request[r].state = "verifying" THEN Ended ELSE request[r]]
    /\ spent' = {}
    /\ UNCHANGED <<now, expiresAt, fresh, replayed>>

Next ==
    \/ \E r \in Requests : \/ \E m \in Messages : CheckNonce(r, m)
                           \/ Accept(r) \/ Reject(r)
    \/ Tick
    \/ Restart

Spec == Init /\ [][Next]_authVars
-----------------------------------------------------------------------------
(* Properties                                                              *)

(* A message that was accepted is not accepted again by a request that     *)
(* begins afterwards, as long as the process lives and its nonce was not   *)
(* crowded out of the cache: neither the lapse of time, nor requests that  *)
(* overlap, nor evictions of other nonces let it in.                       *)
NoLaterReplay == ~replayed

(* Only a full cache forgets: a nonce that could still be presented is     *)
(* dropped only when more than CacheMax nonces could be, and the cache     *)
(* never holds more than CacheMax + 1.                                     *)
OnlyAFullCacheForgets ==
    [][ \/ restarts' # restarts
        \/ /\ Cardinality(Remembered') =< CacheMax + 1
           /\ \A m \in Remembered \ Remembered' :
                  Expired(m) \/ Cardinality({k \in Remembered : ~Expired(k)}) > CacheMax
      ]_authVars
=============================================================================
