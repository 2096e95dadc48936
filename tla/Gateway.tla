-------------------------------- MODULE Gateway --------------------------------
(* The telemetry gateway (backend/src/websocket/server.ts): the seats of   *)
(* the connections, the heartbeat that ends silent ones, and the limits    *)
(* after which a connection is closed.  What is sent is left out.          *)
EXTENDS Integers, FiniteSets, Sequences

CONSTANTS
    Sockets,       \* the connections that may come
    Ips,
    IpOf,          \* [Sockets -> Ips]
    MaxClients, MaxPerIp,        \* WS_MAX_CONNECTIONS, .._PER_IP
    MaxPerWindow, Strikes,       \* WS_RATE_LIMIT_MAX_PER_IP, .._VIOLATIONS_BEFORE_CLOSE
    Window, Decay, StaleAfter,   \* WS_RATE_LIMIT_WINDOW_MS, .._VIOLATION_DECAY_MS, .._STALE_BUCKET_MS
    MaxInvalid,                  \* WS_MAX_INVALID_ATTEMPTS
    MaxTime        \* bound of the clock

VARIABLES
    now,
    up,         \* "up"; "stopping" after the gateway's close(); "gone"
    conn,       \* per socket: "none", "open", "closing" or "closed"
    silent,     \* the sockets whose peer is gone without a word
    clients,    \* the clients map: per socket an entry or NoClient
    seats,      \* ipConnectionCount
    bucket,     \* ipBuckets
    log,        \* history, per address: its windows, and whether one was over the limit
    limited     \* history: the sockets closed for their rate

gatewayVars == <<now, up, conn, silent, clients, seats, bucket, log, limited>>

NoClient == [isAlive |-> FALSE, invalid |-> -1]
NewClient == [isAlive |-> TRUE, invalid |-> 0]
NoBucket == [count |-> 0, start |-> 0, strikes |-> 0, last |-> 0, struck |-> FALSE]
NewBucket(t) == [count |-> 1, start |-> t, strikes |-> 0, last |-> 0, struck |-> FALSE]

Init ==
    /\ now = 0 /\ up = "up"
    /\ conn = [s \in Sockets |-> "none"]
    /\ silent = {} /\ limited = {}
    /\ clients = [s \in Sockets |-> NoClient]
    /\ seats = [i \in Ips |-> 0]
    /\ bucket = [i \in Ips |-> NoBucket]
    /\ log = [i \in Ips |-> <<>>]

Known == {s \in Sockets : clients[s] # NoClient}
At(i) == {s \in Sockets : IpOf[s] = i}
Floor0(n) == IF n < 0 THEN 0 ELSE n

-----------------------------------------------------------------------------
(* A mutation: a seat is given back for every clean-up.                    *)
SeatsWithoutEach(gone) ==
    [i \in Ips |-> Floor0(seats[i] - Cardinality(gone \cap At(i)))]

(* The seats after cleanupClient for each of these sockets: only one that  *)
(* is still known gives back its seat.                                     *)
SeatsWithout(gone) ==
    [i \in Ips |-> Floor0(seats[i] - Cardinality(gone \cap Known \cap At(i)))]

Cleanup(s) ==
    /\ clients' = [clients EXCEPT ![s] = NoClient]
    /\ seats' = SeatsWithout({s})

(* A connection: refused at capacity, or seated.                           *)
Connect(s) ==
    /\ up = "up" /\ conn[s] = "none"
    /\ IF Cardinality(Known) >= MaxClients \/ seats[IpOf[s]] >= MaxPerIp
         THEN /\ conn' = [conn EXCEPT ![s] = "closed"]
              /\ UNCHANGED <<clients, seats>>
         ELSE /\ conn' = [conn EXCEPT ![s] = "open"]
              /\ clients' = [clients EXCEPT ![s] = NewClient]
              /\ seats' = [seats EXCEPT ![IpOf[s]] = @ + 1]
    /\ UNCHANGED <<now, up, silent, bucket, log, limited>>

(* The socket's close event, when the peer leaves and when a close is over *)
(* (answered, or not answered within the library's 30 s).                  *)
Closed(s) ==
    /\ conn' = [conn EXCEPT ![s] = "closed"]
    /\ Cleanup(s)
    /\ UNCHANGED <<now, up, silent, bucket, log, limited>>

PeerLeaves(s) == conn[s] = "open" /\ s \notin silent /\ Closed(s)
CloseEnds(s) == conn[s] = "closing" /\ Closed(s)

(* Its error event; a close event follows.                                 *)
ErrorEvent(s) ==
    /\ conn[s] = "open"
    /\ conn' = [conn EXCEPT ![s] = "closing"]
    /\ Cleanup(s)
    /\ UNCHANGED <<now, up, silent, bucket, log, limited>>

Pong(s) ==
    /\ conn[s] = "open" /\ s \in Known \ silent
    /\ clients' = [clients EXCEPT ![s].isAlive = TRUE]
    /\ UNCHANGED <<now, up, conn, silent, seats, bucket, log, limited>>

GoesSilent(s) ==
    /\ conn[s] = "open" /\ s \notin silent
    /\ silent' = silent \cup {s}
    /\ UNCHANGED <<now, up, conn, clients, seats, bucket, log, limited>>

(* A mutation: the heartbeat does not ask for a new sign of life.          *)
AskedNoMore(client) == client

(* A client that is asked for a sign of life.                              *)
Asked(client) == [client EXCEPT !.isAlive = FALSE]

(* The heartbeat, every 30 s: who did not answer the last one is ended,    *)
(* and so is what is no longer open; the others are asked.                 *)
Heartbeat ==
    /\ up = "up" /\ Known # {}
    /\ LET dead == {s \in Known : conn[s] = "open" /\ ~clients[s].isAlive}
           gone == dead \cup {s \in Known : conn[s] # "open"}
       IN  /\ clients' = [s \in Sockets |-> IF s \in Known \ gone THEN Asked(clients[s]) ELSE NoClient]
           /\ seats' = SeatsWithout(gone)
           /\ conn' = [s \in Sockets |-> IF s \in dead THEN "closing" ELSE conn[s]]
    /\ UNCHANGED <<now, up, silent, bucket, log, limited>>

-----------------------------------------------------------------------------
Decayed(b) == IF b.strikes > 0 /\ now - b.last > Decay THEN 0 ELSE b.strikes
InWindow(b) == b.count > 0 /\ now - b.start <= Window
Over(b) == InWindow(b) /\ b.count >= MaxPerWindow

(* One violation more; what is beyond the limit makes no difference.       *)
OneMore(b) == IF Decayed(b) = Strikes THEN Strikes ELSE Decayed(b) + 1

(* A mutation: every message over the limit counts as a violation.         *)
StruckEachTime(b) == [b EXCEPT !.strikes = OneMore(b), !.last = now]

(* A message over the limit: one violation per window.                     *)
Struck(b) ==
    IF b.struck THEN b ELSE [b EXCEPT !.strikes = OneMore(b), !.last = now, !.struck = TRUE]

(* A message within the limit, in a new bucket, a new window or this one.  *)
Counted(b) ==
    IF b.count = 0 THEN NewBucket(now)
    ELSE IF InWindow(b) THEN [b EXCEPT !.count = @ + 1]
    ELSE [NewBucket(now) EXCEPT !.strikes = Decayed(b), !.last = b.last]

Speaks(s) == conn[s] \in {"open", "closing"} /\ s \notin silent

MessageWithin(s) ==
    /\ Speaks(s) /\ ~Over(bucket[IpOf[s]])
    /\ LET i == IpOf[s]
       IN  /\ bucket' = [bucket EXCEPT ![i] = Counted(@)]
           /\ log' = IF InWindow(bucket[i]) THEN log
                     ELSE [log EXCEPT ![i] = Append(@, [at |-> now, over |-> FALSE])]

(* A message that is let through, or stopped by the socket's own limit.    *)
MessagePasses(s) ==
    /\ MessageWithin(s)
    /\ UNCHANGED <<now, up, conn, silent, clients, seats, limited>>

(* handleInvalidMessage: too many of them end the connection.              *)
MessageInvalid(s) ==
    /\ MessageWithin(s)
    /\ IF s \notin Known
         THEN /\ conn' = [conn EXCEPT ![s] = "closing"]
              /\ UNCHANGED <<clients, seats>>
         ELSE IF clients[s].invalid + 1 >= MaxInvalid
                THEN conn' = [conn EXCEPT ![s] = "closing"] /\ Cleanup(s)
                ELSE /\ clients' = [clients EXCEPT ![s].invalid = @ + 1]
                     /\ UNCHANGED <<conn, seats>>
    /\ UNCHANGED <<now, up, silent, limited>>

MessageLimited(s) ==
    /\ Speaks(s) /\ Over(bucket[IpOf[s]])
    /\ LET i == IpOf[s]
           b == Struck(bucket[i])
       IN  /\ bucket' = [bucket EXCEPT ![i] = b]
           /\ log' = [log EXCEPT ![i][Len(log[i])].over = TRUE]
           /\ IF b.strikes >= Strikes
                THEN /\ conn' = [conn EXCEPT ![s] = "closing"]
                     /\ limited' = limited \cup {s}
                ELSE UNCHANGED <<conn, limited>>
    /\ UNCHANGED <<now, up, silent, clients, seats>>

(* The clean-up interval drops a bucket that has long been idle.           *)
DropBucket(i) ==
    /\ up = "up" /\ bucket[i].count > 0
    /\ now - bucket[i].start > StaleAfter /\ now - bucket[i].last > StaleAfter
    /\ bucket' = [bucket EXCEPT ![i] = NoBucket]
    /\ UNCHANGED <<now, up, conn, silent, clients, seats, log, limited>>

(* close(): the maps are cleared; the sockets end in their own time.       *)
ShutDown ==
    /\ up = "up"
    /\ up' = "stopping"
    /\ clients' = [s \in Sockets |-> NoClient]
    /\ seats' = [i \in Ips |-> 0]
    /\ bucket' = [i \in Ips |-> NoBucket]
    /\ UNCHANGED <<now, conn, silent, log, limited>>

(* The hook after it waits for the server to close, which waits for every  *)
(* connection; then the process ends.                                      *)
Exit ==
    /\ up = "stopping"
    /\ \A s \in Sockets : conn[s] \in {"none", "closed"}
    /\ up' = "gone"
    /\ UNCHANGED <<now, conn, silent, clients, seats, bucket, log, limited>>

Tick ==
    /\ now < MaxTime
    /\ now' = now + 1
    /\ UNCHANGED <<up, conn, silent, clients, seats, bucket, log, limited>>

Next ==
    \/ Tick \/ Heartbeat \/ ShutDown \/ Exit
    \/ \E s \in Sockets :
         \/ Connect(s) \/ PeerLeaves(s) \/ CloseEnds(s) \/ ErrorEvent(s)
         \/ Pong(s) \/ GoesSilent(s) \/ MessagePasses(s) \/ MessageInvalid(s) \/ MessageLimited(s)
    \/ \E i \in Ips : DropBucket(i)

(* The heartbeat is an interval of the process, a close ends by a timer of *)
(* the library, and a shutdown goes on when it can.                        *)
SomeCloseEnds == \E s \in Sockets : CloseEnds(s)

Fairness ==
    WF_gatewayVars(Heartbeat) /\ WF_gatewayVars(SomeCloseEnds) /\ WF_gatewayVars(Exit)

Spec == Init /\ [][Next]_gatewayVars /\ Fairness

-----------------------------------------------------------------------------
TypeOK ==
    /\ now \in 0..MaxTime
    /\ up \in {"up", "stopping", "gone"}
    /\ conn \in [Sockets -> {"none", "open", "closing", "closed"}]
    /\ {silent, limited} \subseteq SUBSET Sockets
    /\ clients \in [Sockets -> [isAlive : BOOLEAN, invalid : -1..(MaxInvalid - 1)]]
    /\ seats \in [Ips -> 0..Cardinality(Sockets)]
    /\ bucket \in [Ips -> [count : 0..MaxPerWindow, start : 0..MaxTime,
                           strikes : 0..Strikes, last : 0..MaxTime, struck : BOOLEAN]]
    /\ \A i \in Ips : log[i] \in Seq([at : 0..MaxTime, over : BOOLEAN])

(* The seats of an address are its known clients, and the caps hold,       *)
(* although a socket may be cleaned up by its error event, by its close    *)
(* event, by the heartbeat and by the limits (cleanupClient).              *)
SeatsCounted ==
    /\ \A i \in Ips : seats[i] = Cardinality(Known \cap At(i)) /\ seats[i] <= MaxPerIp
    /\ Cardinality(Known) <= MaxClients

(* The windows of an address that were over the limit, none of them more   *)
(* than the decay time away from the next.                                 *)
Abusive(i, W) ==
    /\ \A k \in W : log[i][k].over
    /\ \A k \in W : (\E j \in W : j > k) =>
         \E j \in W : j > k /\ log[i][j].at - log[i][k].at <= Decay + Window

(* A connection is closed for its rate only after that many different      *)
(* windows of its address were over the limit, close to each other; one    *)
(* burst never closes it (checkRateLimit).                                 *)
OnlySustainedAbuse ==
    \A s \in limited : \E W \in SUBSET (1..Len(log[IpOf[s]])) :
        Cardinality(W) = Strikes /\ Abusive(IpOf[s], W)

(* The comments of the constant and of checkRateLimit speak of consecutive *)
(* violating windows.                                                      *)
OnlyConsecutiveWindows ==
    \A s \in limited : \E k \in 0..(Len(log[IpOf[s]]) - Strikes) :
        \A j \in (k + 1)..(k + Strikes) : log[IpOf[s]][j].over

(* A peer that is gone without a word loses its seat.                      *)
SilentPeersLeave == \A s \in Sockets : (s \in silent) ~> (s \notin Known)

(* The shutdown sequence completes and the process exits (process-safety). *)
ShutdownEnds == (up = "stopping") ~> (up = "gone")
=============================================================================
