------------------------------- MODULE PriceFeed -------------------------------
(* The spot price feed (backend/src/services/price-feed-service.ts): the   *)
(* stream from the exchange, the watchdog that ends a quiet one, the       *)
(* reconnect timer and the polling that stands in for the stream.          *)
EXTENDS Integers

VARIABLES
    running,    \* "off", "seeding" (the first snapshot is awaited) or "on"
    sock,       \* ws: "none", "connecting", "open", or "closing" (its close event is due)
    lost,       \* the open stream's peer is gone: no message will come
    polling,    \* restFallbackInterval is set
    waiting,    \* reconnectTimeout is not null
    armed,      \* the timer it stands for is running
    exchangeUp, \* the environment: the exchange answers
    fresh       \* history: a price has come since the last look

feedVars == <<running, sock, lost, polling, waiting, armed, exchangeUp, fresh>>

Init ==
    /\ running = "off"
    /\ sock = "none" /\ lost = FALSE
    /\ polling = FALSE /\ waiting = FALSE /\ armed = FALSE
    /\ exchangeUp \in BOOLEAN
    /\ fresh = FALSE

-----------------------------------------------------------------------------
(* initialize: a snapshot, awaited; whatever comes of it, the stream and   *)
(* the watchdog are started.                                               *)
Initialize ==
    /\ running = "off"
    /\ running' = "seeding"
    /\ UNCHANGED <<sock, lost, polling, waiting, armed, exchangeUp, fresh>>

Connecting == sock' = "connecting" /\ lost' = FALSE

Seeded ==
    /\ running = "seeding"
    /\ running' = "on"
    /\ fresh' = (fresh \/ exchangeUp)
    /\ Connecting
    /\ UNCHANGED <<polling, waiting, armed, exchangeUp>>

(* The open event ends the polling.                                        *)
Opens ==
    /\ sock = "connecting" /\ exchangeUp
    /\ sock' = "open"
    /\ polling' = FALSE
    /\ UNCHANGED <<running, lost, waiting, armed, exchangeUp, fresh>>

Message ==
    /\ sock = "open" /\ ~lost /\ exchangeUp
    /\ fresh' = TRUE
    /\ UNCHANGED <<running, sock, lost, polling, waiting, armed, exchangeUp>>

(* A refused connection, a failing one or the exchange's own close: the    *)
(* error event closes the socket, and its close event is due.              *)
Fails ==
    /\ \/ sock = "connecting" /\ ~exchangeUp
       \/ sock = "open" /\ ~lost
    /\ sock' = "closing"
    /\ UNCHANGED <<running, lost, polling, waiting, armed, exchangeUp, fresh>>

(* The watchdog finds an open stream quiet for 15 s and terminates it.     *)
Watchdog ==
    /\ running = "on"
    /\ sock = "open" /\ (lost \/ ~exchangeUp)
    /\ sock' = "closing"
    /\ UNCHANGED <<running, lost, polling, waiting, armed, exchangeUp, fresh>>

(* The close event: the polling stands in, and a reconnect is scheduled    *)
(* unless one is.                                                          *)
Closes ==
    /\ sock = "closing"
    /\ sock' = "none" /\ lost' = FALSE
    /\ polling' = TRUE
    /\ waiting' = TRUE
    /\ armed' = (armed \/ ~waiting)
    /\ UNCHANGED <<running, exchangeUp, fresh>>

(* A mutation: the timer that has fired still counts as set.               *)
StillWaiting == TRUE

WaitingAfterwards == FALSE

Reconnect ==
    /\ armed
    /\ armed' = FALSE
    /\ waiting' = WaitingAfterwards
    /\ Connecting
    /\ UNCHANGED <<running, polling, exchangeUp, fresh>>

Poll ==
    /\ polling /\ exchangeUp
    /\ fresh' = TRUE
    /\ UNCHANGED <<running, sock, lost, polling, waiting, armed, exchangeUp>>

-----------------------------------------------------------------------------
(* The exchange goes and comes; an open stream may be lost unnoticed.      *)
ExchangeGoes ==
    /\ exchangeUp
    /\ exchangeUp' = FALSE
    /\ lost' \in {lost, sock = "open"}
    /\ UNCHANGED <<running, sock, polling, waiting, armed, fresh>>

ExchangeComes ==
    /\ ~exchangeUp
    /\ exchangeUp' = TRUE
    /\ UNCHANGED <<running, sock, lost, polling, waiting, armed, fresh>>

Look ==
    /\ fresh
    /\ fresh' = FALSE
    /\ UNCHANGED <<running, sock, lost, polling, waiting, armed, exchangeUp>>

Next ==
    \/ Initialize \/ Seeded \/ Opens \/ Message \/ Fails \/ Watchdog \/ Closes
    \/ Reconnect \/ Poll \/ ExchangeGoes \/ ExchangeComes \/ Look

(* The intervals and the timer fire, the polling (3 s) also in a wait for  *)
(* the reconnect (4 s); a snapshot is aborted after 4 s; a socket that     *)
(* closes reports it; an exchange that answers sends prices.               *)
Timers ==
    /\ WF_feedVars(Seeded) /\ WF_feedVars(Watchdog) /\ WF_feedVars(Reconnect)
    /\ WF_feedVars(Closes) /\ SF_feedVars(Poll) /\ WF_feedVars(Message)

(* ... and completes a handshake.                                          *)
Fairness == Timers /\ WF_feedVars(Opens)

Spec == Init /\ [][Next]_feedVars /\ Fairness

(* The same with a handshake that may hang: no time-out bounds it.         *)
HangingSpec == Init /\ [][Next]_feedVars /\ Timers

-----------------------------------------------------------------------------
TypeOK ==
    /\ running \in {"off", "seeding", "on"}
    /\ sock \in {"none", "connecting", "open", "closing"}
    /\ {lost, polling, waiting, armed, exchangeUp, fresh} \subseteq BOOLEAN
    /\ lost => sock \in {"open", "closing"}
    /\ armed => sock = "none"

(* Once the exchange is there for good, the feed streams again and again:  *)
(* a lost connection is noticed and replaced, however often the exchange   *)
(* went away before (connectWebSocket, scheduleReconnect, the watchdog).   *)
FeedRecovers ==
    (<>[](exchangeUp /\ running = "on")) => []<>(sock = "open" /\ ~lost)

(* The service watches the stream and has a polling to fall back to:       *)
(* prices keep coming while the exchange answers.                          *)
PricesFlow == (<>[](exchangeUp /\ running = "on")) => []<>fresh
=============================================================================
