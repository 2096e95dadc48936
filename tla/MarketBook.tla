------------------------------ MODULE MarketBook ------------------------------
(* One binary market in the market service                                 *)
(* (backend/src/services/market-service.ts): the active book, the archive  *)
(* of past markets, the poll of the indexer, which spans two awaits, and   *)
(* the timer that closes and finalises markets by the local clock.         *)
EXTENDS Integers

CONSTANTS
    Polls,     \* the calls of pollOnChainMarkets that may be under way
    Close,     \* the instant the market closes
    Resolve,   \* the end of its resolution window, a minute later
    MaxTime    \* bound of the clock

None == "none"
NotListed == [status |-> None, winner |-> None, price |-> None]
NoEntry == [status |-> None, price |-> None, winner |-> None]
Prices == {"below", "above"}  \* the spot price relative to the strike
Outcomes == {"YES", "NO"}

VARIABLES
    now,        \* Date.now(), in ticks of half a second
    spot,       \* the ticker's price
    chain,      \* the market on chain: status, winner and settlement price
    indexed,    \* what the indexer knows of it
    active,     \* its entry in markets, or NoEntry
    archive,    \* its entry in historicalMarkets, or NoEntry
    isPolling,
    poll,       \* per poll: where it is, what it read, the time it noted
    heard       \* history: the chain's winner a poll has brought home

bookVars == <<now, spot, chain, indexed, active, archive, isPolling, poll, heard>>

(* Statuses on chain, in their order.                                      *)
Rank(s) == CASE s = "Trading" -> 0 [] s = "Locked" -> 1 [] s = "Settling" -> 2 [] OTHER -> 3

Listings == [status : {"Trading", "Locked"}, winner : {None}, price : {None}]
            \cup [status : {"Settling"}, winner : {None}, price : Prices \cup {None}]
            \cup [status : {"Final"}, winner : Outcomes, price : Prices \cup {None}]
Entries == [status : {"Open", "Resolving", "Closed", "Finalized"},
            price : Prices \cup {None}, winner : Outcomes \cup {None}]
Idle == [stage |-> "idle", seen |-> NotListed, at |-> 0]

Init ==
    /\ now = 0
    /\ spot \in Prices
    /\ chain = [status |-> "Trading", winner |-> None, price |-> None]
    /\ indexed = chain
    /\ active = NoEntry /\ archive = NoEntry
    /\ isPolling = FALSE
    /\ poll = [p \in Polls |-> Idle]
    /\ heard = None

-----------------------------------------------------------------------------
(* The environment: time, the price, the chain and its indexer.            *)

Tick ==
    /\ now < MaxTime
    /\ now' = now + 1
    /\ UNCHANGED <<spot, chain, indexed, active, archive, isPolling, poll, heard>>

SpotMoves ==
    /\ spot' \in Prices \ {spot}
    /\ UNCHANGED <<now, chain, indexed, active, archive, isPolling, poll, heard>>

(* The chain settles, at a price that it may publish and then keeps.       *)
ChainMoves ==
    /\ chain' \in Listings
    /\ chain.price # None => chain'.price = chain.price
    /\ Rank(chain'.status) > Rank(chain.status)
    /\ chain'.status \in {"Settling", "Final"} => now >= Close
    /\ UNCHANGED <<now, spot, indexed, active, archive, isPolling, poll, heard>>

Index ==
    /\ indexed # chain
    /\ indexed' = chain
    /\ UNCHANGED <<now, spot, chain, active, archive, isPolling, poll, heard>>

-----------------------------------------------------------------------------
(* timeLeftSeconds <= 0: whole seconds, rounded down, so that the last     *)
(* half second before the close counts as closed.                          *)
TimeIsUp(t) == t >= Close - 1

WinnerAt(price) == IF price = "above" THEN "YES" ELSE "NO"

Recorded(entry) == IF entry.price = None THEN spot ELSE entry.price

(* A mutation: several polls at once.                                      *)
BeginPollUnguarded(p) ==
    /\ poll[p].stage = "idle"
    /\ isPolling' = TRUE
    /\ poll' = [poll EXCEPT ![p].stage = "listing"]
    /\ UNCHANGED <<now, spot, chain, indexed, active, archive, heard>>

(* A poll begins, unless one is under way.                                 *)
BeginPoll(p) ==
    /\ ~isPolling
    /\ poll[p].stage = "idle"
    /\ isPolling' = TRUE
    /\ poll' = [poll EXCEPT ![p].stage = "listing"]
    /\ UNCHANGED <<now, spot, chain, indexed, active, archive, heard>>

(* The listings arrive, with this market or without it, or time out (an    *)
(* empty listing).  The clock is read here, before the order books.        *)
ListingsArrive(p) ==
    /\ poll[p].stage = "listing"
    /\ \E seen \in {indexed, NotListed} :
         poll' = [poll EXCEPT ![p] = [stage |-> "books", seen |-> seen, at |-> now]]
    /\ UNCHANGED <<now, spot, chain, indexed, active, archive, isPolling, heard>>

(* What the poll makes of a listed market.                                 *)
StatusSeen(seen, at) ==
    IF seen.status = "Final" THEN "Finalized"
    ELSE IF seen.status = "Settling" \/ TimeIsUp(at) THEN "Resolving"
    ELSE IF seen.status = "Locked" THEN "Closed" ELSE "Open"

(* A mutation: the price recorded at the close is not carried over.        *)
PriceSeenAnew(seen, at) ==
    IF StatusSeen(seen, at) \in {"Finalized", "Resolving"} THEN spot ELSE None

(* The settlement price of the listing comes before the recorded one.      *)
PriceSeen(seen, at) ==
    IF StatusSeen(seen, at) \notin {"Finalized", "Resolving"} THEN None
    ELSE IF seen.price # None THEN seen.price ELSE Recorded(active)

EndPoll(p) ==
    /\ poll[p].stage = "books"
    /\ isPolling' = FALSE
    /\ poll' = [poll EXCEPT ![p] = Idle]
    /\ UNCHANGED <<now, spot, chain, indexed>>

(* The market was listed: its entry is built anew and goes into the active *)
(* book or the archive, whatever has become of it since the listing.       *)
UpsertListed(p) ==
    /\ EndPoll(p)
    /\ poll[p].seen # NotListed
    /\ LET seen == poll[p].seen
           entry == [status |-> StatusSeen(seen, poll[p].at),
                     price |-> PriceSeen(seen, poll[p].at), winner |-> seen.winner]
       IN  /\ IF entry.status \in {"Open", "Resolving"}
                THEN active' = entry /\ archive' = archive
                ELSE active' = NoEntry /\ archive' = entry
           /\ heard' = IF seen.winner # None THEN seen.winner ELSE heard

(* The market was not listed, but others were.  Before its close it is     *)
(* open; in the resolution window it resolves; then it is archived.        *)
KeepUnlisted(p) ==
    /\ EndPoll(p)
    /\ poll[p].seen = NotListed
    /\ active # NoEntry
    /\ \/ /\ now < Close
          /\ active' = IF active.status = "Resolving"
                         THEN [active EXCEPT !.status = "Open", !.price = None] ELSE active
          /\ archive' = archive
       \/ /\ now \in Close..(Resolve - 1)
          /\ active' = [active EXCEPT !.status = "Resolving", !.price = Recorded(active)]
          /\ archive' = archive
       \/ /\ now >= Resolve
          /\ archive' = [active EXCEPT !.status = "Finalized"]
          /\ active' = NoEntry
    /\ heard' = heard

(* Nothing was listed, or the poll failed, or there is nothing to keep.    *)
PollInVain(p) ==
    /\ EndPoll(p)
    /\ UNCHANGED <<active, archive, heard>>

(* refreshMarketTimersAndFairValues, four times a second.                  *)
Refresh ==
    /\ active # NoEntry
    /\ \/ /\ active.status = "Open" /\ TimeIsUp(now)
          /\ active' = [active EXCEPT !.status = "Resolving", !.price = Recorded(active)]
          /\ archive' = archive
       \/ /\ active.status = "Resolving" /\ ~TimeIsUp(now)
          /\ active' = [active EXCEPT !.status = "Open", !.price = None]
          /\ archive' = archive
       \/ /\ active.status = "Resolving" /\ now >= Resolve
          /\ archive' = [active EXCEPT !.status = "Finalized", !.winner =
                            IF active.winner = None THEN WinnerAt(active.price) ELSE active.winner]
          /\ active' = NoEntry
    /\ UNCHANGED <<now, spot, chain, indexed, isPolling, poll, heard>>

Next ==
    \/ Tick \/ SpotMoves \/ ChainMoves \/ Index \/ Refresh
    \/ \E p \in Polls : \/ BeginPoll(p) \/ ListingsArrive(p)
                        \/ UpsertListed(p) \/ KeepUnlisted(p) \/ PollInVain(p)

Spec == Init /\ [][Next]_bookVars

-----------------------------------------------------------------------------
TypeOK ==
    /\ now \in 0..MaxTime
    /\ spot \in Prices
    /\ {chain, indexed} \subseteq Listings
    /\ active \in {e \in Entries : e.status \in {"Open", "Resolving"}} \cup {NoEntry}
    /\ archive \in {e \in Entries : e.status \in {"Closed", "Finalized"}} \cup {NoEntry}
    /\ isPolling \in BOOLEAN
    /\ poll \in [Polls -> [stage : {"idle", "listing", "books"},
                           seen : Listings \cup {NotListed}, at : 0..MaxTime]]
    /\ heard \in Outcomes \cup {None}

(* Once a poll has brought the chain's result home, the market stays in    *)
(* the archive with it: no earlier listing and no timer brings it back     *)
(* into the active book or replaces the winner (pollOnChainMarkets and     *)
(* refreshMarketTimersAndFairValues).                                      *)
ChainHasLastWord ==
    heard # None => active = NoEntry /\ archive.status = "Finalized" /\ archive.winner = heard

(* The step ends a poll that noted the time before the close.              *)
OldPollEnds ==
    \E p \in Polls : poll[p].stage = "books" /\ ~TimeIsUp(poll[p].at) /\ poll'[p] = Idle

(* From the close on, a market that resolves keeps the price it recorded,  *)
(* until it takes the settlement price the chain has published, and does   *)
(* not open again while it is in the book, unless a poll ends that read    *)
(* the clock before the close.                                             *)
SettlingStays ==
    [][active # NoEntry /\ active' # NoEntry /\ active.status = "Resolving" /\ now >= Close /\ ~OldPollEnds
       => active'.status = "Resolving" /\ active'.price \in {active.price, chain.price} \ {None}]_bookVars

(* The same without the exception: a market that resolves after its close  *)
(* does not open again.                                                    *)
NoReopening ==
    [][active # NoEntry /\ active' # NoEntry /\ active.status = "Resolving" /\ now >= Close
       => active'.status = "Resolving"]_bookVars

(* persistFinalizedMarket calls the recorded price authoritative: the      *)
(* winner of a finalised market changes at most for the chain's.           *)
WinnerStays ==
    [][archive # NoEntry /\ archive' # NoEntry /\ archive.winner # None /\ archive'.winner # heard'
       => archive'.winner = archive.winner]_bookVars
=============================================================================
