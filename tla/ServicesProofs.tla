----------------------------- MODULE ServicesProofs -----------------------------
(* For all values of the constants: the market book keeps the chain's last *)
(* word, the gateway counts its seats, and the updates of a user are all   *)
(* kept.  One of the services runs in a behaviour of Services; each of the *)
(* three parts has its own invariant and its own step lemma.               *)
EXTENDS Services, Sequences, FiniteSetTheorems, TLAPS

-----------------------------------------------------------------------------
(* The market book.  That no poll brings an old listing after the final    *)
(* one needs that there is one poll at a time and that a listing with a    *)
(* result is the chain's last.                                             *)

(* One poll at a time.                                                     *)
OnePoll ==
    /\ isPolling <=> \E p \in Polls : poll[p].stage # "idle"
    /\ \A p, q \in Polls : poll[p].stage # "idle" /\ poll[q].stage # "idle" => p = q
    /\ \A p \in Polls : poll[p].stage = "idle" => poll[p] = Book!Idle

(* A result is the last thing that happens to a market on chain, so what   *)
(* the indexer, and then a listing, says of it is final; and once it is    *)
(* known, no listing without it is on its way.                             *)
ResultsAreFinal ==
    /\ indexed.status = "Final" => chain = indexed
    /\ \A p \in Polls : poll[p].seen.winner # Book!None => indexed = poll[p].seen
    /\ heard # Book!None =>
         /\ indexed.status = "Final" /\ indexed.winner = heard
         /\ \A p \in Polls : poll[p].seen \in {indexed, Book!NotListed}

(* A settlement price that is known was published, and the chain keeps it. *)
PublishedStays ==
    /\ indexed.price \in {Book!None, chain.price}
    /\ \A p \in Polls : poll[p].seen.price \in {Book!None, chain.price}

(* A resolving market has recorded its price.                              *)
ResolvingHasPrice == active.status = "Resolving" => active.price \in Book!Prices

BookInv ==
    /\ Book!TypeOK
    /\ OnePoll
    /\ ResultsAreFinal
    /\ PublishedStays
    /\ ResolvingHasPrice
    /\ Book!ChainHasLastWord

(* What a step of the book must establish.                                 *)
Settling ==
    active # Book!NoEntry /\ active' # Book!NoEntry /\ active.status = "Resolving"
        /\ now >= Close /\ ~Book!OldPollEnds
    => active'.status = "Resolving" /\ active'.price \in {active.price, chain.price} \ {Book!None}

(* The statuses and prices a poll makes of a listing.                      *)
LEMMA ListingSeen ==
    ASSUME BookInv, NEW seen \in Book!Listings, NEW at \in Nat
    PROVE  /\ Book!StatusSeen(seen, at) \in {"Open", "Resolving", "Closed", "Finalized"}
           /\ Book!StatusSeen(seen, at) = "Finalized" <=> seen.status = "Final"
           /\ Book!StatusSeen(seen, at) = "Open" => ~Book!TimeIsUp(at)
           /\ Book!PriceSeen(seen, at) \in Book!Prices \cup {Book!None}
           /\ Book!StatusSeen(seen, at) = "Resolving"
                => /\ Book!PriceSeen(seen, at) \in {seen.price, Book!Recorded(active)}
                   /\ Book!PriceSeen(seen, at) \in Book!Prices
           /\ Book!Recorded(active) \in Book!Prices
<1> USE DEF BookInv, Book!TypeOK, Book!Entries, Book!Listings, Book!NoEntry, Book!None,
            Book!Prices
<1>1. /\ Book!StatusSeen(seen, at) \in {"Open", "Resolving", "Closed", "Finalized"}
      /\ Book!StatusSeen(seen, at) = "Finalized" <=> seen.status = "Final"
      /\ Book!StatusSeen(seen, at) = "Open" => ~Book!TimeIsUp(at)
    BY DEF Book!StatusSeen
<1>2. Book!Recorded(active) \in Book!Prices
    BY DEF Book!Recorded
<1>3. /\ Book!PriceSeen(seen, at) \in Book!Prices \cup {Book!None}
      /\ Book!StatusSeen(seen, at) = "Resolving"
           => /\ Book!PriceSeen(seen, at) \in {seen.price, Book!Recorded(active)}
              /\ Book!PriceSeen(seen, at) \in Book!Prices
    BY <1>2 DEF Book!PriceSeen
<1> QED BY <1>1, <1>2, <1>3

(* The environment of the book.                                            *)
LEMMA BookWorldStep ==
    ASSUME BookInv, Book!Tick \/ Book!SpotMoves \/ Book!ChainMoves \/ Book!Index
    PROVE  BookInv' /\ Settling
<1> USE DEF BookInv, Book!TypeOK
<1>0. PublishedStays'
    <2>1. CASE Book!ChainMoves
        BY <2>1 DEF Book!ChainMoves, PublishedStays
    <2>2. CASE Book!Tick \/ Book!SpotMoves \/ Book!Index
        BY <2>2 DEF Book!Tick, Book!SpotMoves, Book!Index, PublishedStays
    <2> QED BY <2>1, <2>2
<1>1. UNCHANGED <<active, archive, isPolling, poll, heard>>
    BY DEF Book!Tick, Book!SpotMoves, Book!ChainMoves, Book!Index
<1>2. OnePoll' /\ ResolvingHasPrice' /\ Book!ChainHasLastWord' /\ Settling
    BY <1>1 DEF OnePoll, ResolvingHasPrice, Book!ChainHasLastWord, Settling, Book!Prices, Book!None
<1>3. CASE Book!Tick
    BY <1>0, <1>1, <1>2, <1>3, MarketAssumption DEF Book!Tick, ResultsAreFinal
<1>4. CASE Book!SpotMoves
    BY <1>0, <1>1, <1>2, <1>4 DEF Book!SpotMoves, ResultsAreFinal
<1>5. CASE Book!ChainMoves
    <2>1. indexed.status # "Final"
        BY <1>5 DEF Book!ChainMoves, ResultsAreFinal, Book!Rank, Book!Listings
    <2> QED BY <1>0, <1>1, <1>2, <1>5, <2>1 DEF Book!ChainMoves, ResultsAreFinal
<1>6. CASE Book!Index
    <2>1. indexed.status # "Final"
        BY <1>6 DEF Book!Index, ResultsAreFinal
    <2>2. \A p \in Polls : poll[p].seen.winner = Book!None
        BY <2>1 DEF ResultsAreFinal, Book!Listings, Book!NotListed, Book!Outcomes, Book!None
    <2>3. heard = Book!None
        BY <2>1 DEF ResultsAreFinal
    <2> QED BY <1>0, <1>1, <1>2, <1>6, <2>2, <2>3 DEF Book!Index, ResultsAreFinal
<1> QED BY <1>3, <1>4, <1>5, <1>6

(* A poll begins, and reads the listings.                                  *)
LEMMA PollBeginsStep ==
    ASSUME BookInv, NEW p \in Polls, Book!BeginPoll(p) \/ Book!ListingsArrive(p)
    PROVE  BookInv' /\ Settling
<1> USE DEF BookInv, Book!TypeOK
<1>1. UNCHANGED <<now, spot, chain, indexed, active, archive, heard>>
    BY DEF Book!BeginPoll, Book!ListingsArrive
<1>2. ResolvingHasPrice' /\ Book!ChainHasLastWord' /\ Settling
    BY <1>1 DEF ResolvingHasPrice, Book!ChainHasLastWord, Settling, Book!Prices, Book!None
<1>3. CASE Book!BeginPoll(p)
    <2>1. /\ ~isPolling /\ isPolling' = TRUE /\ poll[p].stage = "idle"
          /\ poll' = [poll EXCEPT ![p] = [poll[p] EXCEPT !.stage = "listing"]]
        BY <1>3 DEF Book!BeginPoll
    <2>2. /\ poll'[p].stage = "listing" /\ poll'[p].seen = poll[p].seen
          /\ \A q \in Polls \ {p} : poll'[q] = poll[q]
        BY <2>1
    <2>3. Book!TypeOK'
        BY <1>1, <2>1
    <2>4. OnePoll'
        BY <2>1, <2>2 DEF OnePoll
    <2>5. ResultsAreFinal'
        BY <1>1, <2>2 DEF ResultsAreFinal
    <2>6. PublishedStays'
        BY <1>1, <2>2 DEF PublishedStays
    <2> QED BY <1>2, <2>3, <2>4, <2>5, <2>6
<1>4. CASE Book!ListingsArrive(p)
    <2>1. PICK seen \in {indexed, Book!NotListed} :
             poll' = [poll EXCEPT ![p] = [stage |-> "books", seen |-> seen, at |-> now]]
        BY <1>4 DEF Book!ListingsArrive
    <2>2. poll[p].stage = "listing" /\ isPolling' = isPolling
        BY <1>4 DEF Book!ListingsArrive
    <2>3. /\ poll'[p].stage = "books" /\ poll'[p].seen = seen
          /\ \A q \in Polls \ {p} : poll'[q] = poll[q]
        BY <2>1
    <2>4. [stage |-> "books", seen |-> seen, at |-> now]
             \in [stage : {"idle", "listing", "books"},
                  seen : Book!Listings \cup {Book!NotListed}, at : 0..BookTime]
        OBVIOUS
    <2>5. Book!TypeOK'
        BY <1>1, <2>1, <2>2, <2>4
    <2>6. OnePoll'
        BY <2>2, <2>3 DEF OnePoll
    <2>7. ResultsAreFinal'
        BY <1>1, <2>3 DEF ResultsAreFinal, Book!NotListed
    <2>8. PublishedStays'
        BY <1>1, <2>3 DEF PublishedStays, Book!NotListed
    <2> QED BY <1>2, <2>5, <2>6, <2>7, <2>8
<1> QED BY <1>3, <1>4

(* A poll that ends leaves no other under way, and hands over a listing    *)
(* that is the chain's last if it has a result.                            *)
LEMMA PollEnds ==
    ASSUME BookInv, NEW p \in Polls, Book!EndPoll(p)
    PROVE  /\ UNCHANGED <<now, spot, chain, indexed>>
           /\ isPolling' = FALSE /\ poll' = [q \in Polls |-> Book!Idle]
           /\ OnePoll' /\ PublishedStays'
           /\ poll[p].seen.price \in {Book!None, chain.price}
           /\ \A q \in Polls : poll'[q].seen = Book!NotListed
           /\ poll[p].seen.winner # Book!None => indexed = poll[p].seen
           /\ poll' \in [Polls -> [stage : {"idle", "listing", "books"},
                                   seen : Book!Listings \cup {Book!NotListed}, at : 0..BookTime]]
<1> USE DEF BookInv, Book!TypeOK
<1>1. /\ poll[p].stage = "books" /\ isPolling' = FALSE
      /\ poll' = [poll EXCEPT ![p] = Book!Idle]
      /\ UNCHANGED <<now, spot, chain, indexed>>
    BY DEF Book!EndPoll
<1>2. \A q \in Polls : poll'[q] = Book!Idle
    BY <1>1 DEF OnePoll
<1>3. poll' = [q \in Polls |-> Book!Idle]
    BY <1>1, <1>2
<1>4. Book!Idle.stage = "idle" /\ Book!Idle.seen = Book!NotListed
    BY DEF Book!Idle
<1>5. Book!Idle \in [stage : {"idle", "listing", "books"},
                     seen : Book!Listings \cup {Book!NotListed}, at : 0..BookTime]
    BY MarketAssumption DEF Book!Idle
<1>6. OnePoll'
    BY <1>1, <1>2, <1>4 DEF OnePoll
<1>7. poll[p].seen.winner # Book!None => indexed = poll[p].seen
    BY DEF ResultsAreFinal
<1>8. PublishedStays' /\ poll[p].seen.price \in {Book!None, chain.price}
    BY <1>1, <1>2, <1>4 DEF PublishedStays, Book!NotListed
<1> HIDE DEF Book!TypeOK, BookInv
<1> QED BY <1>1, <1>2, <1>3, <1>4, <1>5, <1>6, <1>7, <1>8

(* A poll builds the entry anew.                                           *)
LEMMA UpsertListedStep ==
    ASSUME BookInv, NEW p \in Polls, Book!UpsertListed(p)
    PROVE  BookInv' /\ Settling
<1> DEFINE seen == poll[p].seen
           at == poll[p].at
           entry == [status |-> Book!StatusSeen(seen, at), price |-> Book!PriceSeen(seen, at),
                     winner |-> seen.winner]
<1>1. /\ Book!EndPoll(p) /\ seen # Book!NotListed
      /\ IF entry.status \in {"Open", "Resolving"}
           THEN active' = entry /\ archive' = archive
           ELSE active' = Book!NoEntry /\ archive' = entry
      /\ heard' = IF seen.winner # Book!None THEN seen.winner ELSE heard
    BY DEF Book!UpsertListed
<1>2. seen \in Book!Listings /\ at \in Nat /\ at \in 0..BookTime
    BY <1>1, MarketAssumption DEF BookInv, Book!TypeOK
<1>3. /\ UNCHANGED <<now, spot, chain, indexed>>
      /\ isPolling' = FALSE /\ poll' = [q \in Polls |-> Book!Idle]
      /\ OnePoll' /\ PublishedStays'
      /\ seen.price \in {Book!None, chain.price}
      /\ \A q \in Polls : poll'[q].seen = Book!NotListed
      /\ seen.winner # Book!None => indexed = seen
      /\ poll' \in [Polls -> [stage : {"idle", "listing", "books"},
                              seen : Book!Listings \cup {Book!NotListed}, at : 0..BookTime]]
    BY <1>1, PollEnds
<1>4. /\ entry.status \in {"Open", "Resolving", "Closed", "Finalized"}
      /\ entry.status = "Finalized" <=> seen.status = "Final"
      /\ entry.status = "Open" => ~Book!TimeIsUp(at)
      /\ entry.price \in Book!Prices \cup {Book!None}
      /\ entry.status = "Resolving"
           => entry.price \in {seen.price, Book!Recorded(active)} /\ entry.price \in Book!Prices
      /\ Book!Recorded(active) \in Book!Prices
    BY <1>2, ListingSeen
<1>5. seen.winner \in Book!Outcomes \cup {Book!None}
      /\ (seen.winner # Book!None <=> seen.status = "Final")
    BY <1>2 DEF Book!Listings, Book!Outcomes, Book!None
<1>6. entry \in Book!Entries
    BY <1>4, <1>5 DEF Book!Entries
<1>7. entry.winner = seen.winner
    OBVIOUS
<1> HIDE DEF entry
<1>8. Book!TypeOK'
    <2>1. /\ active' \in {e \in Book!Entries : e.status \in {"Open", "Resolving"}}
                         \cup {Book!NoEntry}
          /\ archive' \in {e \in Book!Entries : e.status \in {"Closed", "Finalized"}}
                          \cup {Book!NoEntry}
        BY <1>1, <1>4, <1>6 DEF BookInv, Book!TypeOK
    <2>2. heard' \in Book!Outcomes \cup {Book!None}
        BY <1>1, <1>5 DEF BookInv, Book!TypeOK
    <2> QED BY <1>3, <2>1, <2>2 DEF BookInv, Book!TypeOK
<1>9. ResolvingHasPrice'
    BY <1>1, <1>4 DEF ResolvingHasPrice, Book!NoEntry, Book!None
<1>10. ResultsAreFinal'
    <2>1. CASE seen.winner = Book!None
        BY <1>1, <1>3, <2>1 DEF BookInv, ResultsAreFinal, Book!NotListed
    <2>2. CASE seen.winner # Book!None
        <3>1. seen.status = "Final"
            BY <1>5, <2>2
        <3> QED BY <1>1, <1>3, <2>2, <3>1 DEF BookInv, ResultsAreFinal, Book!NotListed
    <2> QED BY <2>1, <2>2
<1>11. Book!ChainHasLastWord'
    <2>1. CASE seen.winner = Book!None
        <3>1. heard' = heard
            BY <1>1, <2>1
        <3>2. heard = Book!None
            BY <1>1, <2>1 DEF BookInv, ResultsAreFinal
        <3> QED BY <3>1, <3>2 DEF Book!ChainHasLastWord
    <2>2. CASE seen.winner # Book!None
        BY <1>1, <1>4, <1>5, <1>7, <2>2 DEF Book!ChainHasLastWord
    <2> QED BY <2>1, <2>2
<1>12. Settling
    <2>1. ASSUME active # Book!NoEntry, active.status = "Resolving", active' # Book!NoEntry,
                 ~Book!OldPollEnds
          PROVE  /\ active'.status = "Resolving"
                 /\ active'.price \in {active.price, chain.price} \ {Book!None}
        <3>1. active' = entry /\ entry.status \in {"Open", "Resolving"}
            BY <1>1, <2>1
        <3>2. Book!TimeIsUp(at)
            BY <1>1, <1>3, <2>1 DEF Book!OldPollEnds, Book!EndPoll
        <3>3. entry.status = "Resolving"
            BY <1>4, <3>1, <3>2
        <3>4. Book!Recorded(active) = active.price
            BY <2>1 DEF BookInv, ResolvingHasPrice, Book!Recorded, Book!Prices, Book!None
        <3> QED BY <1>3, <1>4, <3>1, <3>3, <3>4 DEF Book!Prices, Book!None
    <2> QED BY <2>1 DEF Settling
<1> QED BY <1>3, <1>8, <1>9, <1>10, <1>11, <1>12 DEF BookInv

(* The steps that know the market only from the book: a poll that did not  *)
(* list it, and the timer.  They need an entry in the active book, hence   *)
(* no result brought home.                                                 *)
LEMMA KnownOnlyStep ==
    ASSUME BookInv, heard' = heard, Book!TypeOK', OnePoll', ResultsAreFinal', PublishedStays',
           active # Book!NoEntry,
           \/ active' = active /\ archive' = archive
           \/ active' = [active EXCEPT !.status = "Resolving", !.price = Book!Recorded(active)]
           \/ ~(active.status = "Resolving" /\ now >= Close)
                /\ active' = [active EXCEPT !.status = "Open", !.price = Book!None]
           \/ active' = Book!NoEntry
    PROVE  BookInv' /\ Settling
<1> USE DEF BookInv
<1>1. active.status \in {"Open", "Resolving"} /\ active \in Book!Entries
    BY DEF Book!TypeOK
<1>2. Book!Recorded(active) \in Book!Prices
    BY <1>1 DEF Book!Recorded, Book!Entries, Book!TypeOK
<1>3. heard = Book!None /\ Book!ChainHasLastWord'
    BY DEF Book!ChainHasLastWord
<1>4. ResolvingHasPrice'
    <2>1. CASE active' = active
        BY <2>1 DEF ResolvingHasPrice
    <2>2. CASE active' = [active EXCEPT !.status = "Resolving", !.price = Book!Recorded(active)]
        BY <1>1, <1>2, <2>2 DEF ResolvingHasPrice, Book!Entries
    <2>3. CASE active' = [active EXCEPT !.status = "Open", !.price = Book!None]
        BY <1>1, <2>3 DEF ResolvingHasPrice, Book!Entries
    <2>4. CASE active' = Book!NoEntry
        BY <2>4 DEF ResolvingHasPrice, Book!NoEntry, Book!None
    <2> QED BY <2>1, <2>2, <2>3, <2>4
<1>5. Settling
    <2>1. active.status = "Resolving" => Book!Recorded(active) = active.price
        BY DEF Book!Recorded, ResolvingHasPrice, Book!Prices, Book!None
    <2> QED BY <1>1, <2>1 DEF Settling, ResolvingHasPrice, Book!Entries, Book!Prices, Book!None
<1> QED BY <1>3, <1>4, <1>5

(* The entry of a market that is not listed changes with the clock only.   *)
LEMMA KeepUnlistedStep ==
    ASSUME BookInv, NEW p \in Polls, Book!KeepUnlisted(p)
    PROVE  BookInv' /\ Settling
<1> USE DEF BookInv
<1> DEFINE opened == [active EXCEPT !.status = "Open", !.price = Book!None]
           resolving == [active EXCEPT !.status = "Resolving", !.price = Book!Recorded(active)]
           final == [active EXCEPT !.status = "Finalized"]
<1>1. /\ Book!EndPoll(p) /\ active # Book!NoEntry /\ heard' = heard
      /\ \/ /\ now < Close
            /\ active' = IF active.status = "Resolving" THEN opened ELSE active
            /\ archive' = archive
         \/ active' = resolving /\ archive' = archive
         \/ archive' = final /\ active' = Book!NoEntry
    BY DEF Book!KeepUnlisted
<1>2. /\ UNCHANGED <<now, spot, chain, indexed>> /\ isPolling' = FALSE
      /\ OnePoll' /\ PublishedStays'
      /\ \A q \in Polls : poll'[q].seen = Book!NotListed
      /\ poll' \in [Polls -> [stage : {"idle", "listing", "books"},
                              seen : Book!Listings \cup {Book!NotListed}, at : 0..BookTime]]
    BY <1>1, PollEnds
<1>3. active \in Book!Entries /\ active.status \in {"Open", "Resolving"}
    BY <1>1 DEF Book!TypeOK
<1>4. /\ opened \in Book!Entries /\ opened.status = "Open"
      /\ resolving \in Book!Entries /\ resolving.status = "Resolving"
      /\ final \in Book!Entries /\ final.status = "Finalized"
    <2>1. Book!Recorded(active) \in Book!Prices
        BY <1>3 DEF Book!Recorded, Book!Entries, Book!TypeOK
    <2> QED BY <1>3, <2>1 DEF Book!Entries
<1>5. Book!TypeOK'
    <2> HIDE DEF opened, resolving, final
    <2>1. active' \in {e \in Book!Entries : e.status \in {"Open", "Resolving"}}
                      \cup {Book!NoEntry}
        BY <1>1, <1>3, <1>4
    <2>2. archive' \in {e \in Book!Entries : e.status \in {"Closed", "Finalized"}}
                       \cup {Book!NoEntry}
        BY <1>1, <1>4 DEF Book!TypeOK
    <2> QED BY <1>1, <1>2, <2>1, <2>2 DEF Book!TypeOK
<1>6. ResultsAreFinal'
    BY <1>1, <1>2 DEF ResultsAreFinal, Book!NotListed
<1>7. now \in Nat /\ Close \in Nat
    BY MarketAssumption DEF Book!TypeOK
<1> QED BY <1>1, <1>2, <1>5, <1>6, <1>7, KnownOnlyStep

(* A poll that ends without a market in it changes nothing else.           *)
LEMMA PollInVainStep ==
    ASSUME BookInv, NEW p \in Polls, Book!PollInVain(p)
    PROVE  BookInv' /\ Settling
<1> USE DEF BookInv
<1>1. Book!EndPoll(p) /\ UNCHANGED <<active, archive, heard>>
    BY DEF Book!PollInVain
<1>2. /\ UNCHANGED <<now, spot, chain, indexed>> /\ isPolling' = FALSE
      /\ OnePoll' /\ PublishedStays'
      /\ \A q \in Polls : poll'[q].seen = Book!NotListed
      /\ poll' \in [Polls -> [stage : {"idle", "listing", "books"},
                              seen : Book!Listings \cup {Book!NotListed}, at : 0..BookTime]]
    BY <1>1, PollEnds
<1>3. Book!TypeOK'
    BY <1>1, <1>2 DEF Book!TypeOK
<1> QED BY <1>1, <1>2, <1>3
        DEF ResultsAreFinal, ResolvingHasPrice, Book!ChainHasLastWord, Settling, Book!NotListed,
            Book!Prices, Book!None

(* The timer resolves, reopens before the close, or archives.              *)
LEMMA RefreshStep ==
    ASSUME BookInv, Book!Refresh
    PROVE  BookInv' /\ Settling
<1> USE DEF BookInv
<1> DEFINE opened == [active EXCEPT !.status = "Open", !.price = Book!None]
           resolving == [active EXCEPT !.status = "Resolving", !.price = Book!Recorded(active)]
           final == [active EXCEPT !.status = "Finalized", !.winner =
                        IF active.winner = Book!None THEN Book!WinnerAt(active.price)
                        ELSE active.winner]
<1>1. /\ active # Book!NoEntry
      /\ \/ active' = resolving /\ archive' = archive
         \/ ~Book!TimeIsUp(now) /\ active' = opened /\ archive' = archive
         \/ archive' = final /\ active' = Book!NoEntry
      /\ UNCHANGED <<now, spot, chain, indexed, isPolling, poll, heard>>
    BY DEF Book!Refresh
<1>2. active \in Book!Entries /\ active.status \in {"Open", "Resolving"}
    BY <1>1 DEF Book!TypeOK
<1>3. /\ opened \in Book!Entries /\ opened.status = "Open"
      /\ resolving \in Book!Entries /\ resolving.status = "Resolving"
    <2>1. Book!Recorded(active) \in Book!Prices
        BY <1>2 DEF Book!Recorded, Book!Entries, Book!TypeOK
    <2> QED BY <1>2, <2>1 DEF Book!Entries
<1>4. final \in Book!Entries /\ final.status = "Finalized"
    <2>1. Book!WinnerAt(active.price) \in Book!Outcomes
        BY DEF Book!WinnerAt, Book!Outcomes
    <2> QED BY <1>2, <2>1 DEF Book!Entries
<1>5. Book!TypeOK'
    <2> HIDE DEF opened, resolving, final
    <2>1. active' \in {e \in Book!Entries : e.status \in {"Open", "Resolving"}}
                      \cup {Book!NoEntry}
        BY <1>1, <1>3
    <2>2. archive' \in {e \in Book!Entries : e.status \in {"Closed", "Finalized"}}
                       \cup {Book!NoEntry}
        BY <1>1, <1>4 DEF Book!TypeOK
    <2> QED BY <1>1, <2>1, <2>2 DEF Book!TypeOK
<1>6. OnePoll' /\ ResultsAreFinal' /\ PublishedStays'
    BY <1>1 DEF OnePoll, ResultsAreFinal, PublishedStays
<1>7. ~Book!TimeIsUp(now) => ~(now >= Close)
    BY MarketAssumption DEF Book!TypeOK, Book!TimeIsUp
<1> QED BY <1>1, <1>5, <1>6, <1>7, KnownOnlyStep

LEMMA BookStep ==
    ASSUME BookInv, Book!Next
    PROVE  BookInv' /\ Settling
BY BookWorldStep, PollBeginsStep, UpsertListedStep, KeepUnlistedStep, PollInVainStep,
   RefreshStep DEF Book!Next
-----------------------------------------------------------------------------
(* The gateway's seats.  A connection takes its seat once, because only a  *)
(* new socket connects, and gives it back once, because a clean-up counts  *)
(* only what is still known.                                               *)

Connections == {"none", "open", "closing", "closed"}
KnownClients == [isAlive : BOOLEAN, invalid : Nat]

SeatsInv ==
    /\ conn \in [Sockets -> Connections]
    /\ clients \in [Sockets -> KnownClients \cup {Gate!NoClient}]
    /\ seats \in [Ips -> Nat]
    /\ \A s \in Gate!Known : conn[s] # "none"
    /\ Gate!SeatsCounted

(* The instance counts as this module does.                                *)
LEMMA SameCount == \A S : Gate!Cardinality(S) = Cardinality(S)
BY SMT DEF Gate!Cardinality, Cardinality

LEMMA QueueCount == \A S : Queue!Cardinality(S) = Cardinality(S)
BY SMT DEF Queue!Cardinality, Cardinality

(* Known clients are told from missing ones by their count.                *)
LEMMA KnownIffEntry ==
    ASSUME SeatsInv, NEW s \in Sockets
    PROVE  /\ Gate!NoClient \notin KnownClients
           /\ s \in Gate!Known <=> clients[s] \in KnownClients
BY DEF SeatsInv, KnownClients, Gate!NoClient, Gate!Known

(* Sets of clients are finite.                                             *)
LEMMA FiniteSeats ==
    ASSUME NEW i
    PROVE  /\ IsFiniteSet(Gate!Known)
           /\ IsFiniteSet(Gate!Known \cap Gate!At(i))
<1>1. Gate!Known \subseteq Sockets /\ IsFiniteSet(Sockets)
    BY GatewayAssumption DEF Gate!Known
<1> QED BY <1>1, FS_Subset

(* Cleaning up any sockets keeps the count, known or not.                  *)
LEMMA CleanupKeepsSeats ==
    ASSUME SeatsInv, NEW gone \in SUBSET Sockets,
           conn' \in [Sockets -> Connections],
           \A s \in Sockets : conn'[s] = "none" => conn[s] = "none",
           clients' \in [Sockets -> KnownClients \cup {Gate!NoClient}],
           Gate!Known' = Gate!Known \ gone,
           seats' = Gate!SeatsWithout(gone)
    PROVE  SeatsInv'
<1>1. \A s \in Gate!Known' : conn'[s] # "none"
    BY DEF SeatsInv, Gate!Known
<1>2. ASSUME NEW i \in Ips
      PROVE  /\ seats'[i] = Cardinality(Gate!Known' \cap Gate!At(i))
             /\ seats'[i] =< seats[i] /\ seats'[i] \in Nat
    <2> DEFINE K == Gate!Known \cap Gate!At(i)
    <2>1. seats[i] = Cardinality(K) /\ IsFiniteSet(K) /\ Cardinality(K) \in Nat
        BY SameCount, FiniteSeats, FS_CardinalityType DEF SeatsInv, Gate!SeatsCounted
    <2>2. /\ Cardinality(K \ gone) = Cardinality(K) - Cardinality(K \cap gone)
          /\ Cardinality(K \cap gone) \in Nat
          /\ Cardinality(K \ gone) \in Nat
        <3>1. IsFiniteSet(K \ gone) /\ IsFiniteSet(K \cap gone)
            BY <2>1, FS_Subset
        <3> QED BY <2>1, <3>1, FS_Difference, FS_CardinalityType
    <2>3. /\ K \cap gone = gone \cap Gate!Known \cap Gate!At(i)
          /\ K \ gone = Gate!Known' \cap Gate!At(i)
        OBVIOUS
    <2>4. seats'[i] = Gate!Floor0(seats[i] - Cardinality(gone \cap Gate!Known \cap Gate!At(i)))
        BY SameCount DEF Gate!SeatsWithout
    <2>5. seats'[i] = Cardinality(K) - Cardinality(K \cap gone)
        <3>1. seats'[i] = Gate!Floor0(Cardinality(K) - Cardinality(K \cap gone))
            BY <2>1, <2>3, <2>4
        <3> HIDE DEF K
        <3>2. PICK n \in Nat, x \in Nat :
                 n = Cardinality(K) /\ x = Cardinality(K \cap gone) /\ n - x \in Nat
            BY <2>1, <2>2
        <3>3. seats'[i] = Gate!Floor0(n - x)
            BY <3>1, <3>2
        <3>4. Gate!Floor0(n - x) = n - x
            BY <3>2 DEF Gate!Floor0
        <3> QED BY <3>2, <3>3, <3>4
    <2>6. seats'[i] = Cardinality(K \ gone) /\ seats'[i] =< seats[i]
        <3> HIDE DEF K
        <3> QED BY <2>1, <2>2, <2>5
    <2> QED BY <2>2, <2>3, <2>6
<1>3. seats' \in [Ips -> Nat]
    BY <1>2 DEF Gate!SeatsWithout
<1>4. Cardinality(Gate!Known') =< MaxClients
    <2>1. /\ Cardinality(Gate!Known \ gone) =< Cardinality(Gate!Known)
          /\ Cardinality(Gate!Known) \in Nat /\ Cardinality(Gate!Known \ gone) \in Nat
        <3>1. IsFiniteSet(Gate!Known \ gone)
            BY FiniteSeats, FS_Subset
        <3> QED BY FiniteSeats, <3>1, FS_Subset, FS_CardinalityType
    <2> QED BY <2>1, SameCount, GatewayAssumption DEF SeatsInv, Gate!SeatsCounted
<1>5. Gate!SeatsCounted'
    <2>1. \A i \in Ips : seats'[i] =< MaxPerIp
        <3>1. \A i \in Ips : seats[i] \in Nat /\ seats[i] =< MaxPerIp
            BY DEF SeatsInv, Gate!SeatsCounted
        <3>2. MaxPerIp \in Nat
            BY GatewayAssumption
        <3>3. \A i \in Ips : seats'[i] =< seats[i] /\ seats'[i] \in Nat
            BY <1>2
        <3> QED BY <3>1, <3>2, <3>3
    <2>2. \A i \in Ips : Gate!At(i)' = Gate!At(i)
        BY DEF Gate!At
    <2> QED BY <1>2, <1>4, <2>1, <2>2, SameCount DEF Gate!SeatsCounted
<1> QED BY <1>1, <1>3, <1>5 DEF SeatsInv

(* A connection: refused, or seated within both caps.                      *)
LEMMA ConnectStep ==
    ASSUME SeatsInv, NEW s \in Sockets, Gate!Connect(s)
    PROVE  SeatsInv'
<1> DEFINE i == IpOf[s]
           full == Gate!Cardinality(Gate!Known) >= MaxClients \/ seats[i] >= MaxPerIp
<1>1. i \in Ips /\ conn[s] = "none" /\ s \notin Gate!Known
    BY GatewayAssumption DEF Gate!Connect, SeatsInv
<1>2. CASE full
    <2>1. /\ conn' = [conn EXCEPT ![s] = "closed"]
          /\ UNCHANGED <<clients, seats>>
        BY <1>2 DEF Gate!Connect
    <2>2. Gate!Known' = Gate!Known /\ \A j \in Ips : Gate!At(j)' = Gate!At(j)
        BY <2>1 DEF Gate!Known, Gate!At
    <2>3. /\ conn' \in [Sockets -> Connections]
          /\ \A t \in Gate!Known : conn'[t] # "none"
        BY <2>1 DEF SeatsInv, Connections, Gate!Known
    <2> QED BY <2>1, <2>2, <2>3 DEF SeatsInv, Gate!SeatsCounted
<1>3. CASE ~full
    <2>1. /\ conn' = [conn EXCEPT ![s] = "open"]
          /\ clients' = [clients EXCEPT ![s] = Gate!NewClient]
          /\ seats' = [seats EXCEPT ![i] = seats[i] + 1]
        BY <1>3 DEF Gate!Connect
    <2>2. Gate!NewClient \in KnownClients /\ Gate!NewClient # Gate!NoClient
        BY DEF Gate!NewClient, Gate!NoClient, KnownClients
    <2>3. Gate!Known' = Gate!Known \cup {s} /\ \A j \in Ips : Gate!At(j)' = Gate!At(j)
        BY <2>1, <2>2 DEF Gate!Known, SeatsInv, Gate!At
    <2>4. /\ conn' \in [Sockets -> Connections]
          /\ \A t \in Gate!Known' : conn'[t] # "none"
        BY <2>1, <2>3 DEF SeatsInv, Connections, Gate!Known
    <2>5. clients' \in [Sockets -> KnownClients \cup {Gate!NoClient}]
        BY <2>1, <2>2 DEF SeatsInv
    <2>6. seats' \in [Ips -> Nat]
        BY <1>1, <2>1 DEF SeatsInv
    <2>7. Cardinality(Gate!Known') = Cardinality(Gate!Known) + 1
          /\ Cardinality(Gate!Known) \in Nat
        BY <1>1, <2>3, FiniteSeats, FS_AddElement, FS_CardinalityType
    <2>8. Cardinality(Gate!Known') =< MaxClients
        <3>1. ~(Cardinality(Gate!Known) >= MaxClients) /\ MaxClients \in Nat
            BY <1>3, SameCount, GatewayAssumption
        <3> QED BY <2>7, <3>1
    <2>9. ASSUME NEW j \in Ips
          PROVE  /\ seats'[j] = Cardinality(Gate!Known' \cap Gate!At(j))
                 /\ seats'[j] =< MaxPerIp
        <3>1. /\ seats[j] = Cardinality(Gate!Known \cap Gate!At(j))
              /\ seats[j] =< MaxPerIp /\ seats[j] \in Nat /\ MaxPerIp \in Nat
            BY SameCount, GatewayAssumption DEF SeatsInv, Gate!SeatsCounted
        <3>2. CASE j = i
            <4>1. Gate!Known' \cap Gate!At(j) = (Gate!Known \cap Gate!At(j)) \cup {s}
                BY <2>3, <3>2 DEF Gate!At
            <4>2. Cardinality(Gate!Known' \cap Gate!At(j)) = seats[j] + 1
                BY <1>1, <3>1, <4>1, FiniteSeats, FS_AddElement
            <4>3. ~(seats[j] >= MaxPerIp) /\ seats'[j] = seats[j] + 1
                BY <1>1, <1>3, <2>1, <3>2 DEF SeatsInv
            <4> QED BY <3>1, <4>2, <4>3
        <3>3. CASE j # i
            <4>1. Gate!Known' \cap Gate!At(j) = Gate!Known \cap Gate!At(j)
                BY <2>3, <3>3 DEF Gate!At
            <4>2. seats'[j] = seats[j]
                BY <2>1, <3>3 DEF SeatsInv
            <4> QED BY <3>1, <4>1, <4>2
        <3> QED BY <3>2, <3>3
    <2>10. Gate!SeatsCounted'
        BY <2>3, <2>8, <2>9, SameCount DEF Gate!SeatsCounted
    <2> QED BY <2>4, <2>5, <2>6, <2>10 DEF SeatsInv
<1> QED BY <1>2, <1>3

(* cleanupClient for one socket.                                           *)
LEMMA CleanupStep ==
    ASSUME SeatsInv, NEW s \in Sockets, Gate!Cleanup(s),
           conn' \in [Sockets -> Connections],
           \A t \in Sockets : conn'[t] = "none" => conn[t] = "none"
    PROVE  SeatsInv'
<1>1. /\ clients' = [clients EXCEPT ![s] = Gate!NoClient]
      /\ seats' = Gate!SeatsWithout({s})
    BY DEF Gate!Cleanup
<1>2. clients' \in [Sockets -> KnownClients \cup {Gate!NoClient}]
    BY <1>1 DEF SeatsInv
<1>3. Gate!Known' = Gate!Known \ {s}
    BY <1>1 DEF Gate!Known, SeatsInv
<1> QED BY <1>1, <1>2, <1>3, CleanupKeepsSeats

(* A client's entry changes, and the client stays known.                   *)
LEMMA ClientStep ==
    ASSUME SeatsInv, NEW s \in Gate!Known, NEW c \in KnownClients,
           clients' = [clients EXCEPT ![s] = c], UNCHANGED <<conn, seats>>
    PROVE  SeatsInv'
<1>1. s \in Sockets
    BY DEF Gate!Known
<1>2. Gate!Known' = Gate!Known /\ \A j \in Ips : Gate!At(j)' = Gate!At(j)
    <2>1. c # Gate!NoClient
        BY <1>1, KnownIffEntry
    <2> QED BY <1>1, <2>1 DEF Gate!Known, SeatsInv, Gate!At
<1>3. clients' \in [Sockets -> KnownClients \cup {Gate!NoClient}]
    BY <1>1 DEF SeatsInv
<1> QED BY <1>2, <1>3 DEF SeatsInv, Gate!SeatsCounted

(* A connection may change its state as long as it does not become new.    *)
LEMMA ConnStep ==
    ASSUME SeatsInv, conn' \in [Sockets -> Connections],
           \A t \in Sockets : conn'[t] = "none" => conn[t] = "none",
           UNCHANGED <<clients, seats>>
    PROVE  SeatsInv'
<1>1. Gate!Known' = Gate!Known /\ \A j \in Ips : Gate!At(j)' = Gate!At(j)
    BY DEF Gate!Known, Gate!At
<1>2. \A s \in Gate!Known' : conn'[s] # "none"
    BY <1>1 DEF SeatsInv, Gate!Known
<1> QED BY <1>1, <1>2 DEF SeatsInv, Gate!SeatsCounted

(* The heartbeat ends the dead and asks the others.                        *)
LEMMA HeartbeatStep ==
    ASSUME SeatsInv, Gate!Heartbeat
    PROVE  SeatsInv'
<1> DEFINE dead == {s \in Gate!Known : conn[s] = "open" /\ ~clients[s].isAlive}
           gone == dead \cup {s \in Gate!Known : conn[s] # "open"}
<1>1. /\ clients' = [s \in Sockets |-> IF s \in Gate!Known \ gone THEN Gate!Asked(clients[s])
                                       ELSE Gate!NoClient]
      /\ seats' = Gate!SeatsWithout(gone)
      /\ conn' = [s \in Sockets |-> IF s \in dead THEN "closing" ELSE conn[s]]
    BY DEF Gate!Heartbeat
<1>2. gone \in SUBSET Sockets
    BY DEF Gate!Known
<1>3. /\ conn' \in [Sockets -> Connections]
      /\ \A s \in Sockets : conn'[s] = "none" => conn[s] = "none"
    BY <1>1 DEF SeatsInv, Connections
<1> HIDE DEF gone
<1>4. \A s \in Gate!Known : Gate!Asked(clients[s]) \in KnownClients
    <2>1. \A s \in Gate!Known : clients[s] \in KnownClients
        BY KnownIffEntry DEF Gate!Known
    <2> QED BY <2>1 DEF Gate!Asked, KnownClients
<1>5. clients' \in [Sockets -> KnownClients \cup {Gate!NoClient}]
    BY <1>1, <1>4
<1>6. Gate!NoClient \notin KnownClients
    BY DEF KnownClients, Gate!NoClient
<1>7. Gate!Known' = Gate!Known \ gone
    <2>1. \A s \in Sockets : clients'[s] # Gate!NoClient <=> s \in Gate!Known \ gone
        BY <1>1, <1>4, <1>6
    <2> QED BY <2>1 DEF Gate!Known
<1> QED BY <1>1, <1>2, <1>3, <1>5, <1>7, CleanupKeepsSeats

(* A shutdown forgets everybody, seats included.                           *)
LEMMA ShutDownStep ==
    ASSUME SeatsInv, Gate!ShutDown
    PROVE  SeatsInv'
<1>1. /\ clients' = [s \in Sockets |-> Gate!NoClient]
      /\ seats' = [i \in Ips |-> 0] /\ conn' = conn
    BY DEF Gate!ShutDown
<1>2. Gate!Known' = {}
    BY <1>1 DEF Gate!Known
<1>3. Gate!Cardinality({}) = 0 /\ MaxClients \in Nat /\ MaxPerIp \in Nat
    BY SameCount, FS_EmptySet, GatewayAssumption
<1>4. \A i \in Ips : Gate!Known' \cap Gate!At(i)' = {}
    BY <1>2
<1>5. Gate!SeatsCounted'
    BY <1>1, <1>2, <1>3, <1>4 DEF Gate!SeatsCounted
<1> QED BY <1>1, <1>2, <1>5 DEF SeatsInv

(* Every step of the gateway keeps its seats.                              *)
LEMMA SeatsStep ==
    ASSUME SeatsInv, Gate!Next
    PROVE  SeatsInv'
<1> DEFINE Same == UNCHANGED <<conn, clients, seats>>
<1>1. ASSUME NEW s \in Sockets, conn' = [conn EXCEPT ![s] = "closing"]
      PROVE  /\ conn' \in [Sockets -> Connections]
             /\ \A t \in Sockets : conn'[t] = "none" => conn[t] = "none"
    BY <1>1 DEF SeatsInv, Connections
<1>2. ASSUME NEW s \in Sockets, conn' = [conn EXCEPT ![s] = "closed"]
      PROVE  /\ conn' \in [Sockets -> Connections]
             /\ \A t \in Sockets : conn'[t] = "none" => conn[t] = "none"
    BY <1>2 DEF SeatsInv, Connections
<1>3. ASSUME Same PROVE SeatsInv'
    <2>1. conn' \in [Sockets -> Connections]
        BY <1>3 DEF SeatsInv
    <2> QED BY <1>3, <2>1, ConnStep
<1>4. CASE Gate!Tick \/ Gate!Exit \/ \E i \in Ips : Gate!DropBucket(i)
    BY <1>3, <1>4 DEF Gate!Tick, Gate!Exit, Gate!DropBucket
<1>5. CASE Gate!Heartbeat
    BY <1>5, HeartbeatStep
<1>6. CASE Gate!ShutDown
    BY <1>6, ShutDownStep
<1>7. ASSUME NEW s \in Sockets, Gate!Connect(s) PROVE SeatsInv'
    BY <1>7, ConnectStep
<1>8. ASSUME NEW s \in Sockets, Gate!PeerLeaves(s) \/ Gate!CloseEnds(s) PROVE SeatsInv'
    <2>1. conn' = [conn EXCEPT ![s] = "closed"] /\ Gate!Cleanup(s)
        BY <1>8 DEF Gate!PeerLeaves, Gate!CloseEnds, Gate!Closed
    <2> QED BY <1>2, <2>1, CleanupStep
<1>9. ASSUME NEW s \in Sockets, Gate!ErrorEvent(s) PROVE SeatsInv'
    <2>1. conn' = [conn EXCEPT ![s] = "closing"] /\ Gate!Cleanup(s)
        BY <1>9 DEF Gate!ErrorEvent
    <2> QED BY <1>1, <2>1, CleanupStep
<1>10. ASSUME NEW s \in Sockets, Gate!Pong(s) PROVE SeatsInv'
    <2>1. /\ s \in Gate!Known /\ UNCHANGED <<conn, seats>>
          /\ clients' = [clients EXCEPT ![s] = [clients[s] EXCEPT !.isAlive = TRUE]]
        BY <1>10 DEF Gate!Pong
    <2>2. [clients[s] EXCEPT !.isAlive = TRUE] \in KnownClients
        <3>1. clients[s] \in KnownClients
            BY <2>1, KnownIffEntry
        <3> QED BY <3>1 DEF KnownClients
    <2> QED BY <2>1, <2>2, ClientStep
<1>11. ASSUME NEW s \in Sockets, Gate!GoesSilent(s) \/ Gate!MessagePasses(s) PROVE SeatsInv'
    BY <1>3, <1>11 DEF Gate!GoesSilent, Gate!MessagePasses
<1>12. ASSUME NEW s \in Sockets, Gate!MessageInvalid(s) PROVE SeatsInv'
    <2>1. CASE s \notin Gate!Known
        <3>1. conn' = [conn EXCEPT ![s] = "closing"] /\ UNCHANGED <<clients, seats>>
            BY <1>12, <2>1 DEF Gate!MessageInvalid
        <3> QED BY <1>1, <3>1, ConnStep
    <2>2. CASE s \in Gate!Known /\ clients[s].invalid + 1 >= MaxInvalid
        <3>1. conn' = [conn EXCEPT ![s] = "closing"] /\ Gate!Cleanup(s)
            BY <1>12, <2>2 DEF Gate!MessageInvalid
        <3> QED BY <1>1, <3>1, CleanupStep
    <2>3. CASE s \in Gate!Known /\ ~(clients[s].invalid + 1 >= MaxInvalid)
        <3> DEFINE c == [clients[s] EXCEPT !.invalid = clients[s].invalid + 1]
        <3>1. clients' = [clients EXCEPT ![s] = c] /\ UNCHANGED <<conn, seats>>
            BY <1>12, <2>3 DEF Gate!MessageInvalid
        <3>2. c \in KnownClients
            <4>1. clients[s] \in KnownClients
                BY <2>3, KnownIffEntry
            <4> QED BY <4>1 DEF KnownClients
        <3> QED BY <2>3, <3>1, <3>2, ClientStep
    <2> QED BY <2>1, <2>2, <2>3
<1>13. ASSUME NEW s \in Sockets, Gate!MessageLimited(s) PROVE SeatsInv'
    <2>1. (conn' = [conn EXCEPT ![s] = "closing"] \/ conn' = conn) /\ UNCHANGED <<clients, seats>>
        BY <1>13 DEF Gate!MessageLimited
    <2> QED BY <1>1, <1>3, <2>1, ConnStep
<1> QED BY <1>4, <1>5, <1>6, <1>7, <1>8, <1>9, <1>10, <1>11, <1>12, <1>13 DEF Gate!Next
-----------------------------------------------------------------------------
(* The gateway's rate limit.  A bucket's strikes stand for windows of its  *)
(* address in the log: as many, all over the limit, each close to the      *)
(* next, and the last of them close to the bucket's last strike.           *)

Windows == [at : Nat, over : BOOLEAN]
Buckets == [count : Nat, start : Nat, strikes : 0..Strikes, last : Nat, struck : BOOLEAN]

(* The last window of the log is the bucket's.                             *)
CurrentWindow(i) ==
    /\ bucket[i].start =< now /\ bucket[i].last =< now
    /\ bucket[i].strikes > 0 => bucket[i].count > 0
    /\ bucket[i].struck => bucket[i].count > 0 /\ log[i][Len(log[i])].over
    /\ bucket[i].count > 0 => Len(log[i]) > 0 /\ log[i][Len(log[i])].at = bucket[i].start

(* From these windows the address has its strikes; unless they are all it  *)
(* can have, the next strike will be close to the last of them.            *)
StruckIn(i, W) ==
    /\ W \subseteq 1..Len(log[i])
    /\ Cardinality(W) = bucket[i].strikes
    /\ Gate!Abusive(i, W)
    /\ bucket[i].strikes \in 1..(Strikes - 1) =>
         \E k \in W : /\ \A j \in W : j =< k
                      /\ bucket[i].last - log[i][k].at =< Window
                      /\ ~bucket[i].struck => k < Len(log[i])

AbuseInv ==
    /\ now \in Nat
    /\ limited \subseteq Sockets
    /\ bucket \in [Ips -> Buckets]
    /\ log \in [Ips -> Seq(Windows)]
    /\ \A i \in Ips : CurrentWindow(i) /\ \E W : StruckIn(i, W)
    /\ Gate!OnlySustainedAbuse

(* The log only grows: windows keep their time and stay over the limit.    *)
LogGrows(i) ==
    /\ Len(log[i]) \in Nat /\ Len(log'[i]) \in Nat /\ Len(log[i]) =< Len(log'[i])
    /\ \A k \in 1..Len(log[i]) : /\ log'[i][k].at = log[i][k].at
                                 /\ log[i][k].over => log'[i][k].over

LEMMA AbusiveStays ==
    ASSUME NEW i, LogGrows(i), NEW W \in SUBSET (1..Len(log[i])), Gate!Abusive(i, W)
    PROVE  Gate!Abusive(i, W)' /\ W \in SUBSET (1..Len(log'[i]))
<1>1. \A k \in W : k \in 1..Len(log[i])
    OBVIOUS
<1>2. W \in SUBSET (1..Len(log'[i]))
    BY <1>1 DEF LogGrows
<1>3. \A k \in W : log'[i][k].at = log[i][k].at /\ log'[i][k].over
    <2>1. \A k \in W : log[i][k].over
        BY DEF Gate!Abusive
    <2> QED BY <1>1, <2>1 DEF LogGrows
<1> QED BY <1>2, <1>3 DEF Gate!Abusive

(* Whoever was closed for abuse stays rightly closed.                      *)
ClosedRightly(s) ==
    \E W \in SUBSET (1..Len(log[IpOf[s]])) :
        Gate!Cardinality(W) = Strikes /\ Gate!Abusive(IpOf[s], W)

LEMMA StaysClosedRightly ==
    ASSUME Gate!OnlySustainedAbuse, NEW s \in limited, limited \subseteq Sockets,
           \A i \in Ips : LogGrows(i)
    PROVE  ClosedRightly(s)'
<1>1. IpOf[s] \in Ips
    BY GatewayAssumption
<1>2. PICK W \in SUBSET (1..Len(log[IpOf[s]])) :
         Gate!Cardinality(W) = Strikes /\ Gate!Abusive(IpOf[s], W)
    BY DEF Gate!OnlySustainedAbuse
<1> QED BY <1>1, <1>2, AbusiveStays DEF ClosedRightly

(* An address whose bucket stays, and whose log grows without a new last   *)
(* window, keeps its windows.                                              *)
LEMMA QuietAddress ==
    ASSUME AbuseInv, NEW i \in Ips, bucket'[i] = bucket[i], log'[i] = log[i],
           now' \in Nat, now =< now'
    PROVE  CurrentWindow(i)' /\ (\E W : StruckIn(i, W))'
<1>1. PICK W : StruckIn(i, W)
    BY DEF AbuseInv
<1>2. StruckIn(i, W)'
    BY <1>1 DEF StruckIn, Gate!Abusive
<1>3. bucket[i].start \in Nat /\ bucket[i].last \in Nat
    BY DEF AbuseInv, Buckets
<1>4. CurrentWindow(i)'
    BY <1>3 DEF AbuseInv, CurrentWindow
<1> QED BY <1>2, <1>4

(* An address without strikes needs no windows.                            *)
LEMMA NoStrikes ==
    ASSUME NEW i \in Ips, bucket'[i].strikes = 0
    PROVE  (\E W : StruckIn(i, W))'
<1>1. StruckIn(i, {})'
    BY FS_EmptySet, GatewayAssumption DEF StruckIn, Gate!Abusive
<1> QED BY <1>1

(* Nothing but the clock moves.                                            *)
LEMMA AbuseQuietStep ==
    ASSUME AbuseInv, now' \in Nat, now =< now', UNCHANGED <<bucket, log, limited>>
    PROVE  AbuseInv'
<1>1. \A i \in Ips : CurrentWindow(i)' /\ (\E W : StruckIn(i, W))'
    BY QuietAddress
<1>2. Gate!OnlySustainedAbuse'
    BY DEF AbuseInv, Gate!OnlySustainedAbuse, Gate!Abusive
<1> QED BY <1>1, <1>2 DEF AbuseInv

(* A bucket is dropped, or all of them.                                    *)
LEMMA AbuseDropStep ==
    ASSUME AbuseInv, UNCHANGED <<now, log, limited>>,
           bucket' \in [Ips -> Buckets],
           \A i \in Ips : bucket'[i] \in {bucket[i], Gate!NoBucket}
    PROVE  AbuseInv'
<1>1. ASSUME NEW i \in Ips
      PROVE  CurrentWindow(i)' /\ (\E W : StruckIn(i, W))'
    <2>1. CASE bucket'[i] = bucket[i]
        BY <2>1, QuietAddress DEF AbuseInv
    <2>2. CASE bucket'[i] = Gate!NoBucket
        <3>1. bucket'[i].strikes = 0 /\ bucket'[i].count = 0 /\ bucket'[i].start = 0
              /\ bucket'[i].last = 0 /\ bucket'[i].struck = FALSE
            BY <2>2 DEF Gate!NoBucket
        <3>2. CurrentWindow(i)'
            BY <3>1 DEF CurrentWindow, AbuseInv
        <3> QED BY <3>1, <3>2, NoStrikes
    <2> QED BY <2>1, <2>2
<1>2. Gate!OnlySustainedAbuse'
    BY DEF AbuseInv, Gate!OnlySustainedAbuse, Gate!Abusive
<1> QED BY <1>1, <1>2 DEF AbuseInv
(* A message within the limit counts in the bucket, or begins a window.    *)
LEMMA MessageWithinStep ==
    ASSUME AbuseInv, NEW s \in Sockets, Gate!MessageWithin(s), UNCHANGED <<now, limited>>
    PROVE  AbuseInv'
<1> DEFINE i == IpOf[s]
           b == bucket[i]
           new == [at |-> now, over |-> FALSE]
<1> USE DEF AbuseInv
<1>1. /\ bucket' = [bucket EXCEPT ![i] = Gate!Counted(b)]
      /\ log' = IF Gate!InWindow(b) THEN log ELSE [log EXCEPT ![i] = Append(log[i], new)]
    BY DEF Gate!MessageWithin
<1>2. i \in Ips /\ b \in Buckets /\ now \in Nat
    BY GatewayAssumption
<1>3. CurrentWindow(i) /\ log[i] \in Seq(Windows) /\ Len(log[i]) \in Nat
    BY <1>2
<1>4. PICK W : StruckIn(i, W)
    BY <1>2
<1> DEFINE n == Len(log[i])
<1>5. CASE Gate!InWindow(b)
    <2> DEFINE c == [b EXCEPT !.count = b.count + 1]
    <2>1. b.count > 0 /\ Gate!Counted(b) = c
        BY <1>5, <1>2 DEF Gate!InWindow, Gate!Counted, Buckets
    <2>2. c \in Buckets /\ c.count > 0 /\ c.start = b.start /\ c.strikes = b.strikes
          /\ c.last = b.last /\ c.struck = b.struck
        <3>1. b.count + 1 \in Nat /\ b.count + 1 > 0
            BY <1>2 DEF Buckets
        <3>2. c.count = b.count + 1 /\ c.start = b.start /\ c.strikes = b.strikes
              /\ c.last = b.last /\ c.struck = b.struck
            BY <1>2 DEF Buckets
        <3>3. c \in Buckets
            BY <1>2, <3>1 DEF Buckets
        <3> QED BY <3>1, <3>2, <3>3
    <2> HIDE DEF c
    <2>3. /\ bucket'[i] = c /\ log' = log /\ bucket' \in [Ips -> Buckets]
          /\ \A j \in Ips \ {i} : bucket'[j] = bucket[j]
        BY <1>1, <1>2, <1>5, <2>1, <2>2
    <2>4. StruckIn(i, W)' /\ CurrentWindow(i)'
        BY <1>3, <1>4, <2>1, <2>2, <2>3 DEF StruckIn, CurrentWindow, Gate!Abusive
    <2>5. \A j \in Ips : CurrentWindow(j)' /\ (\E V : StruckIn(j, V))'
        BY <2>3, <2>4, QuietAddress
    <2>6. Gate!OnlySustainedAbuse'
        BY <2>3 DEF Gate!OnlySustainedAbuse, Gate!Abusive
    <2> QED BY <2>3, <2>5, <2>6
<1>6. CASE ~Gate!InWindow(b)
    <2> DEFINE c == Gate!Counted(b)
    <2>1. /\ c \in Buckets /\ c.count = 1 /\ c.start = now /\ c.struck = FALSE
          /\ c.last =< now /\ (c.strikes = 0 \/ (c.strikes = b.strikes /\ c.last = b.last))
        <3>1. CASE b.count = 0
            <4>1. c = Gate!NewBucket(now)
                BY <3>1 DEF Gate!Counted
            <4> QED BY <1>2, <4>1, GatewayAssumption DEF Gate!NewBucket, Buckets
        <3>2. CASE b.count # 0
            <4>1. c = [Gate!NewBucket(now) EXCEPT !.strikes = Gate!Decayed(b), !.last = b.last]
                BY <1>6, <3>2 DEF Gate!Counted
            <4>2. Gate!Decayed(b) \in {0, b.strikes} /\ b.strikes \in 0..Strikes
                  /\ b.last \in Nat /\ b.last =< now
                BY <1>2, <1>3 DEF Gate!Decayed, Buckets, CurrentWindow
            <4>3. /\ c.count = 1 /\ c.start = now /\ c.struck = FALSE
                  /\ c.strikes = Gate!Decayed(b) /\ c.last = b.last
                  /\ c = [count |-> 1, start |-> now, strikes |-> Gate!Decayed(b),
                          last |-> b.last, struck |-> FALSE]
                BY <4>1 DEF Gate!NewBucket
            <4>4. c \in Buckets
                BY <1>2, <4>2, <4>3, GatewayAssumption DEF Buckets
            <4> QED BY <4>2, <4>3, <4>4
        <3> QED BY <3>1, <3>2
    <2> HIDE DEF c
    <2>2. /\ bucket'[i] = c /\ bucket' \in [Ips -> Buckets]
          /\ log' = [log EXCEPT ![i] = Append(log[i], new)]
          /\ \A j \in Ips \ {i} : bucket'[j] = bucket[j]
        BY <1>1, <1>2, <1>6, <2>1 DEF c
    <2>3. new \in Windows /\ log'[i] = Append(log[i], new)
        BY <1>2, <2>2 DEF Windows
    <2>4. /\ log' \in [Ips -> Seq(Windows)] /\ \A j \in Ips \ {i} : log'[j] = log[j]
          /\ Len(log'[i]) = n + 1 /\ log'[i][n + 1] = new
          /\ \A k \in 1..n : log'[i][k] = log[i][k]
        BY <1>2, <1>3, <2>2, <2>3
    <2> HIDE DEF new
    <2>5. new.at = now /\ new.over = FALSE
        BY DEF new
    <2>6. LogGrows(i) /\ \A j \in Ips : LogGrows(j)
        <3>1. LogGrows(i)
            BY <1>3, <2>4 DEF LogGrows
        <3>2. ASSUME NEW j \in Ips \ {i} PROVE LogGrows(j)
            BY <2>4 DEF LogGrows
        <3> QED BY <3>1, <3>2
    <2>7. CurrentWindow(i)'
        BY <1>3, <2>1, <2>2, <2>4, <2>5 DEF CurrentWindow
    <2>8. (\E V : StruckIn(i, V))'
        <3>1. CASE c.strikes = 0
            BY <1>2, <2>2, <3>1, NoStrikes
        <3>2. CASE c.strikes # 0
            <4>1. c.strikes = b.strikes /\ c.last = b.last
                BY <2>1, <3>2
            <4>2. W \in SUBSET (1..n) /\ Cardinality(W) = c.strikes /\ Gate!Abusive(i, W)
                BY <1>4, <4>1 DEF StruckIn
            <4>3. Gate!Abusive(i, W)' /\ W \in SUBSET (1..Len(log'[i]))
                BY <2>6, <4>2, AbusiveStays
            <4>4. ASSUME c.strikes \in 1..(Strikes - 1)
                  PROVE  \E k \in W : /\ \A j \in W : j =< k
                                      /\ c.last - log'[i][k].at =< Window
                                      /\ k < Len(log'[i])
                <5>1. PICK k \in W : /\ \A j \in W : j =< k
                                     /\ b.last - log[i][k].at =< Window
                    BY <1>4, <4>1, <4>4 DEF StruckIn
                <5>2. k \in 1..n /\ k < n + 1
                    BY <1>3, <4>2
                <5> QED BY <2>4, <4>1, <5>1, <5>2
            <4>5. StruckIn(i, W)'
                BY <2>2, <4>2, <4>3, <4>4 DEF StruckIn
            <4> QED BY <4>5
        <3> QED BY <3>1, <3>2
    <2>9. \A j \in Ips : CurrentWindow(j)' /\ (\E V : StruckIn(j, V))'
        BY <2>2, <2>4, <2>7, <2>8, QuietAddress
    <2>10. Gate!OnlySustainedAbuse'
        BY <2>6, StaysClosedRightly DEF Gate!OnlySustainedAbuse, ClosedRightly
    <2> QED BY <2>2, <2>4, <2>9, <2>10
<1> QED BY <1>5, <1>6

(* What a strike makes of the windows: the current one joins them if the   *)
(* last strike has not decayed, and stands alone if it has.                *)
LEMMA StrikeJoins ==
    ASSUME AbuseInv, NEW i \in Ips, NEW W, StruckIn(i, W),
           Gate!Over(bucket[i]), ~bucket[i].struck,
           bucket'[i] = Gate!Struck(bucket[i]), now' = now,
           LogGrows(i), Len(log'[i]) = Len(log[i]), log'[i][Len(log[i])].over
    PROVE  (\E V : StruckIn(i, V))'
<1> DEFINE b == bucket[i]
           n == Len(log[i])
           c == bucket'[i]
<1> USE DEF AbuseInv
<1>1. b \in Buckets /\ CurrentWindow(i) /\ now \in Nat /\ Strikes \in Nat \ {0}
    BY GatewayAssumption
<1>2. /\ c.strikes = Gate!OneMore(b) /\ c.last = now /\ c.struck = TRUE
    BY <1>1 DEF Gate!Struck, Buckets
<1>3. n \in 1..n /\ log[i][n].at = b.start /\ now - b.start =< Window /\ n \in Nat \ {0}
    BY <1>1 DEF CurrentWindow, LogGrows, Gate!Over, Gate!InWindow
<1>4. log'[i][n].at = b.start /\ b.start \in Nat
    BY <1>1, <1>3 DEF LogGrows, Buckets
<1>5. /\ Cardinality(W) = b.strikes /\ W \in SUBSET (1..n)
      /\ Gate!Abusive(i, W)' /\ IsFiniteSet(W)
    <2>1. W \in SUBSET (1..n) /\ Gate!Abusive(i, W) /\ Cardinality(W) = b.strikes
        BY DEF StruckIn
    <2>2. IsFiniteSet(W)
        <3>1. IsFiniteSet(1..n)
            BY <1>3, FS_Interval
        <3> QED BY <2>1, <3>1, FS_Subset
    <2> QED BY <2>1, <2>2, AbusiveStays
<1>6. CASE Gate!Decayed(b) = 0
    <2> DEFINE V == {n}
    <2>1. c.strikes = 1
        BY <1>1, <1>2, <1>6 DEF Gate!OneMore
    <2>2. Cardinality(V) = 1 /\ V \subseteq 1..n
        BY <1>3, FS_Singleton
    <2>3. Gate!Abusive(i, V)'
        BY <1>3 DEF Gate!Abusive
    <2>4. \A j \in V : j =< n
        BY <1>3
    <2>5. StruckIn(i, V)'
        BY <1>2, <1>3, <1>4, <2>1, <2>2, <2>3, <2>4 DEF StruckIn
    <2> QED BY <2>5
<1>7. CASE Gate!Decayed(b) = Strikes
    <2>1. c.strikes = Strikes /\ b.strikes = Strikes
        BY <1>1, <1>2, <1>7 DEF Gate!OneMore, Gate!Decayed
    <2>2. StruckIn(i, W)'
        BY <1>1, <1>5, <2>1 DEF StruckIn
    <2> QED BY <2>2
<1>8. CASE Gate!Decayed(b) # 0 /\ Gate!Decayed(b) # Strikes
    <2> DEFINE V == W \cup {n}
    <2>1. /\ Gate!Decayed(b) = b.strikes /\ b.strikes \in 1..(Strikes - 1)
          /\ now - b.last =< Decay /\ c.strikes = b.strikes + 1
        <3>1. b.strikes \in 0..Strikes /\ b.last \in Nat /\ Decay \in Nat
            BY <1>1, GatewayAssumption DEF Buckets
        <3>2. Gate!Decayed(b) = b.strikes /\ b.strikes # 0 /\ ~(now - b.last > Decay)
            BY <1>8, <3>1 DEF Gate!Decayed
        <3>3. c.strikes = b.strikes + 1
            BY <1>2, <1>8, <3>2 DEF Gate!OneMore
        <3> QED BY <1>1, <1>8, <3>1, <3>2, <3>3
    <2>2. PICK k \in W : /\ \A j \in W : j =< k
                         /\ b.last - log[i][k].at =< Window
                         /\ k < n
        BY <2>1 DEF StruckIn
    <2>3. k \in 1..n /\ log[i][k].at \in Nat /\ log'[i][k].at = log[i][k].at
        <3>1. k \in 1..n
            BY <1>5, <2>2
        <3>2. log[i][k] \in Windows
            BY <3>1
        <3> QED BY <3>1, <3>2 DEF LogGrows, Windows
    <2>4. log'[i][n].at - log'[i][k].at =< Decay + Window
        <3>1. b.last \in Nat /\ Decay \in Nat /\ Window \in Nat /\ b.start \in Nat
            BY <1>1, GatewayAssumption DEF Buckets
        <3>2. b.start =< now /\ now \in Nat
            BY <1>1 DEF CurrentWindow
        <3>4. now - b.last =< Decay /\ b.last - log[i][k].at =< Window
            BY <2>1, <2>2
        <3>5. log[i][k].at \in Nat
            BY <2>3
        <3>3. b.start - log[i][k].at =< Decay + Window
            BY ONLY <3>1, <3>2, <3>4, <3>5
        <3> QED BY ONLY <1>4, <2>3, <3>3
    <2>5. \A j \in W : j \in 1..n /\ j =< k
        BY <1>5, <2>2
    <2>6. n \notin W /\ V \subseteq 1..n /\ \A j \in V : j =< n
        <3>1. n \notin W
            BY <1>3, <2>2, <2>3, <2>5
        <3>2. \A j \in V : j \in 1..n
            BY <1>3, <2>5
        <3> QED BY <1>3, <3>1, <3>2
    <2>7. Cardinality(V) = c.strikes
        BY <1>5, <2>1, <2>6, FS_AddElement
    <2>8. Gate!Abusive(i, V)'
        <3>1. \A v \in V : log'[i][v].over
            BY <1>5 DEF Gate!Abusive
        <3>2. ASSUME NEW v \in V, NEW w \in V, w > v
              PROVE  \E j \in V : j > v /\ log'[i][j].at - log'[i][v].at =< Decay + Window
            <4>1. v \in W
                BY <1>3, <2>5, <3>2
            <4>2. CASE \E j \in W : j > v
                BY <1>5, <4>1, <4>2 DEF Gate!Abusive
            <4>3. CASE ~\E j \in W : j > v
                <5>1. v = k
                    BY <2>2, <2>3, <2>5, <4>1, <4>3
                <5> QED BY <1>3, <2>2, <2>3, <2>4, <5>1
            <4> QED BY <4>2, <4>3
        <3> QED BY <3>1, <3>2 DEF Gate!Abusive
    <2>9. StruckIn(i, V)'
        BY <1>2, <1>3, <1>4, <2>6, <2>7, <2>8 DEF StruckIn
    <2> QED BY <2>9
<1> QED BY <1>6, <1>7, <1>8
(* A message over the limit: a strike for the window, unless it has one,   *)
(* and the end of the connection if there are enough.                      *)
LEMMA MessageLimitedStep ==
    ASSUME AbuseInv, NEW s \in Sockets, Gate!MessageLimited(s)
    PROVE  AbuseInv'
<1> DEFINE i == IpOf[s]
           b == bucket[i]
           c == Gate!Struck(b)
           n == Len(log[i])
           full == [log[i][n] EXCEPT !.over = TRUE]
<1> USE DEF AbuseInv
<1>1. /\ Gate!Over(b) /\ bucket' = [bucket EXCEPT ![i] = c]
      /\ log' = [log EXCEPT ![i] = [log[i] EXCEPT ![n] = full]]
      /\ limited' = IF c.strikes >= Strikes THEN limited \cup {s} ELSE limited
      /\ now' = now
    BY DEF Gate!MessageLimited
<1>2. /\ i \in Ips /\ b \in Buckets /\ now \in Nat /\ CurrentWindow(i)
      /\ log[i] \in Seq(Windows) /\ Strikes \in Nat \ {0}
    BY GatewayAssumption
<1>3. n \in 1..n /\ log[i][n] \in Windows /\ n \in Nat
    BY <1>1, <1>2 DEF CurrentWindow, Gate!Over, Gate!InWindow
<1>4. full \in Windows /\ full.at = log[i][n].at /\ full.over = TRUE
    BY <1>3 DEF Windows
<1>5. c \in Buckets /\ c.start = b.start /\ c.count = b.count /\ c.last =< now
      /\ c.struck
    <2>1. CASE b.struck
        BY <1>2, <2>1 DEF Gate!Struck, CurrentWindow
    <2>2. CASE ~b.struck
        <3>1. Gate!OneMore(b) \in 0..Strikes
            BY <1>2 DEF Gate!OneMore, Gate!Decayed, Buckets
        <3>2. c = [count |-> b.count, start |-> b.start, strikes |-> Gate!OneMore(b),
                   last |-> now, struck |-> TRUE]
            BY <1>2, <2>2 DEF Gate!Struck, Buckets
        <3> HIDE DEF c
        <3> QED BY <1>2, <3>1, <3>2 DEF Buckets
    <2> QED BY <2>1, <2>2
<1> HIDE DEF c, full
<1>6. /\ bucket'[i] = c /\ bucket' \in [Ips -> Buckets]
      /\ \A j \in Ips \ {i} : bucket'[j] = bucket[j]
    BY <1>1, <1>2, <1>5
<1>7. /\ log'[i] = [log[i] EXCEPT ![n] = full] /\ log' \in [Ips -> Seq(Windows)]
      /\ \A j \in Ips \ {i} : log'[j] = log[j]
    <2>1. [log[i] EXCEPT ![n] = full] \in Seq(Windows)
        BY <1>2, <1>3, <1>4
    <2> QED BY <1>1, <1>2, <2>1
<1>8. /\ Len(log'[i]) = n /\ log'[i][n] = full
      /\ \A k \in 1..n : k # n => log'[i][k] = log[i][k]
    BY <1>2, <1>3, <1>7
<1>9. LogGrows(i) /\ \A j \in Ips : LogGrows(j)
    <2>1. LogGrows(i)
        BY <1>3, <1>4, <1>8 DEF LogGrows
    <2>2. ASSUME NEW j \in Ips \ {i} PROVE LogGrows(j)
        BY <1>7 DEF LogGrows
    <2> QED BY <2>1, <2>2
<1>10. CurrentWindow(i)'
    BY <1>1, <1>2, <1>3, <1>4, <1>5, <1>6, <1>8 DEF CurrentWindow, Gate!Over, Gate!InWindow
<1>11. PICK W : StruckIn(i, W)
    BY <1>2
<1>12. (\E V : StruckIn(i, V))'
    <2>1. CASE b.struck
        <3>1. c = b
            BY <2>1 DEF Gate!Struck, c
        <3>2. Gate!Abusive(i, W)' /\ W \in SUBSET (1..n)
            BY <1>9, <1>11, AbusiveStays DEF StruckIn
        <3>3. ASSUME b.strikes \in 1..(Strikes - 1)
              PROVE  \E k \in W : /\ \A j \in W : j =< k
                                  /\ b.last - log'[i][k].at =< Window
            <4>1. PICK k \in W : /\ \A j \in W : j =< k
                                 /\ b.last - log[i][k].at =< Window
                BY <1>11, <3>3 DEF StruckIn
            <4>2. log'[i][k].at = log[i][k].at
                BY <1>9, <3>2 DEF LogGrows
            <4> QED BY <4>1, <4>2
        <3>4. StruckIn(i, W)'
            BY <1>6, <1>8, <1>11, <2>1, <3>1, <3>2, <3>3 DEF StruckIn
        <3> QED BY <3>4
    <2>2. CASE ~b.struck
        BY <1>1, <1>2, <1>4, <1>6, <1>8, <1>9, <1>11, <2>2, StrikeJoins DEF c
    <2> QED BY <2>1, <2>2
<1>13. \A j \in Ips : CurrentWindow(j)' /\ (\E V : StruckIn(j, V))'
    BY <1>1, <1>2, <1>6, <1>7, <1>10, <1>12, QuietAddress
<1>14. \A t \in limited' : ClosedRightly(t)'
    <2>1. ASSUME NEW t \in limited PROVE ClosedRightly(t)'
        BY <1>9, StaysClosedRightly
    <2>2. ASSUME c.strikes >= Strikes PROVE ClosedRightly(s)'
        <3>1. PICK V : StruckIn(i, V)'
            BY <1>12
        <3>2. c.strikes = Strikes
            BY <1>2, <1>5, <2>2 DEF Buckets
        <3>3. V \in SUBSET (1..Len(log'[i])) /\ Gate!Cardinality(V) = Strikes
              /\ Gate!Abusive(i, V)'
            BY <1>6, <3>1, <3>2, SameCount DEF StruckIn
        <3> QED BY <3>3 DEF ClosedRightly
    <2> QED BY <1>1, <2>1, <2>2
<1>15. Gate!OnlySustainedAbuse'
    BY <1>14 DEF Gate!OnlySustainedAbuse, ClosedRightly
<1>16. limited' \subseteq Sockets
    BY <1>1
<1> QED BY <1>1, <1>6, <1>7, <1>13, <1>15, <1>16

(* Every step of the gateway keeps its windows and closures in order.      *)
LEMMA AbuseStep ==
    ASSUME AbuseInv, Gate!Next
    PROVE  AbuseInv'
<1>1. ASSUME UNCHANGED <<now, bucket, log, limited>> PROVE AbuseInv'
    BY <1>1, AbuseQuietStep DEF AbuseInv
<1>2. CASE Gate!Tick
    BY <1>2, AbuseQuietStep DEF AbuseInv, Gate!Tick
<1>3. CASE Gate!Heartbeat \/ Gate!Exit
    BY <1>1, <1>3 DEF Gate!Heartbeat, Gate!Exit
<1>4. ASSUME NEW s \in Sockets,
             \/ Gate!Connect(s) \/ Gate!PeerLeaves(s) \/ Gate!CloseEnds(s)
             \/ Gate!ErrorEvent(s) \/ Gate!Pong(s) \/ Gate!GoesSilent(s)
      PROVE  AbuseInv'
    BY <1>1, <1>4 DEF Gate!Connect, Gate!PeerLeaves, Gate!CloseEnds, Gate!Closed,
                      Gate!ErrorEvent, Gate!Pong, Gate!GoesSilent
<1>5. ASSUME NEW s \in Sockets, Gate!MessagePasses(s) \/ Gate!MessageInvalid(s)
      PROVE  AbuseInv'
    BY <1>5, MessageWithinStep DEF Gate!MessagePasses, Gate!MessageInvalid
<1>6. ASSUME NEW s \in Sockets, Gate!MessageLimited(s) PROVE AbuseInv'
    BY <1>6, MessageLimitedStep
<1>7. Gate!NoBucket \in Buckets
    BY GatewayAssumption DEF Gate!NoBucket, Buckets
<1>8. ASSUME NEW i \in Ips, Gate!DropBucket(i) PROVE AbuseInv'
    BY <1>7, <1>8, AbuseDropStep DEF Gate!DropBucket, AbuseInv
<1>9. CASE Gate!ShutDown
    BY <1>7, <1>9, AbuseDropStep DEF Gate!ShutDown, AbuseInv
<1> QED BY <1>2, <1>3, <1>4, <1>5, <1>6, <1>8, <1>9 DEF Gate!Next
-----------------------------------------------------------------------------
(* The updates of a user.  The chain of promises serialises them: that no  *)
(* two write at once follows from the order in which they joined it.  As   *)
(* long as nothing came in between, the entry in the cache is what the     *)
(* updates ask for, and the row follows it.                                *)

Unfinished(u) == update[u].stage \in {"asked", "writing"} /\ update[u].prev # -1

(* The chain: an update waits for the last one before it, which covers all *)
(* unfinished ones, and the tail covers all of them.                       *)
ChainOrdered ==
    /\ \A u, v \in Updates : v < u /\ update[u].stage # "new" => update[v].stage # "new"
    /\ \A u \in Updates :
         /\ update[u].stage = "asked" => update[u].prev # -1
         /\ update[u].prev \in Updates =>
              update[update[u].prev].stage # "new" /\ update[update[u].prev].prev # -1
         /\ Unfinished(u) => u =< tail
         /\ Unfinished(u) => \A v \in Updates : v < u /\ Unfinished(v) => v =< update[u].prev
         /\ update[u].stage \in {"writing", "over"} /\ update[u].prev # -1 =>
              \A v \in Updates : v < u => ~Unfinished(v)
    /\ tail # 0 => update[tail].stage # "new" /\ update[tail].prev # -1

(* Undisturbed, the cache has the latest values, one write at most is on   *)
(* its way, with these values, and without one the row has them.           *)
CacheLeads ==
    /\ \A u, v \in Updates :
         update[u].stage = "writing" /\ update[v].stage = "writing" => u = v
    /\ \A u \in Updates : update[u].stage = "writing" => update[u].next = latest
    /\ (\A u \in Updates : update[u].stage # "writing") => row = latest
    /\ cache # User!NoConfig => cache = latest

(* Undisturbed, nothing has happened to a user who is not in the cache.    *)
UncachedUntouched ==
    cache = User!NoConfig =>
        /\ row = User!Stored /\ latest = User!Stored /\ events = <<>>
        /\ \A u \in Updates : update[u].stage # "writing"
        /\ loading.stage = "read" => loading.read = User!Stored
        /\ looking.stage = "read" => looking.read = User!Stored

(* What is written is a configuration.                                     *)
WritesAreConfigs ==
    \A u \in Updates : update[u].stage = "writing" => update[u].next \in User!Configs

UserInv ==
    /\ User!TypeOK
    /\ ChainOrdered
    /\ WritesAreConfigs
    /\ disturbed = {} => CacheLeads /\ UncachedUntouched

Stages == {"new", "asked", "writing", "over"}
UpdateStates == [stage : Stages, prev : Updates \cup {-1, 0},
                 next : User!Configs \cup {User!NoConfig}]
Reads == [stage : {"asked", "read", "over"}, read : User!Configs \cup {User!NoConfig}]

(* No configuration is taken for a missing one.                            *)
LEMMA ConfigsAreConfigs ==
    /\ User!Default \in User!Configs /\ User!Stored \in User!Configs
    /\ User!NoConfig \notin User!Configs
    /\ User!Stored # User!NoConfig
<1>1. User!Default \in User!Configs /\ User!Stored \in User!Configs
    BY DEF User!Default, User!Stored, User!Configs
<1>2. User!NoConfig \notin User!Configs
    <2>1. User!NoConfig[Mode] = -2 /\ -2 \notin Updates \cup {-1, 0}
        BY UserAssumption DEF User!NoConfig
    <2>2. \A c \in User!Configs : c[Mode] \in Updates \cup {-1, 0}
        BY UserAssumption DEF User!Configs
    <2> QED BY <2>1, <2>2
<1> QED BY <1>1, <1>2

LEMMA KnownConfig ==
    ASSUME User!TypeOK
    PROVE  /\ User!Known \in User!Configs
           /\ cache # User!NoConfig => User!Known = cache /\ cache \in User!Configs
BY ConfigsAreConfigs DEF User!TypeOK, User!Known

(* The type invariant of the model in a form with names for its parts.     *)
LEMMA UserTypes ==
    User!TypeOK <=>
        /\ cache \in User!Configs \cup {User!NoConfig} /\ row \in User!Configs
        /\ update \in [Updates -> UpdateStates]
        /\ tail \in Updates \cup {0}
        /\ loading \in Reads /\ looking \in Reads
        /\ events \in Seq(User!Configs)
        /\ latest \in [Fields -> Updates \cup {0}]
        /\ disturbed \subseteq {"read", "event", "miss", "reset", "lost"}
BY DEF User!TypeOK, UpdateStates, Reads, Stages

(* A row that comes into the cache disturbs nothing only if the cache has  *)
(* it already or has no entry yet.                                         *)
LEMMA PutIntoCacheStep ==
    ASSUME UserInv, NEW config, NEW cause \in {"read", "event"},
           User!PutIntoCache(config, cause),
           config \in User!Configs \cup {User!NoConfig},
           cache = User!NoConfig /\ disturbed = {} => config = User!Stored,
           loading' \in {loading, User!Over}, looking' \in {looking, User!Over},
           events' \in Seq(User!Configs), events = <<>> => events' = <<>>,
           UNCHANGED <<row, update, tail, latest>>
    PROVE  UserInv'
<1> USE DEF UserInv
<1>1. /\ cache' = config
      /\ disturbed' = IF cache \notin {User!NoConfig, config} THEN disturbed \cup {cause}
                      ELSE disturbed
    BY DEF User!PutIntoCache, User!Marked
<1>2. User!Over \in Reads /\ User!Over.stage = "over"
    BY DEF User!Over, Reads
<1>3. User!TypeOK'
    <2>1. disturbed' \subseteq {"read", "event", "miss", "reset", "lost"}
        BY <1>1, UserTypes
    <2>2. loading' \in Reads /\ looking' \in Reads
        BY <1>2, UserTypes
    <2> QED BY <1>1, <2>1, <2>2 DEF User!TypeOK, Reads
<1>4. ChainOrdered' /\ WritesAreConfigs'
    BY DEF ChainOrdered, Unfinished, WritesAreConfigs
<1>5. ASSUME disturbed' = {}
      PROVE  CacheLeads' /\ UncachedUntouched'
    <2>1. disturbed = {} /\ cache \in {User!NoConfig, config}
        BY <1>1, <1>5
    <2>2. CASE cache = User!NoConfig
        <3>1. cache' = User!Stored /\ latest = User!Stored /\ cache' # User!NoConfig
            BY <1>1, <2>1, <2>2, ConfigsAreConfigs DEF UncachedUntouched
        <3> QED BY <2>1, <3>1 DEF CacheLeads, UncachedUntouched
    <2>3. CASE cache # User!NoConfig
        <3>1. cache' = cache
            BY <1>1, <2>1, <2>3
        <3> QED BY <2>1, <2>3, <3>1 DEF CacheLeads, UncachedUntouched
    <2> QED BY <2>2, <2>3
<1> QED BY <1>3, <1>4, <1>5

(* The load, the look-up and the change events.                            *)
LEMMA UserReadStep ==
    ASSUME UserInv,
           \/ User!LoadReads \/ User!LoadArrives \/ User!LookUp \/ User!LookUpReads
           \/ User!LookUpArrives \/ User!GetConfig \/ User!EventArrives \/ User!EventLost
    PROVE  UserInv'
<1> USE DEF UserInv
<1>1. /\ User!Over \in Reads /\ User!Over.stage = "over"
      /\ User!Asked \in Reads /\ User!Asked.stage = "asked"
    BY DEF User!Over, User!Asked, Reads
<1>2. row \in User!Configs /\ loading \in Reads /\ looking \in Reads
      /\ events \in Seq(User!Configs)
    BY UserTypes
<1>3. [stage |-> "read", read |-> row] \in Reads
    BY <1>2 DEF Reads
<1>4. CASE User!LoadReads
    <2>1. /\ loading' \in {User!Over, [stage |-> "read", read |-> row]}
          /\ UNCHANGED <<cache, row, update, tail, looking, events, latest, disturbed>>
        BY <1>4 DEF User!LoadReads
    <2>2. User!TypeOK'
        BY <1>1, <1>3, <2>1 DEF User!TypeOK, Reads
    <2> QED BY <1>1, <2>1, <2>2 DEF ChainOrdered, Unfinished, WritesAreConfigs, CacheLeads,
                                    UncachedUntouched
<1>5. CASE User!LookUpReads \/ User!LookUp
    <2>1. /\ looking' \in {User!Asked, [stage |-> "read", read |-> row]}
          /\ UNCHANGED <<cache, row, update, tail, loading, events, latest, disturbed>>
        BY <1>5 DEF User!LookUpReads, User!LookUp
    <2>2. User!TypeOK'
        BY <1>1, <1>3, <2>1 DEF User!TypeOK, Reads
    <2> QED BY <1>1, <2>1, <2>2 DEF ChainOrdered, Unfinished, WritesAreConfigs, CacheLeads,
                                    UncachedUntouched
<1>6. CASE User!LoadArrives
    <2>1. /\ User!PutIntoCache(loading.read, "read") /\ loading' = User!Over
          /\ loading.stage = "read" /\ UNCHANGED <<row, update, tail, looking, events, latest>>
        BY <1>6 DEF User!LoadArrives
    <2>2. loading.read \in User!Configs \cup {User!NoConfig}
        BY <1>2 DEF Reads
    <2>3. cache = User!NoConfig /\ disturbed = {} => loading.read = User!Stored
        BY <2>1 DEF UncachedUntouched
    <2> QED BY <1>2, <2>1, <2>2, <2>3, PutIntoCacheStep
<1>7. CASE User!LookUpArrives
    <2>1. /\ User!PutIntoCache(looking.read, "read") /\ looking' = User!Over
          /\ looking.stage = "read" /\ UNCHANGED <<row, update, tail, loading, events, latest>>
        BY <1>7 DEF User!LookUpArrives
    <2>2. looking.read \in User!Configs \cup {User!NoConfig}
        BY <1>2 DEF Reads
    <2>3. cache = User!NoConfig /\ disturbed = {} => looking.read = User!Stored
        BY <2>1 DEF UncachedUntouched
    <2> QED BY <1>2, <2>1, <2>2, <2>3, PutIntoCacheStep
<1>8. CASE User!EventArrives
    <2>1. /\ events # <<>> /\ User!PutIntoCache(Head(events), "event") /\ events' = Tail(events)
          /\ UNCHANGED <<row, update, tail, loading, looking, latest>>
        BY <1>8 DEF User!EventArrives
    <2>2. Head(events) \in User!Configs /\ events' \in Seq(User!Configs)
        BY <1>2, <2>1
    <2>3. ~(cache = User!NoConfig /\ disturbed = {})
        BY <2>1 DEF UncachedUntouched
    <2> QED BY <2>1, <2>2, <2>3, PutIntoCacheStep
<1>9. CASE User!EventLost
    <2>1. /\ events # <<>> /\ events' = Tail(events)
          /\ UNCHANGED <<cache, row, update, tail, loading, looking, latest, disturbed>>
        BY <1>9 DEF User!EventLost
    <2>2. User!TypeOK'
        BY <1>2, <2>1 DEF User!TypeOK
    <2> QED BY <2>1, <2>2 DEF ChainOrdered, Unfinished, WritesAreConfigs, CacheLeads,
                                    UncachedUntouched
<1>10. CASE User!GetConfig
    <2>1. /\ cache' = User!Default /\ disturbed' = disturbed \cup {"miss"}
          /\ UNCHANGED <<row, update, tail, loading, looking, events, latest>>
        BY <1>10 DEF User!GetConfig, User!Marked
    <2>2. User!TypeOK'
        BY <2>1, ConfigsAreConfigs DEF User!TypeOK
    <2> QED BY <2>1, <2>2 DEF ChainOrdered, Unfinished, WritesAreConfigs
<1> QED BY <1>4, <1>5, <1>6, <1>7, <1>8, <1>9, <1>10

(* An update is asked for, and joins the chain at its end.                 *)
LEMMA AskStep ==
    ASSUME UserInv, NEW u \in Updates, User!Ask(u)
    PROVE  UserInv'
<1> USE DEF UserInv
<1> DEFINE x == [update[u] EXCEPT !.stage = "asked", !.prev = tail]
<1>1. /\ update[u].stage = "new" /\ \A v \in Updates : v < u => update[v].stage # "new"
      /\ update' = [update EXCEPT ![u] = x] /\ tail' = u
      /\ UNCHANGED <<cache, row, loading, looking, events, latest, disturbed>>
    BY DEF User!Ask, User!IsNext
<1>2. update \in [Updates -> UpdateStates] /\ tail \in Updates \cup {0} /\ Updates \subseteq Nat \ {0}
    BY UserTypes, UserAssumption
<1>3. x \in UpdateStates /\ x.stage = "asked" /\ x.prev = tail /\ x.next = update[u].next
    BY <1>2 DEF UpdateStates, Stages
<1> HIDE DEF x
<1>4. update'[u] = x /\ \A v \in Updates \ {u} : update'[v] = update[v]
    BY <1>1, <1>2
<1>5. User!TypeOK'
    <2>1. update' \in [Updates -> UpdateStates]
        BY <1>1, <1>2, <1>3
    <2> QED BY <1>1, <2>1 DEF User!TypeOK, UpdateStates, Stages
<1>6. ChainOrdered'
    <2>1. tail # 0 => update[tail].stage # "new" /\ update[tail].prev # -1 /\ tail # u
        BY <1>1 DEF ChainOrdered
    <2>2. tail # -1 /\ u # 0
        BY <1>2
    <2>3. \A v \in Updates : /\ Unfinished(v)' => v = u \/ (v # u /\ Unfinished(v))
                             /\ v # u => (Unfinished(v)' <=> Unfinished(v))
        BY <1>4 DEF Unfinished
    <2>4. \A v \in Updates : update[v].stage # "new" => v < u
        BY <1>1, <1>2 DEF ChainOrdered
    <2>5. \A v, w \in Updates : w < v /\ update'[v].stage # "new" => update'[w].stage # "new"
        BY <1>1, <1>2, <1>3, <1>4 DEF ChainOrdered
    <2>6. ASSUME NEW v \in Updates
          PROVE  /\ update'[v].stage = "asked" => update'[v].prev # -1
                 /\ update'[v].prev \in Updates =>
                      update'[update'[v].prev].stage # "new" /\ update'[update'[v].prev].prev # -1
        <3>1. CASE v = u
            <4>1. update'[v].prev = tail /\ tail # -1
                BY <1>3, <1>4, <2>2, <3>1
            <4>2. tail \in Updates => tail # 0 /\ tail # u
                BY <1>2, <2>1
            <4>3. tail \in Updates => update'[tail] = update[tail]
                BY <1>4, <4>2
            <4> QED BY <2>1, <4>1, <4>2, <4>3
        <3>2. CASE v # u
            <4>1. update'[v] = update[v]
                BY <1>4, <3>2
            <4>2. /\ update[v].stage = "asked" => update[v].prev # -1
                  /\ update[v].prev \in Updates =>
                      update[update[v].prev].stage # "new" /\ update[update[v].prev].prev # -1
                BY DEF ChainOrdered
            <4>3. update[v].prev \in Updates => update[v].prev # u
                BY <1>1, <4>2
            <4> QED BY <1>4, <4>1, <4>2, <4>3
        <3> QED BY <3>1, <3>2
    <2>7. ASSUME NEW v \in Updates, Unfinished(v)'
          PROVE  v =< u
        <3>1. CASE v = u
            BY <1>2, <3>1
        <3>2. CASE v # u
            <4>1. update[v].stage # "new"
                BY <2>3, <2>7, <3>2 DEF Unfinished
            <4> QED BY <1>2, <2>4, <4>1
        <3> QED BY <3>1, <3>2
    <2>8. ASSUME NEW v \in Updates, Unfinished(v)', NEW w \in Updates, w < v, Unfinished(w)'
          PROVE  w =< update'[v].prev
        <3>1. w # u
            BY <1>2, <2>7, <2>8
        <3>2. Unfinished(w)
            BY <2>3, <2>8, <3>1
        <3>3. CASE v = u
            BY <1>3, <1>4, <3>2, <3>3 DEF ChainOrdered
        <3>4. CASE v # u
            BY <1>4, <2>3, <2>8, <3>2, <3>4 DEF ChainOrdered
        <3> QED BY <3>3, <3>4
    <2>9. ASSUME NEW v \in Updates, update'[v].stage \in {"writing", "over"},
                 update'[v].prev # -1, NEW w \in Updates, w < v
          PROVE  ~Unfinished(w)'
        <3>1. v # u /\ update'[v] = update[v] /\ v < u
            BY <1>3, <1>4, <2>4, <2>9
        <3>2. w # u
            BY <1>2, <2>9, <3>1
        <3> QED BY <2>3, <2>9, <3>1, <3>2 DEF ChainOrdered
    <2>10. update'[u].stage # "new" /\ update'[u].prev # -1
        BY <1>3, <1>4, <2>2
    <2> QED BY <1>1, <2>5, <2>6, <2>7, <2>8, <2>9, <2>10 DEF ChainOrdered
<1>7. ASSUME disturbed' = {} PROVE CacheLeads' /\ UncachedUntouched'
    <2>1. \A v \in Updates : /\ update'[v].next = update[v].next
                             /\ update'[v].stage = "writing" <=> update[v].stage = "writing"
        BY <1>1, <1>3, <1>4
    <2> QED BY <1>1, <1>7, <2>1 DEF CacheLeads, UncachedUntouched
<1>8. WritesAreConfigs'
    BY <1>3, <1>4 DEF WritesAreConfigs
<1> QED BY <1>5, <1>6, <1>7, <1>8

(* An update of the chain whose turn it is has none before it unfinished.  *)
LEMMA TurnMeansFirst ==
    ASSUME UserInv, NEW u \in Updates, update[u].stage = "asked", User!Turn(u),
           NEW v \in Updates, v < u
    PROVE  ~Unfinished(v)
<1>1. Updates \subseteq Nat \ {0}
    BY UserAssumption
<1>2. update[u].prev = 0 \/ (update[u].prev \in Updates /\ update[update[u].prev].stage = "over")
    BY DEF User!Turn
<1>3. Unfinished(u)
    BY DEF UserInv, ChainOrdered, Unfinished
<1>4. Unfinished(v) => v =< update[u].prev
    <2>1. ChainOrdered
        BY DEF UserInv
    <2> QED BY <1>3, <2>1 DEF ChainOrdered
<1>5. CASE update[u].prev = 0
    BY <1>1, <1>4, <1>5
<1>6. CASE update[u].prev \in Updates /\ update[update[u].prev].stage = "over"
    <2> DEFINE p == update[u].prev
    <2>1. update[p].prev # -1 /\ ~Unfinished(p)
        BY <1>6 DEF UserInv, ChainOrdered, Unfinished
    <2>2. v < p => ~Unfinished(v)
        BY <1>6, <2>1 DEF UserInv, ChainOrdered
    <2> HIDE DEF p
    <2>3. p \in Nat /\ v \in Nat
        BY <1>1, <1>6 DEF p
    <2> QED BY <1>4, <2>1, <2>2, <2>3 DEF p
<1> QED BY <1>2, <1>5, <1>6

(* An update goes on, or is over; in the chain it is the first unfinished. *)
LEMMA ProgressKeepsChain ==
    ASSUME UserInv, NEW u \in Updates, NEW x \in UpdateStates,
           update[u].stage \in {"asked", "writing"}, x.stage \in {"writing", "over"},
           x.prev = update[u].prev, update' = [update EXCEPT ![u] = x],
           update[u].prev # -1 => \A v \in Updates : v < u => ~Unfinished(v),
           \/ tail' = tail /\ (x.stage = "over" => tail # u)
           \/ tail' = tail /\ x.stage = "writing"
           \/ tail' = 0 /\ tail = u /\ x.stage = "over"
    PROVE  ChainOrdered'
<1>1. update \in [Updates -> UpdateStates] /\ tail \in Updates \cup {0} /\ Updates \subseteq Nat \ {0}
    BY UserTypes, UserAssumption DEF UserInv
<1>2. update'[u] = x /\ \A v \in Updates \ {u} : update'[v] = update[v]
    BY <1>1
<1>3. \A v \in Updates : /\ update'[v].prev = update[v].prev
                         /\ update'[v].stage = "new" <=> update[v].stage = "new"
                         /\ update'[v].stage = "asked" => update[v].stage = "asked"
                         /\ v # u => update'[v].stage = update[v].stage
    BY <1>2
<1>4. \A v \in Updates : Unfinished(v)' => Unfinished(v)
    BY <1>2, <1>3 DEF Unfinished
<1>5. \A v, w \in Updates : w < v /\ update'[v].stage # "new" => update'[w].stage # "new"
    BY <1>3 DEF UserInv, ChainOrdered
<1>6. ASSUME NEW v \in Updates
      PROVE  /\ update'[v].stage = "asked" => update'[v].prev # -1
             /\ update'[v].prev \in Updates =>
                  update'[update'[v].prev].stage # "new" /\ update'[update'[v].prev].prev # -1
    <2>1. /\ update[v].stage = "asked" => update[v].prev # -1
          /\ update[v].prev \in Updates =>
                  update[update[v].prev].stage # "new" /\ update[update[v].prev].prev # -1
        BY DEF UserInv, ChainOrdered
    <2> QED BY <1>3, <2>1
<1>7. ASSUME NEW v \in Updates, Unfinished(v)' PROVE v =< tail'
    <2>1. Unfinished(v) /\ v =< tail
        BY <1>4, <1>7 DEF UserInv, ChainOrdered
    <2>2. CASE tail' = tail
        BY <2>1, <2>2
    <2>3. CASE tail' = 0 /\ tail = u /\ x.stage = "over"
        <3>1. v # u
            BY <1>2, <1>7, <2>3 DEF Unfinished
        <3>2. u # 0 /\ update[u].prev # -1
            BY <1>1, <2>3 DEF UserInv, ChainOrdered
        <3>3. v < u
            BY <1>1, <2>1, <2>3, <3>1
        <3> QED BY <2>1, <3>2, <3>3
    <2> QED BY <2>2, <2>3
<1>8. ASSUME NEW v \in Updates, Unfinished(v)', NEW w \in Updates, w < v, Unfinished(w)'
      PROVE  w =< update'[v].prev
    BY <1>3, <1>4, <1>8 DEF UserInv, ChainOrdered
<1>9. ASSUME NEW v \in Updates, update'[v].stage \in {"writing", "over"},
             update'[v].prev # -1, NEW w \in Updates, w < v
      PROVE  ~Unfinished(w)'
    <2>1. CASE v = u
        BY <1>3, <1>4, <1>9, <2>1
    <2>2. CASE v # u
        <3>1. update[v].stage \in {"writing", "over"} /\ update[v].prev # -1
            BY <1>3, <1>9, <2>2
        <3> QED BY <1>4, <1>9, <3>1 DEF UserInv, ChainOrdered
    <2> QED BY <2>1, <2>2
<1>10. tail' # 0 => update'[tail'].stage # "new" /\ update'[tail'].prev # -1
    BY <1>1, <1>3 DEF UserInv, ChainOrdered
<1> QED BY <1>5, <1>6, <1>7, <1>8, <1>9, <1>10 DEF ChainOrdered

(* executeUpsert: the entry and the latest values change alike.            *)
LEMMA ExecuteStep ==
    ASSUME UserInv, NEW u \in Updates, NEW f \in Fields, User!Execute(u, f)
    PROVE  UserInv'
<1> USE DEF UserInv
<1> DEFINE next == [User!Known EXCEPT ![f] = u]
           x == [update[u] EXCEPT !.stage = "writing", !.next = next]
           across == \E v \in Updates : User!Outside(v) /\ update[v].stage = "writing"
<1>1. /\ update[u].stage = "asked" /\ User!Turn(u)
      /\ cache' = next /\ update' = [update EXCEPT ![u] = x]
      /\ latest' = [latest EXCEPT ![f] = u]
      /\ disturbed' = User!Meeting(across)
      /\ UNCHANGED <<row, tail, loading, looking, events>>
    BY DEF User!Execute
<1>2. next \in User!Configs /\ update \in [Updates -> UpdateStates]
    BY KnownConfig, UserTypes DEF User!Configs
<1> HIDE DEF next
<1>3. /\ x \in UpdateStates /\ x.stage = "writing" /\ x.prev = update[u].prev /\ x.next = next
    BY <1>2 DEF UpdateStates, Stages
<1> HIDE DEF x
<1>4. update'[u] = x /\ \A v \in Updates \ {u} : update'[v] = update[v]
    BY <1>1, <1>2
<1>5. \A v \in Updates : v < u => ~Unfinished(v)
    BY <1>1, TurnMeansFirst
<1>6. ChainOrdered'
    BY <1>1, <1>3, <1>5, ProgressKeepsChain
<1>7. User!TypeOK'
    <2>1. update' \in [Updates -> UpdateStates]
        BY <1>1, <1>2, <1>3
    <2>2. latest' \in [Fields -> Updates \cup {0}]
        BY <1>1, UserTypes
    <2>3. disturbed' \subseteq {"read", "event", "miss", "reset", "lost"}
        BY <1>1, UserTypes DEF User!Meeting
    <2> QED BY <1>1, <1>2, <2>1, <2>2, <2>3 DEF User!TypeOK, UpdateStates, Stages
<1>8. ASSUME disturbed' = {} PROVE CacheLeads' /\ UncachedUntouched'
    <2>1. disturbed = {} /\ cache # User!NoConfig /\ ~across
        BY <1>1, <1>8 DEF User!Meeting
    <2>2. next = latest'
        BY <1>1, <2>1, KnownConfig DEF CacheLeads, next
    <2>3. ASSUME NEW v \in Updates \ {u} PROVE update[v].stage # "writing"
        <3>1. SUFFICES ASSUME update[v].stage = "writing" PROVE FALSE
            OBVIOUS
        <3>2. Unfinished(v)
            BY <2>1, <3>1 DEF User!Outside, Unfinished
        <3>3. Unfinished(u)
            BY <1>1 DEF ChainOrdered, Unfinished
        <3>4. ~(v < u) /\ ~(u < v)
            BY <1>5, <3>1, <3>2, <3>3 DEF ChainOrdered, Unfinished
        <3> QED BY <3>4, UserAssumption
    <2>4. \A v \in Updates : update'[v].stage = "writing" <=> v = u
        BY <1>3, <1>4, <2>3
    <2>5. CacheLeads'
        BY <1>1, <1>3, <1>4, <2>2, <2>4 DEF CacheLeads
    <2>6. cache' # User!NoConfig
        BY <1>1, <1>2, ConfigsAreConfigs
    <2> QED BY <2>5, <2>6 DEF UncachedUntouched
<1>9. WritesAreConfigs'
    BY <1>2, <1>3, <1>4 DEF WritesAreConfigs
<1> QED BY <1>6, <1>7, <1>8, <1>9

(* It refuses an invalid value.                                            *)
LEMMA RefuseStep ==
    ASSUME UserInv, NEW u \in Updates, User!Refuse(u)
    PROVE  UserInv'
<1> USE DEF UserInv
<1> DEFINE x == [update[u] EXCEPT !.stage = "over"]
<1>1. /\ update[u].stage = "asked" /\ User!Turn(u)
      /\ cache' = User!Known /\ update' = [update EXCEPT ![u] = x]
      /\ disturbed' = IF cache = User!NoConfig THEN disturbed \cup {"miss"} ELSE disturbed
      /\ tail' = IF tail = u THEN 0 ELSE tail
      /\ UNCHANGED <<row, loading, looking, events, latest>>
    BY DEF User!Refuse, User!Marked
<1>2. User!Known \in User!Configs /\ update \in [Updates -> UpdateStates]
    BY KnownConfig, UserTypes
<1>3. /\ x \in UpdateStates /\ x.stage = "over" /\ x.prev = update[u].prev
    BY <1>2 DEF UpdateStates, Stages
<1> HIDE DEF x
<1>4. update'[u] = x /\ \A v \in Updates \ {u} : update'[v] = update[v]
    BY <1>1, <1>2
<1>5. \A v \in Updates : v < u => ~Unfinished(v)
    BY <1>1, TurnMeansFirst
<1>6. ChainOrdered'
    BY <1>1, <1>3, <1>5, ProgressKeepsChain
<1>7. User!TypeOK'
    <2>1. update' \in [Updates -> UpdateStates]
        BY <1>1, <1>2, <1>3
    <2>2. disturbed' \subseteq {"read", "event", "miss", "reset", "lost"}
        BY <1>1, UserTypes
    <2> QED BY <1>1, <1>2, <2>1, <2>2 DEF User!TypeOK, UpdateStates, Stages
<1>8. ASSUME disturbed' = {} PROVE CacheLeads' /\ UncachedUntouched'
    <2>1. disturbed = {} /\ cache # User!NoConfig /\ cache' = cache
        BY <1>1, <1>8, KnownConfig
    <2>2. \A v \in Updates : update'[v].stage = "writing" <=> update[v].stage = "writing"
        BY <1>1, <1>3, <1>4
    <2>3. \A v \in Updates : update'[v].stage = "writing" => update'[v].next = update[v].next
        BY <1>3, <1>4
    <2> QED BY <1>1, <2>1, <2>2, <2>3 DEF CacheLeads, UncachedUntouched
<1>9. WritesAreConfigs'
    BY <1>3, <1>4 DEF WritesAreConfigs
<1> QED BY <1>6, <1>7, <1>8, <1>9

(* A write lands or fails; an update that joined the chain was the first.  *)
LEMMA WrittenStep ==
    ASSUME UserInv, NEW u \in Updates, NEW landed \in BOOLEAN, User!Written(u, landed)
    PROVE  UserInv'
<1> USE DEF UserInv
<1> DEFINE x == [update[u] EXCEPT !.stage = "over"]
<1>1. /\ update[u].stage = "writing" /\ update' = [update EXCEPT ![u] = x]
      /\ tail' = IF tail = u THEN 0 ELSE tail
      /\ row' = IF landed THEN update[u].next ELSE row
      /\ events' = IF landed THEN Append(events, update[u].next) ELSE events
      /\ disturbed' = IF ~landed THEN disturbed \cup {"lost"} ELSE disturbed
      /\ UNCHANGED <<cache, loading, looking, latest>>
    BY DEF User!Written, User!Marked
<1>2. update \in [Updates -> UpdateStates] /\ events \in Seq(User!Configs)
      /\ row \in User!Configs
    BY UserTypes
<1>3. /\ x \in UpdateStates /\ x.stage = "over" /\ x.prev = update[u].prev
    BY <1>2 DEF UpdateStates, Stages
<1> HIDE DEF x
<1>4. update'[u] = x /\ \A v \in Updates \ {u} : update'[v] = update[v]
    BY <1>1, <1>2
<1>5. update[u].prev # -1 => \A v \in Updates : v < u => ~Unfinished(v)
    BY <1>1 DEF ChainOrdered
<1>6. ChainOrdered'
    BY <1>1, <1>3, <1>5, ProgressKeepsChain
<1>7. update[u].next \in User!Configs
    BY <1>1 DEF WritesAreConfigs
<1>8. User!TypeOK'
    <2>1. update' \in [Updates -> UpdateStates]
        BY <1>1, <1>2, <1>3
    <2>2. disturbed' \subseteq {"read", "event", "miss", "reset", "lost"}
        BY <1>1, UserTypes
    <2>3. row' \in User!Configs /\ events' \in Seq(User!Configs)
        BY <1>1, <1>2, <1>7
    <2>4. tail' \in Updates \cup {0}
        BY <1>1, UserTypes
    <2> QED BY <1>1, <2>1, <2>2, <2>3, <2>4 DEF User!TypeOK, UpdateStates, Stages
<1>9. WritesAreConfigs'
    BY <1>3, <1>4 DEF WritesAreConfigs
<1>10. ASSUME disturbed' = {} PROVE CacheLeads' /\ UncachedUntouched'
    <2>1. disturbed = {} /\ landed
        BY <1>1, <1>10
    <2>2. row' = latest /\ cache # User!NoConfig
        BY <1>1, <2>1 DEF CacheLeads, UncachedUntouched
    <2>3. \A v \in Updates : update'[v].stage # "writing"
        BY <1>1, <1>3, <1>4, <2>1 DEF CacheLeads
    <2> QED BY <1>1, <2>1, <2>2, <2>3 DEF CacheLeads, UncachedUntouched
<1> QED BY <1>6, <1>8, <1>9, <1>10

(* resetToCopy writes at once, outside the chain.                          *)
LEMMA ResetStep ==
    ASSUME UserInv, NEW u \in Updates, User!Reset(u)
    PROVE  UserInv'
<1> USE DEF UserInv
<1> DEFINE next == [User!Known EXCEPT ![Mode] = u]
           x == [stage |-> "writing", prev |-> -1, next |-> next]
           across == \E v \in Updates : update[v].stage = "writing"
<1>1. /\ update[u].stage = "new" /\ \A v \in Updates : v < u => update[v].stage # "new"
      /\ cache' = next /\ update' = [update EXCEPT ![u] = x]
      /\ latest' = [latest EXCEPT ![Mode] = u]
      /\ disturbed' = User!Meeting(across)
      /\ UNCHANGED <<row, tail, loading, looking, events>>
    BY DEF User!Reset, User!IsNext
<1>2. next \in User!Configs /\ update \in [Updates -> UpdateStates]
      /\ tail \in Updates \cup {0} /\ Updates \subseteq Nat \ {0}
    BY KnownConfig, UserTypes, UserAssumption DEF User!Configs
<1> HIDE DEF next
<1>3. x \in UpdateStates /\ x.stage = "writing" /\ x.prev = -1 /\ x.next = next
    BY <1>2 DEF UpdateStates, Stages
<1> HIDE DEF x
<1>4. update'[u] = x /\ \A v \in Updates \ {u} : update'[v] = update[v]
    BY <1>1, <1>2
<1>5. \A v \in Updates : /\ Unfinished(v)' => v # u /\ Unfinished(v)
                         /\ update[v].stage # "new" => v # u /\ update'[v] = update[v]
                         /\ v # u => update'[v] = update[v]
    BY <1>1, <1>3, <1>4 DEF Unfinished
<1>6. ChainOrdered'
    <2>1. \A v, w \in Updates : w < v /\ update'[v].stage # "new" => update'[w].stage # "new"
        BY <1>1, <1>3, <1>4 DEF ChainOrdered
    <2>2. ASSUME NEW v \in Updates
          PROVE  /\ update'[v].stage = "asked" => update'[v].prev # -1
                 /\ update'[v].prev \in Updates =>
                      update'[update'[v].prev].stage # "new" /\ update'[update'[v].prev].prev # -1
        <3>1. CASE v = u
            BY <1>2, <1>3, <1>4, <3>1
        <3>2. CASE v # u
            <4>1. /\ update[v].stage = "asked" => update[v].prev # -1
                  /\ update[v].prev \in Updates =>
                      update[update[v].prev].stage # "new" /\ update[update[v].prev].prev # -1
                BY DEF ChainOrdered
            <4> QED BY <1>5, <3>2, <4>1
        <3> QED BY <3>1, <3>2
    <2>3. ASSUME NEW v \in Updates, Unfinished(v)'
          PROVE  /\ v =< tail
                 /\ \A w \in Updates : w < v /\ Unfinished(w)' => w =< update'[v].prev
        BY <1>5, <2>3 DEF ChainOrdered
    <2>4. ASSUME NEW v \in Updates, update'[v].stage \in {"writing", "over"},
                 update'[v].prev # -1, NEW w \in Updates, w < v
          PROVE  ~Unfinished(w)'
        BY <1>3, <1>4, <1>5, <2>4 DEF ChainOrdered
    <2>5. tail # 0 => update'[tail].stage # "new" /\ update'[tail].prev # -1
        BY <1>2, <1>5 DEF ChainOrdered
    <2> QED BY <1>1, <2>1, <2>2, <2>3, <2>4, <2>5 DEF ChainOrdered
<1>7. User!TypeOK'
    <2>1. update' \in [Updates -> UpdateStates]
        BY <1>1, <1>2, <1>3
    <2>2. latest' \in [Fields -> Updates \cup {0}]
        BY <1>1, UserTypes
    <2>3. disturbed' \subseteq {"read", "event", "miss", "reset", "lost"}
        BY <1>1, UserTypes DEF User!Meeting
    <2> QED BY <1>1, <1>2, <2>1, <2>2, <2>3 DEF User!TypeOK, UpdateStates, Stages
<1>8. WritesAreConfigs'
    BY <1>2, <1>3, <1>4 DEF WritesAreConfigs
<1>9. ASSUME disturbed' = {} PROVE CacheLeads' /\ UncachedUntouched'
    <2>1. disturbed = {} /\ cache # User!NoConfig /\ ~across
        BY <1>1, <1>9 DEF User!Meeting
    <2>2. next = latest'
        BY <1>1, <2>1, KnownConfig DEF CacheLeads, next
    <2>3. \A v \in Updates : update'[v].stage = "writing" <=> v = u
        BY <1>3, <1>4, <2>1
    <2>4. CacheLeads'
        BY <1>1, <1>3, <1>4, <2>2, <2>3 DEF CacheLeads
    <2>5. cache' # User!NoConfig
        BY <1>1, <1>2, ConfigsAreConfigs
    <2> QED BY <2>4, <2>5 DEF UncachedUntouched
<1> QED BY <1>6, <1>7, <1>8, <1>9

(* Every step of a user's configuration keeps the invariant.               *)
LEMMA UserStep ==
    ASSUME UserInv, User!Next
    PROVE  UserInv'
BY UserReadStep, AskStep, RefuseStep, ResetStep, ExecuteStep, WrittenStep DEF User!Next
-----------------------------------------------------------------------------
(* The queue of the operator wallet.  Its properties are about calls and   *)
(* the operations they leave behind; that a step keeps them depends on who *)
(* holds the turn and on a call having at most one operation, which in     *)
(* turn depends on no call getting two turns, hence on the queue holding a *)
(* call at most once.                                                      *)

USE QueueAssumption DEF Queue!Attempts, Queue!Operations, Queue!Answers

(* The queue holds each call that waits, once.                             *)
QueueHoldsWaiting ==
    /\ \A i \in 1..Len(txQueue) : call[txQueue[i]].pc = "queued"
    /\ \A i, j \in 1..Len(txQueue) : txQueue[i] = txQueue[j] => i = j

(* A call has the turn exactly while it races or pauses between attempts.  *)
TurnIsTaken ==
    \A c \in Calls : (current = c) <=> call[c].pc \in {"racing", "pausing"}

(* Attempts are counted from the first race on, and a pause is only made   *)
(* when another attempt is left.                                           *)
AttemptsCounted ==
    \A c \in Calls :
        /\ call[c].pc \in {"idle", "queued"} => call[c].attempts = 0
        /\ call[c].pc = "pausing" => call[c].attempts < MaxRetries

(* A call has at most one operation, and it is the awaited one unless the  *)
(* call timed out.                                                         *)
OneOperationEach ==
    \A op1, op2 \in operations : op1.call = op2.call => op1 = op2

(* What was sent is covered by attempts; an attempt whose operation has    *)
(* not sent yet is still to spend.                                         *)
SendsCovered ==
    /\ \A c \in Calls : sentTxs[c] =< call[c].attempts
    /\ \A op \in operations : /\ ~op.sent => sentTxs[op.call] < call[op.call].attempts
                              /\ op.sent => sentTxs[op.call] > 0

QueueInv ==
    /\ Queue!TypeOK
    /\ QueueHoldsWaiting
    /\ TurnIsTaken
    /\ AttemptsCounted
    /\ OneOperationEach
    /\ SendsCovered
    /\ Queue!OnlyTimeOutsLinger
    /\ Queue!AnswersAreHonest
-----------------------------------------------------------------------------
(* A call may race if it has no operation running, an attempt left and     *)
(* either the turn already or nobody before it.                            *)
LEMMA RaceStep ==
    ASSUME NEW c \in Calls, QueueInv, Queue!Race(c), sentTxs' = sentTxs,
           current' = c, current \in {NoCall, c},
           call[c].pc \in {"queued", "pausing"},
           txQueue' \in Seq(Calls),
           \A i \in 1..Len(txQueue') : txQueue'[i] # c /\ call[txQueue'[i]].pc = "queued",
           \A i, j \in 1..Len(txQueue') : txQueue'[i] = txQueue'[j] => i = j
    PROVE  QueueInv'
<1> DEFINE attempt == call[c].attempts + 1
           new == [call |-> c, attempt |-> attempt, sent |-> FALSE]
<1> USE DEF QueueInv, Queue!TypeOK
<1>1. attempt \in 1..MaxRetries
    BY DEF AttemptsCounted
<1>2. /\ call' = [call EXCEPT ![c] = [pc |-> "racing", attempts |-> attempt]]
      /\ operations' = operations \cup {new}
    BY DEF Queue!Race
<1>3. /\ call'[c].pc = "racing" /\ call'[c].attempts = attempt
      /\ \A d \in Calls \ {c} : call'[d] = call[d]
    BY <1>2
<1> HIDE DEF attempt
<1>4. \A op \in operations : op.call # c
    BY DEF Queue!OnlyTimeOutsLinger, Queue!Awaited
<1>5. Queue!TypeOK'
    <2>1. new \in Queue!Operations
        BY <1>1
    <2>2. [pc |-> "racing", attempts |-> attempt]
              \in [pc : {"idle", "queued", "racing", "pausing"} \cup Queue!Answers,
                   attempts : 0..MaxRetries]
        BY <1>1
    <2>3. operations' \subseteq Queue!Operations
        BY <1>2, <2>1
    <2>4. call' \in [Calls -> [pc : {"idle", "queued", "racing", "pausing"} \cup Queue!Answers,
                              attempts : 0..MaxRetries]]
        BY <1>2, <2>2
    <2>5. txQueue' \in Seq(Calls) /\ current' \in Calls \cup {NoCall}
        OBVIOUS
    <2>6. sentTxs' \in [Calls -> 0..MaxRetries]
        OBVIOUS
    <2> HIDE DEF new
    <2> QED BY <2>3, <2>4, <2>5, <2>6
<1>6. QueueHoldsWaiting'
    <2>1. ASSUME NEW i \in 1..Len(txQueue')
          PROVE  call'[txQueue'[i]].pc = "queued"
        <3>1. txQueue'[i] \in Calls \ {c}
            OBVIOUS
        <3> QED BY <1>3, <3>1
    <2>2. \A i, j \in 1..Len(txQueue') : txQueue'[i] = txQueue'[j] => i = j
        OBVIOUS
    <2> QED BY ONLY <2>1, <2>2 DEF QueueHoldsWaiting
<1>7. TurnIsTaken'
    BY <1>3 DEF TurnIsTaken
<1>8. AttemptsCounted'
    <2>1. AttemptsCounted
        OBVIOUS
    <2>2. \A d \in Calls : d = c \/ call'[d] = call[d]
        BY <1>3
    <2> QED BY ONLY <1>3, <2>1, <2>2 DEF AttemptsCounted
<1>9. OneOperationEach'
    <2>1. new.call = c
        OBVIOUS
    <2>2. operations' = operations \cup {new}
        BY <1>2
    <2> HIDE DEF new
    <2> QED BY <1>4, <2>1, <2>2 DEF OneOperationEach
<1>10. SendsCovered'
    <2>1. sentTxs[c] < attempt
        BY DEF SendsCovered, attempt
    <2> QED BY <1>1, <1>2, <1>3, <1>4, <2>1 DEF SendsCovered
<1>11. Queue!OnlyTimeOutsLinger'
    <2>1. ASSUME NEW op \in operations'
          PROVE  Queue!Awaited(op)' \/ call'[op.call].pc = "timedOut"
        <3>1. CASE op = new
            BY <1>3, <3>1 DEF Queue!Awaited
        <3>2. CASE op \in operations
            <4>1. call[op.call].pc = "timedOut"
                BY <1>4, <3>2 DEF Queue!OnlyTimeOutsLinger, Queue!Awaited
            <4> QED BY <1>3, <1>4, <3>2, <4>1
        <3> QED BY <1>2, <2>1, <3>1, <3>2
    <2> QED BY <2>1 DEF Queue!OnlyTimeOutsLinger
<1>12. Queue!AnswersAreHonest'
    BY <1>1, <1>3, <1>10 DEF Queue!AnswersAreHonest, SendsCovered
<1> QED BY <1>5, <1>6, <1>7, <1>8, <1>9, <1>10, <1>11, <1>12
(* Waiting disturbs nobody: the call was not in the queue.                 *)
LEMMA EnqueueStep ==
    ASSUME NEW c \in Calls, QueueInv, Queue!Enqueue(c)
    PROVE  QueueInv'
<1> USE DEF QueueInv
<1> DEFINE queued == [call[c] EXCEPT !.pc = "queued"]
           n == Len(txQueue)
<1>1. /\ call[c].pc = "idle"
      /\ call' = [call EXCEPT ![c] = queued]
      /\ txQueue' = Append(txQueue, c)
      /\ UNCHANGED <<current, operations, sentTxs>>
    BY DEF Queue!Enqueue
<1>2. /\ call'[c].pc = "queued" /\ call'[c].attempts = call[c].attempts
      /\ \A d \in Calls \ {c} : call'[d] = call[d]
    BY <1>1 DEF Queue!TypeOK
<1>3. Queue!TypeOK'
    <2>1. queued \in [pc : {"idle", "queued", "racing", "pausing"} \cup Queue!Answers,
                       attempts : 0..MaxRetries]
        BY DEF Queue!TypeOK
    <2>2. txQueue' \in Seq(Calls)
        BY <1>1 DEF Queue!TypeOK
    <2> HIDE DEF queued
    <2> QED BY <1>1, <2>1, <2>2 DEF Queue!TypeOK
<1>4. QueueHoldsWaiting'
    <2>1. /\ n \in Nat /\ Len(txQueue') = n + 1
          /\ \A i \in 1..n : txQueue'[i] = txQueue[i] /\ txQueue[i] \in Calls
          /\ txQueue'[n + 1] = c
        BY <1>1 DEF Queue!TypeOK
    <2>2. \A i \in 1..n : call[txQueue[i]].pc = "queued" /\ txQueue[i] # c
        BY <1>1 DEF QueueHoldsWaiting
    <2>3. \A i, j \in 1..n : txQueue[i] = txQueue[j] => i = j
        BY DEF QueueHoldsWaiting
    <2> HIDE DEF n, queued, QueueInv
    <2>4. \A i \in 1..Len(txQueue') : i \in 1..n \/ i = n + 1
        BY <2>1
    <2>5. \A i \in 1..Len(txQueue') : call'[txQueue'[i]].pc = "queued"
        BY <1>2, <2>1, <2>2, <2>4
    <2>6. \A i, j \in 1..Len(txQueue') : txQueue'[i] = txQueue'[j] => i = j
        BY <2>1, <2>2, <2>3, <2>4
    <2> QED BY <2>5, <2>6 DEF QueueHoldsWaiting
<1>5. TurnIsTaken' /\ AttemptsCounted'
    BY <1>1, <1>2 DEF TurnIsTaken, AttemptsCounted
<1>6. OneOperationEach' /\ SendsCovered'
    BY <1>1, <1>2 DEF OneOperationEach, SendsCovered, Queue!TypeOK
<1>7. Queue!OnlyTimeOutsLinger' /\ Queue!AnswersAreHonest'
    BY <1>1, <1>2 DEF Queue!OnlyTimeOutsLinger, Queue!Awaited, Queue!AnswersAreHonest, Queue!TypeOK
<1> QED BY <1>3, <1>4, <1>5, <1>6, <1>7

(* The head of the queue takes the free turn; the tail still waits.        *)
LEMMA StartStep ==
    ASSUME QueueInv, Queue!Start
    PROVE  QueueInv'
<1> DEFINE n == Len(txQueue)
           c == Head(txQueue)
<1>1. /\ current = NoCall /\ txQueue # <<>> /\ current' = c
      /\ txQueue' = Tail(txQueue) /\ Queue!Race(c) /\ UNCHANGED sentTxs
    BY DEF Queue!Start
<1>2. txQueue \in Seq(Calls)
    BY DEF QueueInv, Queue!TypeOK
<1>3. /\ c = txQueue[1] /\ n \in Nat \ {0} /\ c \in Calls
      /\ Len(txQueue') = n - 1 /\ txQueue' \in Seq(Calls)
      /\ \A i \in 1..(n - 1) : txQueue'[i] = txQueue[i + 1]
    BY <1>1, <1>2
<1>4. /\ \A i \in 1..n : call[txQueue[i]].pc = "queued"
      /\ \A i, j \in 1..n : txQueue[i] = txQueue[j] => i = j
    BY DEF QueueInv, QueueHoldsWaiting
<1> HIDE DEF n, c
<1>5. \A i \in 1..(n - 1) : i + 1 \in 1..n /\ i + 1 # 1
    BY <1>3
<1>6. 1 \in 1..n /\ call[c].pc = "queued"
    BY <1>3, <1>4
<1>7. \A i \in 1..(n - 1) : txQueue'[i] # c /\ call[txQueue'[i]].pc = "queued"
    BY <1>3, <1>4, <1>5, <1>6
<1>8. \A i, j \in 1..(n - 1) : txQueue'[i] = txQueue'[j] => i = j
    <2>1. \A i, j \in 1..(n - 1) : i + 1 = j + 1 => i = j
        BY <1>3
    <2> QED BY <1>3, <1>4, <1>5, <2>1
<1>9. /\ \A i \in 1..Len(txQueue') : txQueue'[i] # c /\ call[txQueue'[i]].pc = "queued"
      /\ \A i, j \in 1..Len(txQueue') : txQueue'[i] = txQueue'[j] => i = j
    BY <1>3, <1>7, <1>8
<1> QED BY <1>1, <1>3, <1>6, <1>9, RaceStep

(* The call that paused tries again: it has nothing running any more.      *)
LEMMA RetryStep ==
    ASSUME QueueInv, Queue!Retry
    PROVE  QueueInv'
<1> USE DEF QueueInv, Queue!TypeOK
<1>1. current \in Calls /\ call[current].pc = "pausing" /\ Queue!Race(current)
      /\ UNCHANGED <<txQueue, current, sentTxs>>
    BY DEF Queue!Retry
<1>2. \A i \in 1..Len(txQueue) : txQueue[i] # current /\ call[txQueue[i]].pc = "queued"
    BY <1>1 DEF QueueHoldsWaiting
<1>3. \A i, j \in 1..Len(txQueue) : txQueue[i] = txQueue[j] => i = j
    BY DEF QueueHoldsWaiting
<1> QED BY <1>1, <1>2, <1>3, RaceStep

(* An operation sends: it was counted as unsent, so that there was room.   *)
LEMMA SendStep ==
    ASSUME NEW op \in operations, QueueInv, Queue!Send(op)
    PROVE  QueueInv'
<1> USE DEF QueueInv, Queue!TypeOK
<1> DEFINE c == op.call
           sender == [op EXCEPT !.sent = TRUE]
<1>1. /\ ~op.sent
      /\ operations' = (operations \ {op}) \cup {sender}
      /\ sentTxs' = [sentTxs EXCEPT ![c] = @ + 1]
      /\ UNCHANGED <<txQueue, current, call>>
    BY DEF Queue!Send
<1>2. c \in Calls /\ op \in Queue!Operations
    OBVIOUS
<1>3. /\ sender \in Queue!Operations /\ sender.call = c
      /\ sender.attempt = op.attempt /\ sender.sent
    BY <1>2
<1>4. \A d \in Calls \ {c} : sentTxs'[d] = sentTxs[d]
    BY <1>1, <1>2
<1>5. /\ sentTxs'[c] = sentTxs[c] + 1 /\ sentTxs[c] < call[c].attempts
      /\ call[c].attempts \in 0..MaxRetries /\ sentTxs[c] \in Nat
    <2>1. sentTxs'[c] = sentTxs[c] + 1 /\ sentTxs[c] \in Nat
        BY <1>1, <1>2
    <2>2. call[c].attempts \in 0..MaxRetries
        BY <1>2
    <2>3. sentTxs[c] < call[c].attempts
        BY <1>1 DEF SendsCovered
    <2> QED BY <2>1, <2>2, <2>3
<1>6. \A o \in operations' : o = sender \/ (o \in operations /\ o # op)
    BY <1>1
<1>7. \A o \in operations \ {op} : o.call # c
    BY DEF OneOperationEach
<1> HIDE DEF sender, c
<1>8. Queue!TypeOK'
    <2>1. operations' \subseteq Queue!Operations
        BY <1>1, <1>3
    <2>2. sentTxs' \in [Calls -> 0..MaxRetries]
        BY <1>1, <1>2, <1>5
    <2> QED BY <1>1, <2>1, <2>2
<1>9. QueueHoldsWaiting' /\ TurnIsTaken' /\ AttemptsCounted'
    BY <1>1 DEF QueueHoldsWaiting, TurnIsTaken, AttemptsCounted
<1>10. OneOperationEach'
    BY <1>3, <1>6, <1>7 DEF OneOperationEach
<1>11. SendsCovered'
    <2>1. \A d \in Calls : sentTxs'[d] =< call'[d].attempts
        BY <1>1, <1>2, <1>4, <1>5 DEF SendsCovered
    <2>2. ASSUME NEW o \in operations'
          PROVE  /\ ~o.sent => sentTxs'[o.call] < call'[o.call].attempts
                 /\ o.sent => sentTxs'[o.call] > 0
        <3>1. CASE o = sender
            BY <1>3, <1>5, <3>1
        <3>2. CASE o \in operations \ {op}
            <4>1. o.call \in Calls \ {c}
                BY <1>7, <3>2
            <4> QED BY <1>1, <1>4, <3>2, <4>1 DEF SendsCovered
        <3> QED BY <1>6, <3>1, <3>2
    <2> QED BY <2>1, <2>2 DEF SendsCovered
<1>12. Queue!OnlyTimeOutsLinger'
    <2>1. Queue!Awaited(sender)' = Queue!Awaited(op)
        BY <1>1, <1>3 DEF Queue!Awaited, c
    <2>2. ASSUME NEW o \in operations \ {op} PROVE Queue!Awaited(o)' = Queue!Awaited(o)
        BY <1>1 DEF Queue!Awaited
    <2>3. Queue!Awaited(op) \/ call[c].pc = "timedOut"
        BY DEF Queue!OnlyTimeOutsLinger, c
    <2> QED BY <1>1, <1>3, <1>6, <2>1, <2>2, <2>3 DEF Queue!OnlyTimeOutsLinger
<1>13. Queue!AnswersAreHonest'
    BY <1>1, <1>2, <1>4, <1>5, <1>11 DEF Queue!AnswersAreHonest, SendsCovered
<1> QED BY <1>8, <1>9, <1>10, <1>11, <1>12, <1>13

(* The race of the call whose turn it is ends: with an answer, which frees *)
(* the turn, or with a pause.  Only a time-out leaves an operation behind. *)
LEMMA RaceEndStep ==
    ASSUME QueueInv, NEW c \in Calls, NEW p \in Queue!Answers \cup {"pausing"},
           call[c].pc = "racing",
           call' = [call EXCEPT ![c].pc = p],
           operations' \subseteq operations,
           p # "timedOut" => \A op \in operations' : op.call # c,
           p = "done" => sentTxs[c] > 0,
           p = "pausing" => current' = c /\ call[c].attempts < MaxRetries,
           p # "pausing" => current' = NoCall,
           UNCHANGED <<txQueue, sentTxs>>
    PROVE  QueueInv'
<1> USE DEF QueueInv
<1> DEFINE ended == [call[c] EXCEPT !.pc = p]
<1>1. call' = [call EXCEPT ![c] = ended]
    OBVIOUS
<1>2. /\ call'[c].pc = p /\ call'[c].attempts = call[c].attempts
      /\ \A d \in Calls \ {c} : call'[d] = call[d]
    BY <1>1 DEF Queue!TypeOK
<1>3. current = c
    BY DEF TurnIsTaken
<1>4. Queue!TypeOK'
    <2>1. ended \in [pc : {"idle", "queued", "racing", "pausing"} \cup Queue!Answers,
                     attempts : 0..MaxRetries]
        BY DEF Queue!TypeOK
    <2>2. current' \in Calls \cup {NoCall}
        OBVIOUS
    <2> HIDE DEF ended
    <2>3. call' \in [Calls -> [pc : {"idle", "queued", "racing", "pausing"} \cup Queue!Answers,
                              attempts : 0..MaxRetries]]
        BY <1>1, <2>1 DEF Queue!TypeOK
    <2>4. operations' \subseteq Queue!Operations
        BY DEF Queue!TypeOK
    <2> QED BY <2>2, <2>3, <2>4 DEF Queue!TypeOK
<1>5. QueueHoldsWaiting'
    <2>1. \A i \in 1..Len(txQueue) : /\ txQueue[i] \in Calls
                                     /\ call[txQueue[i]].pc = "queued"
        BY DEF QueueHoldsWaiting, Queue!TypeOK
    <2> QED BY <1>2, <2>1 DEF QueueHoldsWaiting
<1>6. TurnIsTaken'
    BY <1>2, <1>3 DEF TurnIsTaken
<1>7. AttemptsCounted'
    BY <1>2 DEF AttemptsCounted
<1>8. OneOperationEach'
    BY DEF OneOperationEach
<1>9. SendsCovered'
    BY <1>2 DEF SendsCovered, Queue!TypeOK
<1>10. Queue!OnlyTimeOutsLinger'
    <2>1. ASSUME NEW op \in operations'
          PROVE  Queue!Awaited(op)' \/ call'[op.call].pc = "timedOut"
        <3>1. CASE op.call = c
            BY <1>2, <3>1
        <3>2. CASE op.call # c
            <4>1. op.call \in Calls /\ call[op.call].pc = "timedOut"
                BY <1>3, <3>2 DEF Queue!OnlyTimeOutsLinger, Queue!Awaited, Queue!TypeOK
            <4> QED BY <1>2, <3>2, <4>1
        <3> QED BY <3>1, <3>2
    <2> QED BY <2>1 DEF Queue!OnlyTimeOutsLinger
<1>11. Queue!AnswersAreHonest'
    BY <1>2, <1>9 DEF Queue!AnswersAreHonest, SendsCovered
<1> QED BY <1>4, <1>5, <1>6, <1>7, <1>8, <1>9, <1>10, <1>11

(* An operation nobody waits for ends unnoticed.                           *)
LEMMA UnheardStep ==
    ASSUME QueueInv, NEW op \in operations, Queue!Unheard(op),
           operations' = operations \ {op}, UNCHANGED <<txQueue, sentTxs>>
    PROVE  QueueInv'
<1> USE DEF QueueInv
<1>1. UNCHANGED <<txQueue, current, call, sentTxs>> /\ operations' \subseteq operations
    BY DEF Queue!Unheard
<1>2. Queue!TypeOK'
    BY <1>1 DEF Queue!TypeOK
<1>3. QueueHoldsWaiting' /\ TurnIsTaken' /\ AttemptsCounted' /\ Queue!AnswersAreHonest'
    BY <1>1 DEF QueueHoldsWaiting, TurnIsTaken, AttemptsCounted, Queue!AnswersAreHonest
<1>4. OneOperationEach' /\ SendsCovered' /\ Queue!OnlyTimeOutsLinger'
    BY <1>1 DEF OneOperationEach, SendsCovered, Queue!OnlyTimeOutsLinger, Queue!Awaited
<1> QED BY <1>2, <1>3, <1>4

(* An operation that settles is unheard, or ends the race of its call.     *)
LEMMA SettleStep ==
    ASSUME QueueInv, NEW op \in operations, Queue!Succeed(op) \/ Queue!RejectNonce(op) \/ Queue!Reject(op)
    PROVE  QueueInv'
<1> DEFINE c == op.call
<1>1. op \in Queue!Operations /\ c \in Calls
    BY DEF QueueInv, Queue!TypeOK
<1>2. operations' = operations \ {op} /\ UNCHANGED <<txQueue, sentTxs>>
    BY DEF Queue!Succeed, Queue!RejectNonce, Queue!Reject
<1>3. CASE Queue!Unheard(op)
    BY <1>2, <1>3, UnheardStep
<1>4. CASE ~Queue!Unheard(op)
    <2>1. Queue!Awaited(op) /\ current = c /\ call[c].pc = "racing"
          /\ call[c].attempts = op.attempt
        BY <1>4 DEF Queue!Succeed, Queue!RejectNonce, Queue!Reject, Queue!Awaited
    <2>2. \A o \in operations' : o.call # c
        BY <1>2 DEF QueueInv, OneOperationEach
    <2>3. op.sent => sentTxs[c] > 0
        BY DEF QueueInv, SendsCovered
    <2>4. CASE Queue!Succeed(op)
        <3>1. op.sent /\ Queue!Answer(c, "done")
            BY <1>4, <2>4 DEF Queue!Succeed
        <3> QED BY <1>1, <1>2, <2>1, <2>2, <2>3, <3>1, RaceEndStep DEF Queue!Answer
    <2>5. CASE Queue!Reject(op)
        <3>1. call' = [call EXCEPT ![c].pc = "failed"] /\ current' = NoCall
            BY <1>4, <2>5 DEF Queue!Reject, Queue!Answer
        <3>2. "failed" \in Queue!Answers \cup {"pausing"}
            OBVIOUS
        <3> HIDE DEF c, Queue!Answers, Queue!Operations
        <3> QED BY <1>1, <1>2, <2>1, <2>2, <3>1, <3>2, RaceEndStep
    <2>6. CASE Queue!RejectNonce(op) /\ op.attempt < MaxRetries
        <3>1. call' = [call EXCEPT ![c].pc = "pausing"] /\ current' = c
            BY <1>1, <1>4, <2>1, <2>6 DEF Queue!RejectNonce
        <3> QED BY <1>1, <1>2, <2>1, <2>2, <2>6, <3>1, RaceEndStep
    <2>7. CASE Queue!RejectNonce(op) /\ ~(op.attempt < MaxRetries)
        <3>1. call' = [call EXCEPT ![c].pc = "failed"] /\ current' = NoCall
            BY <1>4, <2>7 DEF Queue!RejectNonce, Queue!Answer
        <3>2. "failed" \in Queue!Answers \cup {"pausing"}
            OBVIOUS
        <3> HIDE DEF c, Queue!Answers, Queue!Operations
        <3> QED BY <1>1, <1>2, <2>1, <2>2, <3>1, <3>2, RaceEndStep
    <2> QED BY <2>4, <2>5, <2>6, <2>7
<1> QED BY <1>3, <1>4

(* Every step of the queue keeps the invariant.                            *)
LEMMA QueueStep ==
    ASSUME QueueInv, Queue!Next \/ UNCHANGED queueVars
    PROVE  QueueInv'
<1>1. ASSUME NEW c \in Calls, Queue!Enqueue(c) PROVE QueueInv'
    BY <1>1, EnqueueStep
<1>2. CASE Queue!Start
    BY <1>2, StartStep
<1>3. ASSUME NEW op \in operations, Queue!Send(op) PROVE QueueInv'
    BY <1>3, SendStep
<1>4. ASSUME NEW op \in operations, Queue!Succeed(op) \/ Queue!RejectNonce(op) \/ Queue!Reject(op)
      PROVE  QueueInv'
    BY <1>4, SettleStep
<1>5. CASE Queue!TimeOut
    <2>1. /\ current \in Calls /\ call[current].pc = "racing"
          /\ call' = [call EXCEPT ![current].pc = "timedOut"]
          /\ current' = NoCall /\ UNCHANGED <<txQueue, operations, sentTxs>>
        BY <1>5 DEF Queue!TimeOut, Queue!Answer, QueueInv, Queue!TypeOK
    <2> QED BY <2>1, RaceEndStep
<1>6. CASE Queue!Retry
    BY <1>6, RetryStep
<1>7. CASE UNCHANGED queueVars
    <2>1. UNCHANGED <<txQueue, current, call, operations, sentTxs>>
        BY <1>7 DEF queueVars
    <2> QED BY <2>1 DEF QueueInv, Queue!TypeOK, QueueHoldsWaiting, TurnIsTaken, AttemptsCounted,
                        OneOperationEach, SendsCovered, Queue!OnlyTimeOutsLinger, Queue!Awaited,
                        Queue!AnswersAreHonest
<1> QED BY <1>1, <1>2, <1>3, <1>4, <1>5, <1>6, <1>7 DEF Queue!Next

HIDE QueueAssumption DEF Queue!Attempts, Queue!Operations, Queue!Answers

-----------------------------------------------------------------------------
(* The five services together: the one that runs keeps its invariant, and  *)
(* the others keep what they began with.                                   *)

ServicesInv ==
    /\ IF part = "book" THEN BookInv ELSE heard = Book!None /\ active = Book!NoEntry
    /\ SeatsInv
    /\ IF part = "gate" THEN AbuseInv ELSE limited = {}
    /\ UserInv
    /\ QueueInv

LEMMA ServicesInit == Init => ServicesInv
<1> SUFFICES ASSUME Init PROVE ServicesInv
    OBVIOUS
<1>1. Book!Init /\ Gate!Init /\ User!Init
    BY DEF Init
<1>2. BookInv /\ heard = Book!None /\ active = Book!NoEntry
    <2>1. \A p \in Polls : poll[p] = Book!Idle
        BY <1>1 DEF Book!Init
    <2>2. Book!Idle.stage = "idle" /\ Book!Idle.seen = Book!NotListed
        BY DEF Book!Idle
    <2>3. Book!TypeOK
        <3>1. /\ chain \in Book!Listings /\ indexed = chain
              /\ spot \in Book!Prices /\ isPolling \in BOOLEAN
              /\ active = Book!NoEntry /\ archive = Book!NoEntry /\ heard = Book!None
            BY <1>1 DEF Book!Init, Book!Listings
        <3>2. now \in 0..BookTime /\ 0 \in 0..BookTime
            BY <1>1, MarketAssumption DEF Book!Init
        <3>3. Book!Idle \in [stage : {"idle", "listing", "books"},
                             seen : Book!Listings \cup {Book!NotListed}, at : 0..BookTime]
            BY <3>2 DEF Book!Idle
        <3>4. poll \in [Polls -> [stage : {"idle", "listing", "books"},
                                 seen : Book!Listings \cup {Book!NotListed}, at : 0..BookTime]]
            BY <1>1, <3>3 DEF Book!Init
        <3> QED BY <3>1, <3>2, <3>4 DEF Book!TypeOK
    <2>4. OnePoll /\ ResultsAreFinal /\ PublishedStays
        BY <1>1, <2>1, <2>2 DEF Book!Init, OnePoll, ResultsAreFinal, PublishedStays, Book!NotListed
    <2> QED BY <1>1, <2>3, <2>4
            DEF Book!Init, BookInv, ResolvingHasPrice, Book!ChainHasLastWord, Book!NoEntry,
                Book!None
<1>3. SeatsInv
    <2>1. Gate!Known = {} /\ Gate!Cardinality({}) = 0
        BY <1>1, SameCount, FS_EmptySet DEF Gate!Init, Gate!Known
    <2>2. \A i : Gate!Known \cap Gate!At(i) = {}
        BY <2>1
    <2>3. Gate!SeatsCounted
        BY <1>1, <2>1, <2>2, GatewayAssumption DEF Gate!Init, Gate!SeatsCounted
    <2> QED BY <1>1, <2>1, <2>3 DEF Gate!Init, SeatsInv, Connections
<1>4. AbuseInv /\ limited = {}
    <2>1. \A i \in Ips : bucket[i] = Gate!NoBucket /\ log[i] = <<>>
        BY <1>1 DEF Gate!Init
    <2>2. Gate!NoBucket \in Buckets /\ Gate!NoBucket.strikes = 0
        BY GatewayAssumption DEF Gate!NoBucket, Buckets
    <2>3. \A i \in Ips : CurrentWindow(i)
        BY <1>1, <2>1 DEF CurrentWindow, Gate!NoBucket, Gate!Init
    <2>4. \A i \in Ips : StruckIn(i, {})
        BY <2>1, <2>2, FS_EmptySet DEF StruckIn, Gate!Abusive
    <2> QED BY <1>1, <2>2, <2>3, <2>4 DEF Gate!Init, AbuseInv, Gate!OnlySustainedAbuse
<1>5. UserInv
    <2>1. \A u \in Updates : /\ update[u].stage = "new" /\ update[u].prev = 0
                             /\ update[u] \in UpdateStates
        BY <1>1 DEF User!Init, UpdateStates, Stages
    <2>2. User!TypeOK
        BY <1>1, ConfigsAreConfigs DEF User!Init, User!TypeOK, User!Asked, User!Over, Reads
    <2>3. ChainOrdered /\ WritesAreConfigs
        BY <1>1, <2>1, UserAssumption DEF User!Init, ChainOrdered, Unfinished, WritesAreConfigs
    <2>4. CacheLeads /\ UncachedUntouched
        BY <1>1, <2>1 DEF User!Init, CacheLeads, UncachedUntouched, User!Stored, User!Asked,
                          User!Over
    <2> QED BY <2>2, <2>3, <2>4 DEF UserInv
<1>6. QueueInv
    <2>1. Queue!Init
        BY DEF Init
    <2> QED BY <2>1, QueueAssumption
            DEF Queue!Init, QueueInv, Queue!TypeOK, Queue!Attempts, Queue!Operations,
                Queue!Answers, QueueHoldsWaiting, TurnIsTaken, AttemptsCounted,
                OneOperationEach, SendsCovered, Queue!OnlyTimeOutsLinger,
                Queue!AnswersAreHonest
<1> QED BY <1>2, <1>3, <1>4, <1>5, <1>6 DEF ServicesInv

(* A step of one service, which leaves the variables of the others.        *)
LEMMA ServicesStep ==
    ASSUME ServicesInv, [Next]_vars
    PROVE  ServicesInv' /\ [Settling]_(Book!bookVars)
<1>1. ASSUME UNCHANGED bookRest, part # "book" \/ UNCHANGED now
      PROVE  /\ part = "book" => BookInv'
             /\ part # "book" => heard' = Book!None /\ active' = Book!NoEntry
             /\ [Settling]_(Book!bookVars)
    <2>1. CASE part = "book"
        <3>1. UNCHANGED <<now, spot, chain, indexed, active, archive, isPolling, poll, heard>>
            BY <1>1, <2>1 DEF bookRest
        <3>2. BookInv
            BY <2>1 DEF ServicesInv
        <3>3. BookInv'
            BY <3>1, <3>2 DEF BookInv, OnePoll, ResultsAreFinal, PublishedStays,
                              ResolvingHasPrice, Book!TypeOK, Book!ChainHasLastWord
        <3> QED BY <2>1, <3>1, <3>3 DEF Book!bookVars
    <2>2. CASE part # "book"
        BY <1>1, <2>2 DEF ServicesInv, bookRest, Settling
    <2> QED BY <2>1, <2>2
<1>2. ASSUME UNCHANGED gateRest
      PROVE  SeatsInv' /\ limited' = limited
    BY <1>2 DEF ServicesInv, SeatsInv, gateRest, Gate!Known, Gate!SeatsCounted, Gate!At
<1>3. ASSUME UNCHANGED gateRest, UNCHANGED now, AbuseInv
      PROVE  AbuseInv'
    BY <1>3, AbuseQuietStep DEF AbuseInv, gateRest
<1>4. ASSUME UNCHANGED userVars
      PROVE  UserInv'
    BY <1>4 DEF ServicesInv, UserInv, userVars, User!TypeOK, ChainOrdered, Unfinished,
                WritesAreConfigs, CacheLeads, UncachedUntouched
<1>5. ASSUME UNCHANGED queueVars
       PROVE  QueueInv'
    BY <1>5, QueueStep DEF ServicesInv
<1>6. CASE /\ part = "book" /\ Book!Next
           /\ UNCHANGED <<part, gateRest, userVars, feedVars, queueVars>>
    <2>1. BookInv' /\ Settling
        BY <1>6, BookStep DEF ServicesInv
    <2> QED BY <1>2, <1>4, <1>6, <1>5, <2>1 DEF ServicesInv
<1>7. CASE /\ part = "gate" /\ Gate!Next
           /\ UNCHANGED <<part, bookRest, userVars, feedVars, queueVars>>
    <2>1. SeatsInv' /\ AbuseInv'
        BY <1>7, SeatsStep, AbuseStep DEF ServicesInv
    <2> QED BY <1>1, <1>4, <1>7, <1>5, <2>1 DEF ServicesInv
<1>8. CASE /\ part = "user" /\ User!Next
           /\ UNCHANGED <<part, now, bookRest, gateRest, feedVars, queueVars>>
    <2>1. UserInv'
        BY <1>8, UserStep DEF ServicesInv
    <2> QED BY <1>1, <1>2, <1>8, <1>5, <2>1 DEF ServicesInv
<1>9. CASE /\ part = "feed" /\ Feed!Next
           /\ UNCHANGED <<part, now, bookRest, gateRest, userVars, queueVars>>
    BY <1>1, <1>2, <1>4, <1>9, <1>5 DEF ServicesInv
<1>10. CASE /\ part = "queue" /\ Queue!Next
           /\ UNCHANGED <<part, now, bookRest, gateRest, userVars, feedVars>>
    <2>1. QueueInv'
        BY <1>10, QueueStep DEF ServicesInv
    <2> QED BY <1>1, <1>2, <1>4, <1>10, <2>1 DEF ServicesInv
<1>11. CASE UNCHANGED vars
    <2>1. UNCHANGED part /\ UNCHANGED now /\ UNCHANGED bookRest /\ UNCHANGED gateRest
          /\ UNCHANGED userVars /\ UNCHANGED queueVars
        BY <1>11 DEF vars
    <2> QED BY <1>1, <1>2, <1>3, <1>4, <1>5, <2>1 DEF ServicesInv
<1> QED BY <1>6, <1>7, <1>8, <1>9, <1>10, <1>11 DEF Next

(* The inductive invariant, in every behaviour.                            *)
LEMMA ServicesInvariant == Spec => []ServicesInv
<1>1. Init => ServicesInv
    BY ServicesInit
<1>2. ServicesInv /\ [Next]_vars => ServicesInv'
    BY ServicesStep
<1> QED BY <1>1, <1>2, PTL DEF Spec

-----------------------------------------------------------------------------
(* Once a poll has brought the chain's result home, the market stays in    *)
(* the archive with it, however many polls, with whatever listings, and    *)
(* timers follow (pollOnChainMarkets, refreshMarketTimersAndFairValues).   *)
THEOREM ResultStays == Spec => []ChainHasLastWord
<1>1. ServicesInv => ChainHasLastWord
    BY DEF ServicesInv, BookInv, ChainHasLastWord, Book!ChainHasLastWord
<1> QED BY <1>1, ServicesInvariant, PTL

(* From the close on, a market that resolves keeps the price it recorded,  *)
(* until it takes the settlement price the chain has published, and does   *)
(* not open again, unless a poll ends that read the clock before the close *)
(* (pollOnChainMarkets, refreshMarketTimersAndFairValues).                 *)
THEOREM SettlingIsKept == Spec => SettlingStays
<1>1. ServicesInv /\ [Next]_vars => [Settling]_(Book!bookVars)
    BY ServicesStep
<1>2. Spec => [][Settling]_(Book!bookVars)
    BY <1>1, ServicesInvariant, PTL DEF Spec
<1> QED BY <1>2 DEF SettlingStays, Book!SettlingStays, Settling

(* The seats of an address are its known clients, within the caps, for any *)
(* number of connections, addresses and limits (cleanupClient).            *)
THEOREM SeatsAlwaysCounted == Spec => []SeatsCounted
<1>1. ServicesInv => SeatsCounted
    BY DEF ServicesInv, SeatsInv, SeatsCounted
<1> QED BY <1>1, ServicesInvariant, PTL

(* A connection is closed for its rate only after as many different        *)
(* windows of its address, close to each other, were over the limit, for   *)
(* any limits, windows and decay (checkRateLimit).                         *)
THEOREM ClosedForAbuseOnly == Spec => []OnlySustainedAbuse
<1>1. ServicesInv => OnlySustainedAbuse
    BY DEF ServicesInv, AbuseInv, OnlySustainedAbuse, Gate!OnlySustainedAbuse
<1> QED BY <1>1, ServicesInvariant, PTL

(* Undisturbed updates all reach the row, however many overlap and         *)
(* whatever fields they change (upsertConfig).                             *)
THEOREM UpdatesReachTheRow == Spec => []NoUpdateLost
<1>1. ServicesInv => NoUpdateLost
    BY DEF ServicesInv, UserInv, CacheLeads, NoUpdateLost, User!NoUpdateLost, User!Exact,
           User!AtRest
<1> QED BY <1>1, ServicesInvariant, PTL

(* For every number of callers: whatever settles, times out or is retried, *)
(* nothing runs against the operator wallet but the operation being        *)
(* awaited and those of calls that were told of a time-out                 *)
(* (executeOperatorTx).                                                    *)
THEOREM WalletLeftToCurrentCall == Spec => []OnlyTimeOutsLinger
<1>1. ServicesInv => OnlyTimeOutsLinger
    BY DEF ServicesInv, QueueInv, OnlyTimeOutsLinger
<1> QED BY <1>1, ServicesInvariant, PTL

(* A caller told of success has had its transaction sent, and no call, not *)
(* even one that times out and lingers, sends more often than it was tried *)
(* (executeOperatorTx).                                                    *)
THEOREM AnswersHonest == Spec => []AnswersAreHonest
<1>1. ServicesInv => AnswersAreHonest
    BY DEF ServicesInv, QueueInv, AnswersAreHonest
<1> QED BY <1>1, ServicesInvariant, PTL

(* The serialisation the queue is there for (config/somnia.ts:154), and    *)
(* its exact limit: while no call has timed out, the wallet runs one       *)
(* operation at most.                                                      *)
THEOREM SerialUntilTimeOut ==
    Spec => []((\A c \in Calls : call[c].pc # "timedOut") => OperationsAreSerial)
<1>1. QueueInv => ((\A c \in Calls : call[c].pc # "timedOut") => OperationsAreSerial)
    <2> SUFFICES ASSUME QueueInv, \A c \in Calls : call[c].pc # "timedOut"
                 PROVE  OperationsAreSerial
        OBVIOUS
    <2>1. \A op \in operations : op.call = current
        BY DEF QueueInv, Queue!TypeOK, Queue!Operations, Queue!OnlyTimeOutsLinger, Queue!Awaited
    <2>2. \A op1, op2 \in operations : op1 = op2
        BY <2>1 DEF QueueInv, OneOperationEach
    <2>3. CASE operations = {}
        BY <2>3, FS_EmptySet, QueueCount DEF OperationsAreSerial, Queue!OperationsAreSerial
    <2>4. CASE operations # {}
        <3>1. PICK op \in operations : TRUE
            BY <2>4
        <3>2. operations = {op}
            BY <2>2, <3>1
        <3>3. Cardinality({op}) = 1
            BY FS_Singleton
        <3> QED BY <3>2, <3>3, QueueCount DEF OperationsAreSerial, Queue!OperationsAreSerial
    <2> QED BY <2>3, <2>4
<1>2. ServicesInv => QueueInv
    BY DEF ServicesInv
<1> QED BY <1>1, <1>2, ServicesInvariant, PTL
=============================================================================
