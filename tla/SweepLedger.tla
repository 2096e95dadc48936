------------------------------ MODULE SweepLedger ------------------------------
(***************************************************************************)
(* The books of payouts of one user and one market                         *)
(* (services/settlement-service.ts): the list of sweep records, the total  *)
(* the scanner subtracts from what an order is due, and the sweeps table   *)
(* both are hydrated from, at start-up and on demand.                      *)
(*                                                                         *)
(* Loading is paged and interleaves with new sweeps and with other loads.  *)
(* Every payout is one unit.                                               *)
(***************************************************************************)
EXTENDS Integers, Sequences, FiniteSets, SequencesExt

CONSTANTS
    Sweeps,       \* ids of payouts, numbers; each is made once
    Loaders,      \* hydrations (bounded): ensureUserSweepsLoaded or initializeFromDb
    PageSize,     \* pageSize
    RecordCap,    \* 50000, the bound recordSweep keeps
    ClaimCap,     \* 5000 =< RecordCap, the bound claimMarketPayout keeps
    MaxStamps,    \* bound on distinct claimed_at values
    MaxRestarts   \* bound on process restarts

VARIABLES
    payout,    \* per id: not made, booked by recordSweep, by claimMarketPayout
    claimedAt, \* its timestamp; the sweeps of one batch share theirs
    sweeps,    \* this.sweeps (and its index sweepsMap)
    total,     \* userSweptTotals of the user and the market
    loaded,    \* loadedUsers has the user
    table,     \* rows of the sweeps table
    writing,   \* inserts under way
    loader,    \* per hydration: its kind and its place in the pages
    evicted,   \* history: ids dropped from the list for its length
    here,      \* history: ids booked by recordSweep in this process
    restarts

ledgerVars == <<payout, claimedAt, sweeps, total, loaded, table, writing, loader, evicted,
                here, restarts>>

Idle == [kind |-> "idle", page |-> 0, before |-> MaxStamps + 1]
Ended == [Idle EXCEPT !.kind = "ended"]

TypeOK ==
    /\ payout \in [Sweeps -> {"none", "swept", "claimed"}]
    /\ claimedAt \in [Sweeps -> 0..MaxStamps]
    /\ ToSet(sweeps) \subseteq Sweeps
    /\ Len(sweeps) =< RecordCap + Cardinality(Sweeps)
    /\ total \in Nat
    /\ loaded \in BOOLEAN
    /\ table \subseteq Sweeps
    /\ writing \subseteq Sweeps
    /\ loader \in [Loaders -> [kind : {"idle", "user", "all", "ended"}, page : 0..Cardinality(Sweeps),
                               before : 1..MaxStamps + 1]]
    /\ evicted \subseteq Sweeps
    /\ here \subseteq Sweeps
    /\ restarts \in 0..MaxRestarts

-----------------------------------------------------------------------------
Made == {s \in Sweeps : payout[s] # "none"}

Latest == IF Made = {} THEN 1
          ELSE CHOOSE t \in 1..MaxStamps : /\ \E s \in Made : claimedAt[s] = t
                                           /\ \A s \in Made : claimedAt[s] =< t

(* order('claimed_at', { ascending: false }) over a set of rows; rows with *)
(* one timestamp come in an order that does not change.                    *)
Before(r, s) == \/ claimedAt[r] > claimedAt[s]
                \/ claimedAt[r] = claimedAt[s] /\ r < s

Place(s, S) == Cardinality({r \in S : Before(r, s)})

NewestFirst(S) == [i \in 1..Cardinality(S) |-> CHOOSE s \in S : Place(s, S) = i - 1]

(* The page of a query's rows that begins at an offset.                    *)
Page(S, offset) == {s \in S : Place(s, S) \in offset..(offset + PageSize - 1)}

(* unshift, then drop the last record if there are more than cap.          *)
PutFirst(s, cap) ==
    LET longer == <<s>> \o sweeps IN
    IF Len(longer) > cap
    THEN sweeps' = Front(longer) /\ evicted' = evicted \cup {Last(longer)}
    ELSE sweeps' = longer /\ UNCHANGED evicted

Init ==
    /\ payout = [s \in Sweeps |-> "none"]
    /\ claimedAt = [s \in Sweeps |-> 0]
    /\ sweeps = <<>>
    /\ total = 0
    /\ loaded = FALSE
    /\ table = {}
    /\ writing = {}
    /\ loader = [l \in Loaders |-> Idle]
    /\ evicted = {}
    /\ here = {}
    /\ restarts = 0

(* A payout with a fresh id, stamped like the one before it (the same      *)
(* batch) or later.                                                        *)
Mint(s, kind) ==
    /\ payout[s] = "none"
    /\ payout' = [payout EXCEPT ![s] = kind]
    /\ \E t \in {Latest, Latest + 1} \cap (1..MaxStamps) :
          claimedAt' = [claimedAt EXCEPT ![s] = t]

(* A mutation: the total is left to the next hydration.                    *)
RecordUncounted(s) ==
    /\ Mint(s, "swept")
    /\ PutFirst(s, RecordCap)
    /\ writing' = writing \cup {s}
    /\ here' = here \cup {s}
    /\ UNCHANGED <<total, loaded, table, loader, restarts>>

(* recordSweep of a CONFIRMED sweep: list, index and total in one go; the  *)
(* insert is fired and forgotten.                                          *)
RecordSweep(s) ==
    /\ Mint(s, "swept")
    /\ PutFirst(s, RecordCap)
    /\ total' = total + 1
    /\ writing' = writing \cup {s}
    /\ here' = here \cup {s}
    /\ UNCHANGED <<loaded, table, loader, restarts>>

(* The booking at the end of claimMarketPayout: list and index only.       *)
(* Without a transaction hash there is no insert.                          *)
ClaimMarketPayout(s) ==
    /\ Mint(s, "claimed")
    /\ PutFirst(s, ClaimCap)
    /\ writing' \in {writing, writing \cup {s}}
    /\ UNCHANGED <<total, loaded, table, loader, here, restarts>>

(* An insert lands or fails, with a warning at most.                       *)
InsertRow(s) ==
    /\ s \in writing
    /\ writing' = writing \ {s}
    /\ table' \in {table, table \cup {s}}
    /\ UNCHANGED <<payout, claimedAt, sweeps, total, loaded, loader, evicted, here, restarts>>

(* ensureUserSweepsLoaded finds the user not loaded.                       *)
BeginUserLoad(l) ==
    /\ loader[l].kind = "idle"
    /\ ~loaded
    /\ loader' = [loader EXCEPT ![l] = [Idle EXCEPT !.kind = "user"]]
    /\ UNCHANGED <<payout, claimedAt, sweeps, total, loaded, table, writing, evicted, here,
                   restarts>>

(* initializeFromDb: at start-up, and by a summary request that finds the  *)
(* list empty.  Everything in memory is cleared first.                     *)
BeginInitialize(l) ==
    /\ loader[l].kind = "idle"
    /\ sweeps = <<>>
    /\ total' = 0
    /\ loaded' = FALSE
    /\ loader' = [loader EXCEPT ![l] = [Idle EXCEPT !.kind = "all"]]
    /\ UNCHANGED <<payout, claimedAt, sweeps, table, writing, evicted, here, restarts>>

(* A mutation: rows are pushed without looking whether they are known.     *)
TakeAllRows(rows) ==
    /\ sweeps' = sweeps \o NewestFirst(rows)
    /\ total' = total + Cardinality(rows)

(* Rows that are not in the list are pushed behind it; all of them are     *)
(* added to the total.                                                     *)
TakeRows(rows) ==
    /\ sweeps' = sweeps \o NewestFirst(rows \ ToSet(sweeps))
    /\ total' = total + Cardinality(rows)

(* A mutation: the user counts as loaded from the first page on.           *)
UserPageTooSure(l) ==
    LET rows == Page(table, loader[l].page * PageSize) IN
    /\ loader[l].kind = "user"
    /\ TakeRows(rows)
    /\ loaded' = TRUE
    /\ loader' = [loader EXCEPT ![l] = IF Cardinality(rows) < PageSize THEN Ended
                                       ELSE [@ EXCEPT !.page = loader[l].page + 1]]
    /\ UNCHANGED <<payout, claimedAt, table, writing, evicted, here, restarts>>

(* One page by offset.  A short page is the last.                          *)
UserPage(l) ==
    LET rows == Page(table, loader[l].page * PageSize)
        last == Cardinality(rows) < PageSize
    IN
    /\ loader[l].kind = "user"
    /\ TakeRows(rows)
    /\ loaded' = (loaded \/ last)
    /\ loader' = [loader EXCEPT ![l] = IF last THEN Ended ELSE [@ EXCEPT !.page = loader[l].page + 1]]
    /\ UNCHANGED <<payout, claimedAt, table, writing, evicted, here, restarts>>

(* One page by cursor: the newest rows older than the last one seen.       *)
InitializePage(l) ==
    LET rows == Page({s \in table : claimedAt[s] < loader[l].before}, 0) IN
    /\ loader[l].kind = "all"
    /\ TakeRows(rows)
    /\ loader' = [loader EXCEPT ![l] = IF Cardinality(rows) < PageSize THEN Ended
                                       ELSE [@ EXCEPT !.before = Min({claimedAt[s] : s \in rows})]]
    /\ UNCHANGED <<payout, claimedAt, loaded, table, writing, evicted, here, restarts>>

(* A page fails: what was read before stays.  An exception, as opposed to  *)
(* an error in the answer, also unmarks the user.                          *)
LoadFails(l) ==
    /\ loader[l].kind \in {"user", "all"}
    /\ loader' = [loader EXCEPT ![l] = Ended]
    /\ loaded' \in {loaded, loaded /\ loader[l].kind = "all"}
    /\ UNCHANGED <<payout, claimedAt, sweeps, total, table, writing, evicted, here, restarts>>

(* The process dies; the inserts that were already sent land.  The first   *)
(* thing the new one does is initializeFromDb.                             *)
Restart(l) ==
    /\ restarts < MaxRestarts
    /\ loader[l].kind = "idle"
    /\ restarts' = restarts + 1
    /\ \E sent \in SUBSET writing : table' = table \cup sent
    /\ writing' = {}
    /\ sweeps' = <<>>
    /\ total' = 0
    /\ loaded' = FALSE
    /\ loader' = [k \in Loaders |-> IF k = l THEN [Idle EXCEPT !.kind = "all"]
                                   ELSE IF loader[k].kind = "idle" THEN Idle ELSE Ended]
    /\ evicted' = {}
    /\ here' = {}
    /\ UNCHANGED <<payout, claimedAt>>

Next ==
    \/ \E s \in Sweeps : RecordSweep(s) \/ ClaimMarketPayout(s) \/ InsertRow(s)
    \/ \E l \in Loaders : \/ BeginUserLoad(l) \/ BeginInitialize(l)
                          \/ UserPage(l) \/ InitializePage(l) \/ LoadFails(l)
                          \/ Restart(l)

Spec == Init /\ [][Next]_ledgerVars
-----------------------------------------------------------------------------
(* Properties                                                              *)

(* Once the user counts as loaded, no payout booked by recordSweep, in     *)
(* this process or in an earlier one that persisted it, is missing from    *)
(* the total the scanner subtracts; otherwise it would be paid again.      *)
PaymentsSubtracted ==
    loaded => Cardinality(here \cup {s \in table : payout[s] = "swept"}) =< total

(* Once the user counts as loaded, every row is in the list or was dropped *)
(* from it for its length, whatever pages shifted, failed or raced.        *)
LoadedIsComplete == loaded => table \subseteq ToSet(sweeps) \cup evicted

(* Overlapping hydrations and bookings never put one record twice into the *)
(* history shown to the user.                                              *)
HistoryHasNoDuplicates == IsInjective(sweeps)

(* "must never double-count CONFIRMED totals that anti-double-claim checks *)
(* rely on" (settlement-service.ts:262).                                   *)
NeverDoubleCounted == total =< Cardinality(Made)

(* "total swept amount for a given user and market"                        *)
(* (settlement-service.ts:237): no payout in the list is left out of it.   *)
ListedIsCounted == Len(sweeps) =< total
=============================================================================
