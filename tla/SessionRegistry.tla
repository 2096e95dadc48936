---------------------------- MODULE SessionRegistry ----------------------------
(***************************************************************************)
(* Which of a user's sessions is active: registration, look-up, revocation *)
(* and change events of services/session-service.ts, for one user.         *)
(*                                                                         *)
(* The truth is kept three times: in the records in memory, in the index   *)
(* from user to active session, and in the rows of the sessions table.     *)
(* Every request interleaves with every other at its awaits; a database    *)
(* write lands, or is lost without the request noticing.                   *)
(***************************************************************************)
EXTENDS Integers, Sequences, FiniteSets, SequencesExt, FiniteSetsExt

CONSTANTS
    Ids,            \* session ids; each is created by one registration
    Nonces,         \* nonces a client may sign
    Lookups,        \* requests that call getUserActiveSession
    WritesMayFail,  \* whether database writes can be lost
    MaxConcurrent,  \* bound on the requests in progress at a time
    MaxRestarts,    \* bound on process restarts
    None

ASSUME RegistryAssumption ==
    /\ IsFiniteSet(Ids)
    /\ IsFiniteSet(Lookups)
    /\ Nonces \subseteq Nat
    /\ WritesMayFail \in BOOLEAN
    /\ MaxConcurrent \in Nat
    /\ MaxRestarts \in Nat
    /\ None \notin Ids \cup Nat

VARIABLES
    mem,      \* this.sessions: is the record absent, active or inactive
    nonce,    \* the nonce of each registered session
    index,    \* userToActiveSessionId
    row,      \* the sessions table, in the same terms
    table,    \* ids in the order their rows were created
    wire,     \* row images on the realtime channel
    expired,  \* sessions past expires_at
    reg,      \* the registration of each id
    lookup,   \* the look-ups
    revoke,   \* the revocation of each id
    boot,     \* loadActiveSessionsFromDb: the ids it has read, or None
    restarts

registryVars == <<mem, nonce, index, row, table, wire, expired, reg, lookup, revoke, boot,
                  restarts>>

Status   == {"absent", "active", "inactive"}
RegSteps == {"idle", "nonce", "signed", "deactivating", "ready", "inserting", "done",
             "refused",     \* the nonce was used
             "failed"}      \* the session key did not fit

(* late: its expiresAt had passed when the request came; over: the session *)
(* it has retired, until its own is installed.                             *)
Registrations == [pc : RegSteps, nonce : Nat, used : BOOLEAN, late : BOOLEAN,
                  over : Ids \cup {None}]

TypeOK ==
    /\ mem \in [Ids -> Status]
    /\ nonce \in [Ids -> Nat \cup {None}]
    /\ index \in Ids \cup {None}
    /\ row \in [Ids -> Status]
    /\ ToSet(table) = {i \in Ids : row[i] # "absent"}
    /\ wire \subseteq Ids \X {"active", "inactive"}
    /\ expired \subseteq Ids
    /\ reg \in [Ids -> Registrations]
    /\ lookup \in [Lookups -> [pc : {"idle", "querying", "answered"}, seen : Ids \cup {None}]]
    /\ revoke \in [Ids -> {"no", "writing", "done"}]
    /\ boot \in (SUBSET Ids) \cup {None}
    /\ restarts \in 0..MaxRestarts

-----------------------------------------------------------------------------
Known   == {i \in Ids : mem[i] # "absent"}
Active  == {i \in Ids : mem[i] = "active"}
Revoked == {i \in Ids : revoke[i] # "no"}

(* A mutation: the is_active filter is missing from the queries.           *)
AllRows(S) == {i \in S : row[i] # "absent"}

ActiveRows(S) == {i \in S : row[i] = "active"}

(* order('created_at', { ascending: false }) over a set of rows.           *)
Newest(S) == CHOOSE i \in S : \A j \in S : \E a, b \in DOMAIN table :
                                 table[a] = i /\ table[b] = j /\ a >= b

Busy == Cardinality({i \in Ids : reg[i].pc \notin {"idle", "done", "refused", "failed"}})
          + Cardinality({i \in Ids : revoke[i] = "writing"})
          + Cardinality({l \in Lookups : lookup[l].pc # "idle"})

(* A mutation: the rows are deleted.                                       *)
DeleteRows(S) ==
    /\ row' = [i \in Ids |-> IF i \in ActiveRows(S) THEN "absent" ELSE row[i]]
    /\ UNCHANGED wire

(* update({ is_active: false }) on the active rows among S, and its echo.  *)
Deactivate(S) ==
    \/ /\ row' = [i \in Ids |-> IF i \in ActiveRows(S) THEN "inactive" ELSE row[i]]
       /\ wire' = wire \cup (ActiveRows(S) \X {"inactive"})
    \/ WritesMayFail /\ UNCHANGED <<row, wire>>

(* A mutation: the index goes on naming the session.                       *)
RetireRecordOnly(i) ==
    /\ mem' = [mem EXCEPT ![i] = "inactive"]
    /\ UNCHANGED index

(* The record of i stops being active, and the index stops naming it.      *)
Retire(i) ==
    /\ mem' = [mem EXCEPT ![i] = "inactive"]
    /\ index' = IF index = i THEN None ELSE index

Quiet == [pc |-> "idle", seen |-> None]

Init ==
    /\ mem = [i \in Ids |-> "absent"]
    /\ nonce = [i \in Ids |-> None]
    /\ index = None
    /\ row = [i \in Ids |-> "absent"]
    /\ table = <<>>
    /\ wire = {}
    /\ expired = {}
    /\ reg = [i \in Ids |-> [pc |-> "idle", nonce |-> 0, used |-> FALSE,
                            late |-> FALSE, over |-> None]]
    /\ lookup = [l \in Lookups |-> Quiet]
    /\ revoke = [i \in Ids |-> "no"]
    /\ boot = None
    /\ restarts = 0

(* registerSession up to the nonce query: the records in memory are        *)
(* searched for the signed nonce.                                          *)
RegisterBegin(i, n) ==
    /\ reg[i].pc = "idle"
    /\ row[i] = "absent"
    /\ Busy < MaxConcurrent
    /\ reg' = [reg EXCEPT ![i] = [pc |-> "nonce", nonce |-> n,
                                  used |-> \E j \in Known : nonce[j] = n,
                                  late |-> FALSE, over |-> None]]
    /\ UNCHANGED <<mem, nonce, index, row, table, wire, expired, lookup, revoke, boot, restarts>>

(* A mutation: the answers of the nonce search are not looked at.          *)
RegisterAnyNonce(i) ==
    /\ reg[i].pc = "nonce"
    /\ reg' = [reg EXCEPT ![i].pc = "signed"]
    /\ UNCHANGED <<mem, nonce, index, row, table, wire, expired, lookup, revoke, boot, restarts>>

(* The database answers, or fails and is taken to know no such nonce.      *)
RegisterNonce(i) ==
    /\ reg[i].pc = "nonce"
    /\ \E failed \in {FALSE, WritesMayFail} :
         LET used == \/ reg[i].used
                     \/ ~failed /\ \E j \in ToSet(table) : nonce[j] = reg[i].nonce
         IN reg' = [reg EXCEPT ![i].pc = IF used THEN "refused" ELSE "signed"]
    /\ UNCHANGED <<mem, nonce, index, row, table, wire, expired, lookup, revoke, boot, restarts>>

(* A mutation: the previous session is deactivated in the table only.      *)
RegisterSupersedeRow(i) ==
    /\ reg[i].pc = "signed"
    /\ reg' = [reg EXCEPT ![i] = [@ EXCEPT !.over = index,
                      !.pc = IF index = None THEN "ready" ELSE "deactivating"]]
    /\ UNCHANGED <<mem, nonce, index, row, table, wire, expired, lookup, revoke, boot, restarts>>

(* "Deactivate previous active sessions for this user", if the index       *)
(* names one: in memory now, in the table at the await.                    *)
RegisterSupersede(i) ==
    /\ reg[i].pc = "signed"
    /\ reg' = [reg EXCEPT ![i] = [@ EXCEPT !.over = index,
                      !.pc = IF index = None THEN "ready" ELSE "deactivating"]]
    /\ IF index = None
       THEN UNCHANGED mem
       ELSE mem' = [mem EXCEPT ![index] = IF @ = "absent" THEN @ ELSE "inactive"]
    /\ UNCHANGED <<nonce, index, row, table, wire, expired, lookup, revoke, boot, restarts>>

RegisterDeactivate(i) ==
    /\ reg[i].pc = "deactivating"
    /\ Deactivate(Ids)
    /\ reg' = [reg EXCEPT ![i].pc = "ready"]
    /\ UNCHANGED <<mem, nonce, index, table, expired, lookup, revoke, boot, restarts>>

(* The private key does not belong to the session key: the request throws, *)
(* and the session it has retired stays retired and in the index.          *)
RegisterReject(i) ==
    /\ reg[i].pc = "ready"
    /\ reg' = [reg EXCEPT ![i].pc = "failed"]
    /\ UNCHANGED <<mem, nonce, index, row, table, wire, expired, lookup, revoke, boot, restarts>>

(* After the policy check on chain: the new record and the index, which a  *)
(* session that is past its expiry does not enter but clears.              *)
RegisterInstall(i) ==
    /\ reg[i].pc = "ready"
    /\ nonce' = [nonce EXCEPT ![i] = reg[i].nonce]
    /\ \E late \in BOOLEAN :
         /\ reg' = [reg EXCEPT ![i] = [@ EXCEPT !.pc = "inserting", !.late = late,
                                                !.over = None]]
         /\ mem' = [mem EXCEPT ![i] = IF late THEN "inactive" ELSE "active"]
         /\ index' = IF late THEN None ELSE i
         /\ expired' = IF late THEN expired \cup {i} ELSE expired
    /\ UNCHANGED <<row, table, wire, lookup, revoke, boot, restarts>>

(* The insert carries is_active as it was decided before; it fails, like   *)
(* any write, without consequence, and always does on a nonce the table    *)
(* has (unique index idx_sessions_user_nonce).                             *)
RegisterInsert(i) ==
    LET taken  == \E j \in ToSet(table) : nonce[j] = nonce[i]
        status == IF reg[i].late THEN "inactive" ELSE "active"
    IN
    /\ reg[i].pc = "inserting"
    /\ reg' = [reg EXCEPT ![i].pc = "done"]
    /\ \/ /\ ~taken
          /\ row' = [row EXCEPT ![i] = status]
          /\ table' = Append(table, i)
          /\ wire' = wire \cup {<<i, status>>}
       \/ /\ WritesMayFail \/ taken
          /\ UNCHANGED <<row, table, wire>>
    /\ UNCHANGED <<mem, nonce, index, expired, lookup, revoke, boot, restarts>>

(* revokeSession: at once in memory, then in the table.                    *)
RevokeBegin(i) ==
    /\ revoke[i] = "no"
    /\ i \in Known \/ row[i] # "absent"
    /\ Busy < MaxConcurrent
    /\ revoke' = [revoke EXCEPT ![i] = "writing"]
    /\ IF i \in Known THEN Retire(i) ELSE UNCHANGED <<mem, index>>
    /\ UNCHANGED <<nonce, row, table, wire, expired, reg, lookup, boot, restarts>>

(* A mutation: the revocation is not written to the table.                 *)
RevokeInMemory(i) ==
    /\ revoke[i] = "writing"
    /\ revoke' = [revoke EXCEPT ![i] = "done"]
    /\ UNCHANGED <<mem, nonce, index, row, table, wire, expired, reg, lookup, boot, restarts>>

RevokeWrite(i) ==
    /\ revoke[i] = "writing"
    /\ Deactivate({i})
    /\ revoke' = [revoke EXCEPT ![i] = "done"]
    /\ UNCHANGED <<mem, nonce, index, table, expired, reg, lookup, boot, restarts>>

(* getUserActiveSession: a session in the index is served, and retired     *)
(* once it has expired.                                                    *)
LookupExpired ==
    /\ index \in Known \cap expired
    /\ Retire(index)
    /\ Deactivate({index})
    /\ UNCHANGED <<nonce, table, expired, reg, lookup, revoke, boot, restarts>>

(* Without one the table is asked for the user's newest active row.        *)
LookupBegin(l) ==
    /\ lookup[l].pc = "idle"
    /\ index \notin Known
    /\ Busy < MaxConcurrent
    /\ lookup' = [lookup EXCEPT ![l].pc = "querying"]
    /\ UNCHANGED <<mem, nonce, index, row, table, wire, expired, reg, revoke, boot, restarts>>

LookupQuery(l) ==
    /\ lookup[l].pc = "querying"
    /\ lookup' = [lookup EXCEPT ![l] =
          [pc |-> "answered",
           seen |-> IF ActiveRows(Ids) = {} THEN None ELSE Newest(ActiveRows(Ids))]]
    /\ UNCHANGED <<mem, nonce, index, row, table, wire, expired, reg, revoke, boot, restarts>>

(* The answer replaces whatever memory has come to know in the meantime.   *)
LookupInstall(l) ==
    LET i == lookup[l].seen IN
    /\ lookup[l].pc = "answered"
    /\ lookup' = [lookup EXCEPT ![l] = Quiet]
    /\ IF i = None \/ i \in expired
       THEN UNCHANGED <<mem, index>>
       ELSE mem' = [mem EXCEPT ![i] = "active"] /\ index' = i
    /\ UNCHANGED <<nonce, row, table, wire, expired, reg, revoke, boot, restarts>>

(* A mutation: the record takes over the image's is_active.                *)
DeliverStatus(i, status) ==
    LET active == status = "active" /\ i \notin expired IN
    /\ <<i, status>> \in wire
    /\ wire' = wire \ {<<i, status>>}
    /\ IF i \in Known /\ active
       THEN mem' = [mem EXCEPT ![i] = "active"] /\ index' = i
       ELSE UNCHANGED <<mem, index>>
    /\ UNCHANGED <<nonce, row, table, expired, reg, lookup, revoke, boot, restarts>>

(* The realtime handler: an image only deactivates, and the index follows  *)
(* the record in memory.                                                   *)
DeliverChange(i, status) ==
    LET stays == mem[i] = "active" /\ status = "active" /\ i \notin expired IN
    /\ <<i, status>> \in wire
    /\ wire' = wire \ {<<i, status>>}
    /\ CASE i \notin Known        -> UNCHANGED <<mem, index>>
         [] i \in Known /\ stays  -> index' = i /\ UNCHANGED mem
         [] i \in Known /\ ~stays -> Retire(i)
    /\ UNCHANGED <<nonce, row, table, expired, reg, lookup, revoke, boot, restarts>>

Expire(i) ==
    /\ i \in Known \ expired
    /\ expired' = expired \cup {i}
    /\ UNCHANGED <<mem, nonce, index, row, table, wire, reg, lookup, revoke, boot, restarts>>

(* getSessionById and validateTradeAllowance on an expired session: the    *)
(* record stops being active, the index still names it.                    *)
ReadExpired(i) ==
    /\ i \in Active \cap expired
    /\ mem' = [mem EXCEPT ![i] = "inactive"]
    /\ UNCHANGED <<nonce, index, row, table, wire, expired, reg, lookup, revoke, boot, restarts>>

(* The process dies with its memory and its requests, comes back and reads *)
(* the active rows; requests are served meanwhile.                         *)
Restart ==
    /\ restarts < MaxRestarts
    /\ restarts' = restarts + 1
    /\ mem' = [i \in Ids |-> "absent"]
    /\ index' = None
    /\ wire' = {}
    /\ reg' = [i \in Ids |-> [reg[i] EXCEPT !.pc = IF @ = "idle" THEN @ ELSE "done"]]
    /\ lookup' = [l \in Lookups |-> Quiet]
    /\ revoke' = [i \in Ids |-> IF revoke[i] = "no" THEN "no" ELSE "done"]
    /\ boot' = ActiveRows(Ids)
    /\ UNCHANGED <<nonce, row, table, expired>>

LoadActiveSessions ==
    /\ boot # None
    /\ LET fresh == boot \ Known
           live  == fresh \ expired
       IN /\ mem' = [i \in Ids |-> IF i \in live THEN "active"
                                   ELSE IF i \in fresh THEN "inactive" ELSE mem[i]]
          /\ index' = IF index = None /\ live # {} THEN Newest(live) ELSE index
    /\ boot' = None
    /\ UNCHANGED <<nonce, row, table, wire, expired, reg, lookup, revoke, restarts>>

Next ==
    \/ \E i \in Ids, n \in Nonces : RegisterBegin(i, n)
    \/ \E i \in Ids : \/ RegisterNonce(i)
                      \/ RegisterSupersede(i)
                      \/ RegisterDeactivate(i)
                      \/ RegisterReject(i)
                      \/ RegisterInstall(i)
                      \/ RegisterInsert(i)
                      \/ RevokeBegin(i)
                      \/ RevokeWrite(i)
                      \/ Expire(i)
                      \/ ReadExpired(i)
    \/ LookupExpired
    \/ \E l \in Lookups : LookupBegin(l) \/ LookupQuery(l) \/ LookupInstall(l)
    \/ \E i \in Ids, status \in {"active", "inactive"} : DeliverChange(i, status)
    \/ Restart
    \/ LoadActiveSessions

Spec == Init /\ [][Next]_registryVars
-----------------------------------------------------------------------------
(* Properties                                                              *)

(* An answer of the table that found the row active is under way.          *)
Answered(i) ==
    \/ \E l \in Lookups : lookup[l].seen = i
    \/ boot # None /\ i \in boot

(* Once a revocation is in the table and no answer taken before it is      *)
(* still under way, the session stays revoked: through restarts, reloads,  *)
(* stale images, look-ups and new registrations.                           *)
Buried(i) ==
    /\ mem[i] # "active"
    /\ row[i] = "inactive"
    /\ reg[i].pc # "inserting"
    /\ ~Answered(i)

PersistedRevocationIsFinal == [][\A i \in Ids : Buried(i) => Buried(i)']_registryVars

(* Revocations whose write was lost, or met such an answer, included: a    *)
(* session that is not active becomes so by its own registration or by an  *)
(* answer the table gave while its row was active, and an inactive row     *)
(* stays inactive.                                                         *)
OnlyTheTableRevives ==
    [][\A i \in Ids :
          /\ row[i] = "inactive" => row'[i] = "inactive"
          /\ mem[i] # "active" /\ mem'[i] = "active" => reg[i].pc = "ready" \/ Answered(i)
          /\ ~Answered(i) /\ Answered(i)' => row[i] = "active"]_registryVars

(* "must not resurrect a revoked/expired session"                          *)
(* (session-service.ts:241-243): no change event activates a record.       *)
ChangeEventsNeverActivate ==
    [][\A i \in Ids, s \in {"active", "inactive"} :
          DeliverChange(i, s) => Active' \subseteq Active]_registryVars

(* "Revokes an active session immediately" (session-service.ts:1288): a    *)
(* session the owner has revoked is not active afterwards.                 *)
RevocationSticks == \A i \in Revoked : mem[i] # "active"

(* "Deactivate previous active sessions for this user"                     *)
(* (session-service.ts:562): a user has one active session at a time.      *)
OneActiveSession == Cardinality(Active) <= 1

(* "ensure session nonce uniqueness & replay protection"                   *)
(* (supabase/migrations/018_session_nonce.sql:18): no two registrations    *)
(* are accepted for one signed nonce.                                      *)
NonceUsedOnce == \A i, j \in Ids : nonce[i] # None /\ nonce[i] = nonce[j] => i = j

(* The index and the records agree: no session is active but the one the   *)
(* index names, and what it names is active, unless it has expired or the  *)
(* registration that superseded it is at work or has failed.               *)
IndexNamesActive ==
    /\ Active \subseteq {index}
    /\ \/ index \in Active \cup expired \cup {None}
       \/ \E i \in Ids : /\ reg[i].pc \in {"deactivating", "ready", "failed"}
                         /\ reg[i].over = index

(* Full concurrency and failures included: a revocation that reached the   *)
(* table is not undone, what was not written comes back only as the table  *)
(* has it, and no change event activates a session (the realtime handler,  *)
(* getUserActiveSession, revokeSession).                                   *)
NothingRevives == PersistedRevocationIsFinal /\ OnlyTheTableRevives /\ ChangeEventsNeverActivate

(* There is one active session, and the index by user names it             *)
(* (registerSession, getUserActiveSession).                                *)
OneIndexedSession == OneActiveSession /\ IndexNamesActive

(* "reject a mismatched pair instead of storing a key"                     *)
(* (session-service.ts:600-601): a registration that fails leaves the user *)
(* the session that was there (violated, see the README).                  *)
FailedRegistrationIsHarmless ==
    \A i \in Ids : reg[i].pc = "failed" /\ index = reg[i].over
                     => index \in Active \cup expired \cup {None}
=============================================================================
