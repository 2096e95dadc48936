------------------------ MODULE SessionRegistryProofs ------------------------
(* For every number of sessions and requests: no revocation that is in the *)
(* table is undone, whatever interleaves, fails or restarts; and as long   *)
(* as requests come one at a time to a process that stays up, the user has *)
(* one active session, a nonce is used once and a revocation sticks.       *)
EXTENDS SessionRegistry, FiniteSetTheorems, WellFoundedInduction, TLAPS

USE RegistryAssumption

-----------------------------------------------------------------------------
(* The strengthening.  A registration inserts its row last, so a row that  *)
(* is there belongs to a registration that is over: none installs or       *)
(* inserts again what was revoked.  A row never goes, so that what a boot  *)
(* has read is in the table still.                                         *)

UnwrittenHasNoRow == \A i \in Ids : reg[i].pc # "done" => row[i] = "absent"

BootReadRows == boot # None => boot \subseteq ToSet(table)

RegistryInv ==
    /\ TypeOK
    /\ table \in Seq(Ids)
    /\ UnwrittenHasNoRow
    /\ BootReadRows

(* The newest of some rows of the table is one of them.                    *)
LEMMA NewestIsOne ==
    ASSUME RegistryInv, NEW S \in SUBSET ToSet(table), S # {}
    PROVE  Newest(S) \in S
<1> DEFINE Back == {Len(table) - a : a \in {b \in 1..Len(table) : table[b] \in S}}
<1>2. table \in Seq(Ids) /\ Len(table) \in Nat
    BY DEF RegistryInv
<1>3. \A j \in S : \E b \in 1..Len(table) : table[b] = j
    BY <1>2 DEF ToSet
<1>4. Back \subseteq Nat /\ Back # {}
    BY <1>2, <1>3
<1>5. PICK m \in Back : \A k \in Back : <<k, m>> \notin OpToRel(<, Nat)
    <2> HIDE DEF Back
    <2> QED BY <1>4, NatLessThanWellFounded, WFMin
<1>6. \A k \in Back : ~(k < m)
    <2> HIDE DEF Back
    <2> QED BY <1>4, <1>5, Zenon DEF OpToRel
<1>7. PICK a \in 1..Len(table) : table[a] \in S /\ m = Len(table) - a
    BY <1>5
<1>8. \A b \in 1..Len(table) : table[b] \in S => a >= b
    <2> SUFFICES ASSUME NEW b \in 1..Len(table), table[b] \in S
                 PROVE  a >= b
        OBVIOUS
    <2>1. Len(table) - b \in Back
        OBVIOUS
    <2>2. ~(Len(table) - b < m)
        BY <1>6, <2>1
    <2> QED BY <1>2, <1>7, <2>2
<1>9. \A j \in S : \E c, b \in DOMAIN table : table[c] = table[a] /\ table[b] = j /\ c >= b
    BY <1>2, <1>3, <1>7, <1>8
<1>10. \E i \in S : \A j \in S : \E c, b \in DOMAIN table : table[c] = i /\ table[b] = j /\ c >= b
    BY <1>7, <1>9
<1> HIDE DEF Back
<1> QED BY <1>10 DEF Newest

LEMMA InitRegistry == Init => RegistryInv
    BY DEF Init, RegistryInv, TypeOK, UnwrittenHasNoRow, BootReadRows, Status, RegSteps,
           Registrations, Quiet, ToSet

(* Deactivating rows leaves the types, and which rows there are.           *)
LEMMA DeactivateRows ==
    ASSUME RegistryInv, NEW S \in SUBSET Ids, Deactivate(S)
    PROVE  /\ row' \in [Ids -> Status]
           /\ wire' \subseteq Ids \X {"active", "inactive"}
           /\ \A i \in Ids : /\ row'[i] = "absent" <=> row[i] = "absent"
                             /\ row[i] = "inactive" => row'[i] = "inactive"
                             /\ row'[i] = "active" => row[i] = "active"
                             /\ ~WritesMayFail /\ i \in S => row'[i] # "active"
    BY DEF RegistryInv, TypeOK, Deactivate, ActiveRows, Status

(* A registration moves to step p, and no other one moves.                 *)
LEMMA RegMoves ==
    ASSUME RegistryInv, NEW i \in Ids, NEW p \in RegSteps,
           reg' = [reg EXCEPT ![i].pc = p]
    PROVE  /\ reg' \in [Ids -> Registrations]
           /\ reg'[i].pc = p
           /\ reg'[i].nonce = reg[i].nonce
           /\ reg'[i].used = reg[i].used
           /\ reg'[i].over = reg[i].over
           /\ \A j \in Ids \ {i} : reg'[j] = reg[j]
<1> DEFINE moved == [reg[i] EXCEPT !.pc = p]
<1>1. reg \in [Ids -> Registrations]
    BY DEF RegistryInv, TypeOK
<1>2. reg[i] \in Registrations
    BY <1>1
<1>3. /\ moved \in Registrations /\ moved.pc = p
      /\ moved.nonce = reg[i].nonce /\ moved.used = reg[i].used
      /\ moved.over = reg[i].over
    BY <1>2 DEF Registrations
<1>4. reg' = [reg EXCEPT ![i] = moved]
    OBVIOUS
<1> HIDE DEF moved
<1> QED BY <1>1, <1>3, <1>4

(* It also notes the session it supersedes, or what it installs.           *)
LEMMA RegSupersedes ==
    ASSUME RegistryInv, NEW i \in Ids, RegisterSupersede(i)
    PROVE  /\ reg' \in [Ids -> Registrations]
           /\ reg'[i].pc = IF index = None THEN "ready" ELSE "deactivating"
           /\ reg'[i].over = index
           /\ reg'[i].nonce = reg[i].nonce
           /\ reg'[i].used = reg[i].used
           /\ \A j \in Ids \ {i} : reg'[j] = reg[j]
<1> DEFINE p == IF index = None THEN "ready" ELSE "deactivating"
           moved == [reg[i] EXCEPT !.over = index, !.pc = p]
<1>1. reg \in [Ids -> Registrations] /\ index \in Ids \cup {None}
    BY DEF RegistryInv, TypeOK
<1>2. reg[i] \in Registrations /\ p \in RegSteps
    BY <1>1 DEF RegSteps
<1>3. reg' = [reg EXCEPT ![i] = moved]
    BY DEF RegisterSupersede
<1> HIDE DEF p
<1>4. /\ moved \in Registrations /\ moved.pc = p
      /\ moved.nonce = reg[i].nonce /\ moved.used = reg[i].used
      /\ moved.over = index
    BY <1>1, <1>2 DEF Registrations
<1> HIDE DEF moved
<1> QED BY <1>1, <1>3, <1>4 DEF p

LEMMA RegInstalls ==
    ASSUME RegistryInv, NEW i \in Ids, NEW p \in RegSteps, NEW b \in BOOLEAN,
           reg' = [reg EXCEPT ![i] = [@ EXCEPT !.pc = p, !.late = b, !.over = None]]
    PROVE  /\ reg' \in [Ids -> Registrations]
           /\ reg'[i].pc = p
           /\ reg'[i].nonce = reg[i].nonce
           /\ reg'[i].used = reg[i].used
           /\ \A j \in Ids \ {i} : reg'[j] = reg[j]
<1> DEFINE moved == [reg[i] EXCEPT !.pc = p, !.late = b, !.over = None]
<1>1. reg \in [Ids -> Registrations]
    BY DEF RegistryInv, TypeOK
<1>2. reg[i] \in Registrations
    BY <1>1
<1>3. /\ moved \in Registrations /\ moved.pc = p
      /\ moved.nonce = reg[i].nonce /\ moved.used = reg[i].used
    BY <1>2 DEF Registrations
<1>4. reg' = [reg EXCEPT ![i] = moved]
    OBVIOUS
<1> HIDE DEF moved
<1> QED BY <1>1, <1>3, <1>4

LEMMA RegBegins ==
    ASSUME RegistryInv, NEW i \in Ids, NEW n \in Nonces, RegisterBegin(i, n)
    PROVE  /\ reg' \in [Ids -> Registrations]
           /\ reg'[i].pc = "nonce"
           /\ reg'[i].nonce = n
           /\ ~reg'[i].used => \A j \in Known : nonce[j] # n
           /\ \A j \in Ids \ {i} : reg'[j] = reg[j]
<1> DEFINE begun == [pc |-> "nonce", nonce |-> n, used |-> \E j \in Known : nonce[j] = n,
                     late |-> FALSE, over |-> None]
<1>1. begun.used = (\E j \in Known : nonce[j] = n)
    OBVIOUS
<1>2. begun \in Registrations /\ begun.pc = "nonce" /\ begun.nonce = n
    BY DEF RegSteps, Registrations
<1>3. reg' = [reg EXCEPT ![i] = begun]
    BY DEF RegisterBegin
<1> HIDE DEF begun
<1>a. reg \in [Ids -> Registrations]
    BY DEF RegistryInv, TypeOK
<1>4. /\ reg' \in [Ids -> Registrations]
      /\ reg'[i] = begun
      /\ \A j \in Ids \ {i} : reg'[j] = reg[j]
    BY <1>2, <1>3, <1>a
<1>5. ~reg'[i].used => \A j \in Known : nonce[j] # n
    BY <1>1, <1>4, Zenon
<1> QED BY <1>2, <1>4, <1>5

LEMMA AppendAdds ==
    ASSUME NEW s \in Seq(Ids), NEW i \in Ids
    PROVE  Append(s, i) \in Seq(Ids) /\ ToSet(Append(s, i)) = ToSet(s) \cup {i}
<1>1. Append(s, i) \in Seq(Ids) /\ Len(Append(s, i)) = Len(s) + 1 /\ Len(s) \in Nat
    OBVIOUS
<1>2. /\ \A k \in 1..Len(s) : Append(s, i)[k] = s[k]
      /\ Append(s, i)[Len(s) + 1] = i
    OBVIOUS
<1>3. ToSet(s) = {s[k] : k \in 1..Len(s)}
    BY DEF ToSet
<1>4. ToSet(Append(s, i)) = {Append(s, i)[k] : k \in 1..(Len(s) + 1)}
    BY <1>1 DEF ToSet
<1>5. 1..(Len(s) + 1) = 1..Len(s) \cup {Len(s) + 1}
    BY <1>1
<1> QED BY <1>1, <1>2, <1>3, <1>4, <1>5

(* No step is two of a registration's.                                     *)
LEMMA RegFrom ==
    ASSUME RegistryInv, NEW i \in Ids
    PROVE  /\ RegisterNonce(i) => reg[i].pc = "nonce"
           /\ RegisterSupersede(i) => reg[i].pc = "signed"
           /\ RegisterDeactivate(i) => reg[i].pc = "deactivating"
           /\ RegisterReject(i) => reg[i].pc = "ready" /\ reg'[i].pc = "failed"
           /\ RegisterInstall(i) => reg[i].pc = "ready" /\ reg'[i].pc = "inserting"
           /\ RegisterInsert(i) => reg[i].pc = "inserting"
<1>1. RegisterReject(i) => reg'[i].pc = "failed"
    BY RegMoves DEF RegisterReject, RegSteps
<1>2. RegisterInstall(i) => reg'[i].pc = "inserting"
    BY RegInstalls DEF RegisterInstall, RegSteps
<1> QED BY <1>1, <1>2 DEF RegisterNonce, RegisterSupersede, RegisterDeactivate, RegisterReject,
                          RegisterInstall, RegisterInsert

(* What a step of a registration does to its entry.                        *)
LEMMA RegStep ==
    ASSUME RegistryInv, NEW i \in Ids,
           \/ RegisterNonce(i) \/ RegisterSupersede(i) \/ RegisterDeactivate(i)
           \/ RegisterReject(i) \/ RegisterInstall(i) \/ RegisterInsert(i)
    PROVE  /\ reg' \in [Ids -> Registrations]
           /\ reg'[i].nonce = reg[i].nonce
           /\ reg'[i].used = reg[i].used
           /\ \A j \in Ids \ {i} : reg'[j] = reg[j]
           /\ RegisterNonce(i) => reg'[i].pc \in {"refused", "signed"}
           /\ RegisterSupersede(i) =>
                /\ reg'[i].pc = IF index = None THEN "ready" ELSE "deactivating"
                /\ reg'[i].over = index
           /\ RegisterDeactivate(i) => reg'[i].pc = "ready" /\ reg'[i].over = reg[i].over
           /\ RegisterReject(i) => reg'[i].pc = "failed" /\ reg'[i].over = reg[i].over
           /\ RegisterInstall(i) => reg'[i].pc = "inserting"
           /\ RegisterInsert(i) => reg'[i].pc = "done"
<1>1. CASE RegisterSupersede(i)
    BY <1>1, RegFrom, RegSupersedes
<1>2. CASE RegisterInstall(i)
    <2>1. PICK late \in BOOLEAN :
            reg' = [reg EXCEPT ![i] = [@ EXCEPT !.pc = "inserting", !.late = late, !.over = None]]
        BY <1>2 DEF RegisterInstall
    <2>2. /\ ~RegisterNonce(i) /\ ~RegisterDeactivate(i) /\ ~RegisterReject(i)
          /\ ~RegisterSupersede(i) /\ ~RegisterInsert(i) /\ "inserting" \in RegSteps
        BY <1>2, RegFrom DEF RegSteps
    <2>3. /\ reg' \in [Ids -> Registrations]
          /\ reg'[i].pc = "inserting"
          /\ reg'[i].nonce = reg[i].nonce
          /\ reg'[i].used = reg[i].used
          /\ \A j \in Ids \ {i} : reg'[j] = reg[j]
        BY <2>1, <2>2, RegInstalls
    <2> QED BY <2>2, <2>3
<1>3. CASE RegisterNonce(i) \/ RegisterDeactivate(i) \/ RegisterReject(i) \/ RegisterInsert(i)
    <2>1. \E p \in RegSteps :
              /\ reg' = [reg EXCEPT ![i].pc = p]
              /\ RegisterNonce(i) => p \in {"refused", "signed"}
              /\ RegisterDeactivate(i) => p = "ready"
              /\ RegisterReject(i) => p = "failed"
              /\ RegisterInsert(i) => p = "done"
        <3>1. CASE RegisterNonce(i)
            <4>1. \E p \in {"refused", "signed"} : reg' = [reg EXCEPT ![i].pc = p]
                BY <3>1 DEF RegisterNonce
            <4> QED BY <3>1, <4>1, RegFrom DEF RegSteps
        <3>2. CASE RegisterDeactivate(i)
            BY <3>2, RegFrom DEF RegisterDeactivate, RegSteps
        <3>3. CASE RegisterReject(i)
            BY <3>3, RegFrom DEF RegisterReject, RegSteps
        <3>4. CASE RegisterInsert(i)
            BY <3>4, RegFrom DEF RegisterInsert, RegSteps
        <3> QED BY <1>3, <3>1, <3>2, <3>3, <3>4
    <2>2. ~RegisterSupersede(i) /\ ~RegisterInstall(i)
        BY <1>3, RegFrom
    <2> QED BY <2>1, <2>2, RegMoves
<1> QED BY <1>1, <1>2, <1>3
-----------------------------------------------------------------------------
(* Every step keeps the invariant.  First those of a registration.         *)
LEMMA RegisterKeeps ==
    ASSUME RegistryInv, NEW i \in Ids,
           \/ \E n \in Nonces : RegisterBegin(i, n)
           \/ RegisterNonce(i) \/ RegisterSupersede(i) \/ RegisterDeactivate(i)
           \/ RegisterReject(i) \/ RegisterInstall(i) \/ RegisterInsert(i)
    PROVE  RegistryInv'
<1> USE DEF RegistryInv, TypeOK
<1>1. CASE \E n \in Nonces : RegisterBegin(i, n)
    <2> PICK n \in Nonces : RegisterBegin(i, n)
        BY <1>1
    <2>1. reg[i].pc = "idle" /\ UNCHANGED <<mem, nonce, index, row, table, wire, expired,
                                            lookup, revoke, boot, restarts>>
        BY DEF RegisterBegin
    <2>2. UnwrittenHasNoRow' /\ BootReadRows'
        BY <2>1, RegBegins DEF UnwrittenHasNoRow, BootReadRows
    <2> QED BY <2>1, <2>2, RegBegins
<1>2. CASE RegisterNonce(i) \/ RegisterReject(i)
    <2>1. /\ reg[i].pc # "done"
          /\ UNCHANGED <<mem, nonce, index, row, table, wire, expired, lookup, revoke, boot,
                         restarts>>
        BY <1>2 DEF RegisterNonce, RegisterReject
    <2>2. UnwrittenHasNoRow' /\ BootReadRows'
        BY <1>2, <2>1, RegStep DEF UnwrittenHasNoRow, BootReadRows
    <2>3. reg' \in [Ids -> Registrations]
        BY <1>2, RegStep
    <2> QED BY <2>1, <2>2, <2>3
<1>3. CASE RegisterSupersede(i)
    <2>1. reg[i].pc = "signed" /\ UNCHANGED <<nonce, index, row, table, wire, expired,
                                              lookup, revoke, boot, restarts>>
        BY <1>3 DEF RegisterSupersede
    <2>2. mem' \in [Ids -> Status]
        <3>1. CASE index = None
            BY <1>3, <3>1 DEF RegisterSupersede
        <3>2. CASE index # None
            <4>1. mem' = [mem EXCEPT ![index] = IF @ = "absent" THEN @ ELSE "inactive"]
                BY <1>3, <3>2 DEF RegisterSupersede
            <4> QED BY <4>1 DEF Status
        <3> QED BY <3>1, <3>2
    <2>3. BootReadRows'
        BY <2>1 DEF BootReadRows
    <2>4. reg[i].pc # "done" /\ \A j \in Ids \ {i} : reg'[j] = reg[j]
        BY <1>3, <2>1, RegStep
    <2>5. UnwrittenHasNoRow'
        BY <2>1, <2>4 DEF UnwrittenHasNoRow
    <2> QED BY <1>3, <2>1, <2>2, <2>3, <2>5, RegStep
<1>4. CASE RegisterDeactivate(i)
    <2>1. /\ reg[i].pc = "deactivating" /\ Deactivate(Ids)
          /\ UNCHANGED <<mem, nonce, index, table, expired, lookup, revoke, boot, restarts>>
        BY <1>4 DEF RegisterDeactivate
    <2>a. /\ \A j \in Ids : row'[j] = "absent" <=> row[j] = "absent"
          /\ reg'[i].pc = "ready" /\ \A j \in Ids \ {i} : reg'[j] = reg[j]
        BY <1>4, <2>1, RegStep, DeactivateRows
    <2>2. UnwrittenHasNoRow' /\ BootReadRows'
        BY <2>1, <2>a DEF UnwrittenHasNoRow, BootReadRows
    <2>3. ToSet(table)' = {j \in Ids : row'[j] # "absent"}
        BY <2>1, DeactivateRows
    <2> QED BY <1>4, <2>1, <2>2, <2>3, RegStep, DeactivateRows
<1>5. CASE RegisterInstall(i)
    <2>1. /\ reg[i].pc = "ready"
          /\ nonce' = [nonce EXCEPT ![i] = reg[i].nonce]
          /\ mem' = [mem EXCEPT ![i] = "inactive"] \/ mem' = [mem EXCEPT ![i] = "active"]
          /\ index' \in {i, None}
          /\ expired' \in {expired, expired \cup {i}}
          /\ UNCHANGED <<row, table, wire, lookup, revoke, boot, restarts>>
        BY <1>5 DEF RegisterInstall
    <2>2. mem' \in [Ids -> Status] /\ nonce' \in [Ids -> Nat \cup {None}]
        BY <2>1 DEF Status, Registrations
    <2>3. BootReadRows'
        BY <2>1 DEF BootReadRows
    <2>4. reg[i].pc # "done" /\ \A j \in Ids \ {i} : reg'[j] = reg[j]
        BY <1>5, <2>1, RegStep
    <2>5. UnwrittenHasNoRow'
        BY <2>1, <2>4 DEF UnwrittenHasNoRow
    <2> QED BY <1>5, <2>1, <2>2, <2>3, <2>5, RegStep
<1>6. CASE RegisterInsert(i)
    <2>1. /\ reg[i].pc = "inserting"
          /\ UNCHANGED <<mem, nonce, index, expired, lookup, revoke, boot, restarts>>
          /\ \/ \E status \in {"active", "inactive"} :
                   /\ row' = [row EXCEPT ![i] = status]
                   /\ table' = Append(table, i)
                   /\ wire' = wire \cup {<<i, status>>}
             \/ UNCHANGED <<row, table, wire>>
        BY <1>6 DEF RegisterInsert
    <2>2. /\ table' \in Seq(Ids)
          /\ ToSet(table)' = {j \in Ids : row'[j] # "absent"}
          /\ ToSet(table) \subseteq ToSet(table)'
          /\ row' \in [Ids -> Status]
          /\ wire' \subseteq Ids \X {"active", "inactive"}
          /\ \A j \in Ids \ {i} : row'[j] = row[j]
        <3>1. CASE \E status \in {"active", "inactive"} :
                      /\ row' = [row EXCEPT ![i] = status]
                      /\ table' = Append(table, i)
                      /\ wire' = wire \cup {<<i, status>>}
            <4>1. table' \in Seq(Ids) /\ ToSet(table') = ToSet(table) \cup {i}
                BY <3>1, AppendAdds
            <4>2. row'[i] # "absent" /\ \A j \in Ids \ {i} : row'[j] = row[j]
                BY <3>1
            <4>3. row' \in [Ids -> Status]
                BY <3>1 DEF Status
            <4>4. wire' \subseteq Ids \X {"active", "inactive"}
                BY <3>1
            <4> QED BY <4>1, <4>2, <4>3, <4>4
        <3>2. CASE UNCHANGED <<row, table, wire>>
            BY <3>2
        <3> QED BY <2>1, <3>1, <3>2
    <2>3. reg'[i].pc = "done" /\ \A j \in Ids \ {i} : reg'[j] = reg[j]
        BY <1>6, RegStep
    <2>4. UnwrittenHasNoRow' /\ BootReadRows'
        BY <2>1, <2>2, <2>3 DEF UnwrittenHasNoRow, BootReadRows
    <2> QED BY <1>6, <2>1, <2>2, <2>4, RegStep
<1> QED BY <1>1, <1>2, <1>3, <1>4, <1>5, <1>6

(* Revocations, look-ups and expiries.                                     *)
LEMMA RequestKeeps ==
    ASSUME RegistryInv,
           \/ \E i \in Ids : RevokeBegin(i) \/ RevokeWrite(i) \/ Expire(i) \/ ReadExpired(i)
           \/ LookupExpired
           \/ \E l \in Lookups : LookupBegin(l) \/ LookupQuery(l) \/ LookupInstall(l)
    PROVE  RegistryInv'
<1> USE DEF RegistryInv, TypeOK
<1> DEFINE Looks == [pc : {"idle", "querying", "answered"}, seen : Ids \cup {None}]
<1>1. ASSUME NEW i \in Ids, RevokeBegin(i) \/ Expire(i) \/ ReadExpired(i)
      PROVE  RegistryInv'
    <2>1. UNCHANGED <<nonce, row, table, wire, reg, lookup, boot, restarts>>
        BY <1>1 DEF RevokeBegin, Expire, ReadExpired
    <2>2. CASE RevokeBegin(i)
        <3>1. /\ revoke' = [revoke EXCEPT ![i] = "writing"] /\ expired' = expired
              /\ Retire(i) \/ UNCHANGED <<mem, index>>
            BY <2>2 DEF RevokeBegin
        <3>2. mem' \in [Ids -> Status] /\ index' \in Ids \cup {None}
            BY <3>1 DEF Retire, Status
        <3>3. revoke' \in [Ids -> {"no", "writing", "done"}]
            BY <3>1
        <3> QED BY <2>1, <3>1, <3>2, <3>3 DEF UnwrittenHasNoRow, BootReadRows
    <2>3. CASE Expire(i)
        <3>1. expired' = expired \cup {i} /\ UNCHANGED <<mem, index, revoke>>
            BY <2>3 DEF Expire
        <3> QED BY <2>1, <3>1 DEF UnwrittenHasNoRow, BootReadRows
    <2>4. CASE ReadExpired(i)
        <3>1. mem' = [mem EXCEPT ![i] = "inactive"] /\ UNCHANGED <<index, revoke, expired>>
            BY <2>4 DEF ReadExpired
        <3>2. mem' \in [Ids -> Status]
            BY <3>1 DEF Status
        <3> QED BY <2>1, <3>1, <3>2 DEF UnwrittenHasNoRow, BootReadRows
    <2> QED BY <1>1, <2>2, <2>3, <2>4
<1>2. ASSUME NEW i \in Ids, RevokeWrite(i)
      PROVE  RegistryInv'
    <2>1. /\ Deactivate({i}) /\ revoke' = [revoke EXCEPT ![i] = "done"]
          /\ UNCHANGED <<mem, nonce, index, table, expired, reg, lookup, boot, restarts>>
        BY <1>2 DEF RevokeWrite
    <2>2. UnwrittenHasNoRow' /\ BootReadRows'
        <3>1. \A j \in Ids : row'[j] = "absent" <=> row[j] = "absent"
            BY <2>1, DeactivateRows
        <3>2. UnwrittenHasNoRow'
            BY <2>1, <3>1 DEF UnwrittenHasNoRow
        <3>3. BootReadRows'
            BY <2>1 DEF BootReadRows
        <3> QED BY <3>2, <3>3
    <2>3. ToSet(table)' = {j \in Ids : row'[j] # "absent"}
        BY <2>1, DeactivateRows
    <2> QED BY <2>1, <2>2, <2>3, DeactivateRows
<1>3. CASE LookupExpired
    <2>1. /\ index \in Ids /\ Retire(index) /\ Deactivate({index})
          /\ UNCHANGED <<nonce, table, expired, reg, lookup, revoke, boot, restarts>>
        BY <1>3 DEF LookupExpired
    <2>2. UnwrittenHasNoRow' /\ BootReadRows'
        <3>1. \A j \in Ids : row'[j] = "absent" <=> row[j] = "absent"
            BY <2>1, DeactivateRows
        <3>2. UnwrittenHasNoRow'
            BY <2>1, <3>1 DEF UnwrittenHasNoRow
        <3>3. BootReadRows'
            BY <2>1 DEF BootReadRows
        <3> QED BY <3>2, <3>3
    <2>3. ToSet(table)' = {j \in Ids : row'[j] # "absent"}
        BY <2>1, DeactivateRows
    <2>4. mem' \in [Ids -> Status] /\ index' \in Ids \cup {None}
        BY <2>1 DEF Retire, Status
    <2> QED BY <2>1, <2>2, <2>3, <2>4, DeactivateRows
<1>4. ASSUME NEW l \in Lookups, LookupBegin(l) \/ LookupQuery(l) \/ LookupInstall(l)
      PROVE  RegistryInv'
    <2>1. UNCHANGED <<nonce, row, table, wire, expired, reg, revoke, boot, restarts>>
        BY <1>4 DEF LookupBegin, LookupQuery, LookupInstall
    <2>2. mem' \in [Ids -> Status] /\ index' \in Ids \cup {None}
        <3>1. CASE LookupBegin(l) \/ LookupQuery(l)
            BY <3>1 DEF LookupBegin, LookupQuery
        <3>2. CASE LookupInstall(l)
            <4>1. lookup[l].seen \in Ids \cup {None}
                OBVIOUS
            <4> QED BY <3>2, <4>1 DEF LookupInstall, Status
        <3> QED BY <1>4, <3>1, <3>2
    <2>3. lookup' \in [Lookups -> Looks]
        <3>1. CASE LookupBegin(l)
            <4> DEFINE asking == [lookup[l] EXCEPT !.pc = "querying"]
            <4>a. lookup \in [Lookups -> Looks]
                OBVIOUS
            <4>b. lookup[l] \in Looks
                BY <4>a
            <4>1. asking \in Looks
                BY <4>b
            <4>2. lookup' = [lookup EXCEPT ![l] = asking]
                BY <3>1 DEF LookupBegin
            <4> HIDE DEF Looks, asking
            <4> QED BY <4>a, <4>1, <4>2
        <3>2. CASE LookupQuery(l)
            <4>1. ActiveRows(Ids) \subseteq ToSet(table)
                BY DEF ActiveRows
            <4>2. ActiveRows(Ids) # {} => Newest(ActiveRows(Ids)) \in Ids
                BY <4>1, NewestIsOne DEF ActiveRows
            <4> QED BY <3>2, <4>2 DEF LookupQuery
        <3>3. CASE LookupInstall(l)
            BY <3>3 DEF LookupInstall, Quiet
        <3> QED BY <1>4, <3>1, <3>2, <3>3
    <2>4. UnwrittenHasNoRow' /\ BootReadRows'
        BY <2>1 DEF UnwrittenHasNoRow, BootReadRows
    <2> QED BY <2>1, <2>2, <2>3, <2>4
<1> QED BY <1>1, <1>2, <1>3, <1>4

(* Change events, a restart and the boot's answer.                         *)
LEMMA WorldKeeps ==
    ASSUME RegistryInv,
           \/ \E i \in Ids, status \in {"active", "inactive"} : DeliverChange(i, status)
           \/ Restart
           \/ LoadActiveSessions
    PROVE  RegistryInv'
<1> USE DEF RegistryInv, TypeOK
<1>1. ASSUME NEW i \in Ids, NEW status \in {"active", "inactive"}, DeliverChange(i, status)
      PROVE  RegistryInv'
    <2>1. /\ wire' \subseteq wire
          /\ UNCHANGED <<nonce, row, table, expired, reg, lookup, revoke, boot, restarts>>
        BY <1>1 DEF DeliverChange
    <2>2. mem' \in [Ids -> Status] /\ index' \in Ids \cup {None}
        BY <1>1 DEF DeliverChange, Retire, Status
    <2>3. UnwrittenHasNoRow' /\ BootReadRows'
        BY <2>1 DEF UnwrittenHasNoRow, BootReadRows
    <2> QED BY <2>1, <2>2, <2>3
<1>2. CASE Restart
    <2>1. /\ restarts < MaxRestarts /\ restarts' = restarts + 1
          /\ mem' = [i \in Ids |-> "absent"] /\ index' = None /\ wire' = {}
          /\ reg' = [i \in Ids |-> [reg[i] EXCEPT !.pc = IF @ = "idle" THEN @ ELSE "done"]]
          /\ lookup' = [l \in Lookups |-> Quiet]
          /\ revoke' = [i \in Ids |-> IF revoke[i] = "no" THEN "no" ELSE "done"]
          /\ boot' = ActiveRows(Ids)
          /\ UNCHANGED <<nonce, row, table, expired>>
        BY <1>2 DEF Restart
    <2>2. ASSUME NEW i \in Ids
          PROVE  /\ reg'[i] \in Registrations
                 /\ reg'[i].pc # "done" => reg[i].pc # "done"
        <3>1. reg[i] \in Registrations
            OBVIOUS
        <3>2. reg'[i] = [reg[i] EXCEPT !.pc = IF reg[i].pc = "idle" THEN "idle" ELSE "done"]
            BY <2>1
        <3> HIDE DEF RegistryInv, TypeOK
        <3> QED BY <3>1, <3>2 DEF RegSteps, Registrations
    <2>3. reg' \in [Ids -> Registrations]
        <3>1. reg' = [i \in Ids |-> reg'[i]]
            BY <2>1
        <3> HIDE DEF RegistryInv, TypeOK
        <3> QED BY <2>2, <3>1
    <2>4. UnwrittenHasNoRow'
        BY <2>1, <2>2 DEF UnwrittenHasNoRow
    <2>5. boot' \in SUBSET Ids /\ boot' \subseteq ToSet(table)
        BY <2>1 DEF ActiveRows
    <2>6. BootReadRows'
        BY <2>1, <2>5 DEF BootReadRows
    <2>7. mem' \in [Ids -> Status] /\ revoke' \in [Ids -> {"no", "writing", "done"}]
        BY <2>1 DEF Status
    <2>8. lookup' \in [Lookups -> [pc : {"idle", "querying", "answered"}, seen : Ids \cup {None}]]
        BY <2>1 DEF Quiet
    <2>9. restarts' \in 0..MaxRestarts
        BY <2>1
    <2> QED BY <2>1, <2>3, <2>4, <2>5, <2>6, <2>7, <2>8, <2>9
<1>3. CASE LoadActiveSessions
    <2> DEFINE fresh == boot \ Known
               live  == fresh \ expired
    <2>1. /\ boot # None /\ boot' = None
          /\ mem' = [i \in Ids |-> IF i \in live THEN "active"
                                   ELSE IF i \in fresh THEN "inactive" ELSE mem[i]]
          /\ index' = IF index = None /\ live # {} THEN Newest(live) ELSE index
          /\ UNCHANGED <<nonce, row, table, wire, expired, reg, lookup, revoke, restarts>>
        BY <1>3 DEF LoadActiveSessions
    <2>2. live \subseteq ToSet(table) /\ live \subseteq Ids
        BY <2>1 DEF BootReadRows
    <2> HIDE DEF live, fresh
    <2>3. live # {} => Newest(live) \in Ids
        BY <2>2, NewestIsOne
    <2>4. index' \in Ids \cup {None}
        BY <2>1, <2>3
    <2>5. mem' \in [Ids -> Status]
        BY <2>1 DEF Status
    <2>6. UnwrittenHasNoRow' /\ BootReadRows'
        BY <2>1 DEF UnwrittenHasNoRow, BootReadRows
    <2>7. TypeOK'
        BY <2>1, <2>4, <2>5
    <2>8. table' \in Seq(Ids)
        BY <2>1
    <2> QED BY <2>6, <2>7, <2>8
<1> HIDE DEF RegistryInv, TypeOK
<1> QED BY <1>1, <1>2, <1>3

LEMMA RegistryStep == RegistryInv /\ [Next]_registryVars => RegistryInv'
<1> SUFFICES ASSUME RegistryInv, [Next]_registryVars
             PROVE  RegistryInv'
    OBVIOUS
<1>1. CASE UNCHANGED registryVars
    BY <1>1 DEF registryVars, RegistryInv, TypeOK, UnwrittenHasNoRow, BootReadRows
<1>2. CASE Next
    BY <1>2, RegisterKeeps, RequestKeeps, WorldKeeps DEF Next
<1> QED BY <1>1, <1>2

LEMMA RegistryInvariant == Spec => []RegistryInv
<1>1. Init => RegistryInv
    BY InitRegistry
<1>2. RegistryInv /\ [Next]_registryVars => RegistryInv'
    BY RegistryStep
<1> QED BY <1>1, <1>2, PTL DEF Spec
-----------------------------------------------------------------------------
(* What a step does to a session whose revocation is buried: nothing.  The *)
(* only steps that activate a record or a row are the installation and the *)
(* insert of its registration, which is over; the answer of a look-up,     *)
(* which has not seen it; and a boot, which has not read it.               *)
LEMMA BuriedStays ==
    ASSUME RegistryInv, [Next]_registryVars, NEW i \in Ids, Buried(i)
    PROVE  Buried(i)'
<1> USE DEF Buried, Answered
<1>0. reg[i].pc = "done"
    BY DEF RegistryInv, UnwrittenHasNoRow
<1>1. CASE UNCHANGED registryVars
    BY <1>1 DEF registryVars
<1>2. ASSUME NEW j \in Ids,
             \/ \E n \in Nonces : RegisterBegin(j, n)
             \/ RegisterNonce(j) \/ RegisterSupersede(j) \/ RegisterReject(j)
             \/ RegisterInstall(j) \/ RegisterInsert(j)
      PROVE  Buried(i)'
    <2>1. j # i
        BY <1>0, <1>2 DEF RegisterBegin, RegisterNonce, RegisterSupersede, RegisterReject,
                          RegisterInstall, RegisterInsert
    <2>2. reg'[i] = reg[i]
        BY <1>2, <2>1, RegBegins, RegStep
    <2>3. UNCHANGED <<lookup, boot>> /\ row'[i] = row[i]
        BY <1>2, <2>1 DEF RegisterBegin, RegisterNonce, RegisterSupersede, RegisterReject,
                          RegisterInstall, RegisterInsert, RegistryInv, TypeOK
    <2>4. mem'[i] # "active"
        BY <1>2, <2>1 DEF RegisterBegin, RegisterNonce, RegisterSupersede, RegisterReject,
                          RegisterInstall, RegisterInsert, RegistryInv, TypeOK
    <2> QED BY <1>0, <2>2, <2>3, <2>4
<1>3. ASSUME NEW j \in Ids, RegisterDeactivate(j)
      PROVE  Buried(i)'
    <2>1. Deactivate(Ids) /\ UNCHANGED <<mem, lookup, boot>> /\ reg[j].pc = "deactivating"
        BY <1>3 DEF RegisterDeactivate
    <2>2. row'[i] = "inactive"
        BY <2>1, DeactivateRows
    <2>3. reg'[i].pc # "inserting"
        BY <1>3, RegStep
    <2> QED BY <2>1, <2>2, <2>3
<1>4. ASSUME NEW j \in Ids,
             RevokeBegin(j) \/ RevokeWrite(j) \/ Expire(j) \/ ReadExpired(j) \/ LookupExpired
      PROVE  Buried(i)'
    <2>1. UNCHANGED <<reg, lookup, boot>>
        BY <1>4 DEF RevokeBegin, RevokeWrite, Expire, ReadExpired, LookupExpired
    <2>2. row'[i] = "inactive"
        <3>1. row' = row \/ Deactivate({j}) \/ (index \in Ids /\ Deactivate({index}))
            BY <1>4 DEF RevokeBegin, RevokeWrite, Expire, ReadExpired, LookupExpired, Known
        <3> QED BY <3>1, DeactivateRows
    <2>3. mem'[i] # "active"
        BY <1>4 DEF RevokeBegin, RevokeWrite, Expire, ReadExpired, LookupExpired, Retire,
                    RegistryInv, TypeOK
    <2> QED BY <2>1, <2>2, <2>3
<1>5. ASSUME NEW l \in Lookups, LookupBegin(l) \/ LookupQuery(l) \/ LookupInstall(l)
      PROVE  Buried(i)'
    <2>1. UNCHANGED <<reg, row, boot>>
        BY <1>5 DEF LookupBegin, LookupQuery, LookupInstall
    <2>2. ActiveRows(Ids) # {} => Newest(ActiveRows(Ids)) # i
        <3>1. ActiveRows(Ids) \subseteq ToSet(table)
            BY DEF ActiveRows, RegistryInv, TypeOK
        <3>2. i \notin ActiveRows(Ids)
            BY DEF ActiveRows
        <3> QED BY <3>1, <3>2, NewestIsOne
    <2>3. ASSUME NEW m \in Lookups
          PROVE  lookup'[m].seen # i
        <3>1. lookup[m].seen # i /\ lookup[l] \in [pc : {"idle", "querying", "answered"},
                                                   seen : Ids \cup {None}]
            BY DEF RegistryInv, TypeOK
        <3>2. DOMAIN lookup = Lookups
            BY DEF RegistryInv, TypeOK
        <3>3. CASE LookupBegin(l)
            <4>1. lookup' = [lookup EXCEPT ![l] = [lookup[l] EXCEPT !.pc = "querying"]]
                BY <3>3 DEF LookupBegin
            <4>2. [lookup[l] EXCEPT !.pc = "querying"].seen = lookup[l].seen
                BY <3>1
            <4> QED BY <3>1, <3>2, <4>1, <4>2
        <3>4. CASE LookupQuery(l)
            BY <2>2, <3>1, <3>2, <3>4 DEF LookupQuery, RegistryInv, TypeOK
        <3>5. CASE LookupInstall(l)
            BY <3>1, <3>2, <3>5 DEF LookupInstall, Quiet, RegistryInv, TypeOK
        <3> QED BY <1>5, <3>3, <3>4, <3>5
    <2>4. mem'[i] # "active"
        BY <1>5 DEF LookupBegin, LookupQuery, LookupInstall, RegistryInv, TypeOK
    <2> QED BY <2>1, <2>3, <2>4
<1>6. ASSUME NEW j \in Ids, NEW s \in {"active", "inactive"}, DeliverChange(j, s)
      PROVE  Buried(i)'
    BY <1>6 DEF DeliverChange, Retire, RegistryInv, TypeOK
<1>7. CASE Restart
    <2>0. reg[i] \in Registrations
        BY DEF RegistryInv, TypeOK
    <2>1. reg'[i].pc # "inserting"
        BY <1>7, <2>0 DEF Restart, Registrations
    <2> QED BY <1>7, <2>1 DEF Restart, Quiet, ActiveRows
<1>8. CASE LoadActiveSessions
    BY <1>8 DEF LoadActiveSessions, RegistryInv, TypeOK
<1> QED BY <1>1, <1>2, <1>3, <1>4, <1>5, <1>6, <1>7, <1>8 DEF Next

(* What becomes active again was answered active by the table.             *)
LEMMA AnswersRevive ==
    ASSUME RegistryInv, [Next]_registryVars, NEW i \in Ids
    PROVE  /\ row[i] = "inactive" => row'[i] = "inactive"
           /\ mem[i] # "active" /\ mem'[i] = "active" => reg[i].pc = "ready" \/ Answered(i)
           /\ ~Answered(i) /\ Answered(i)' => row[i] = "active"
<1> USE DEF Answered, RegistryInv, TypeOK
<1>1. CASE UNCHANGED registryVars
    BY <1>1 DEF registryVars
<1>2. ASSUME NEW j \in Ids,
             \/ \E n \in Nonces : RegisterBegin(j, n)
             \/ RegisterNonce(j) \/ RegisterSupersede(j) \/ RegisterReject(j)
             \/ RegisterInstall(j) \/ RegisterInsert(j)
      PROVE  /\ row[i] = "inactive" => row'[i] = "inactive"
             /\ mem[i] # "active" /\ mem'[i] = "active" => reg[i].pc = "ready"
             /\ UNCHANGED <<lookup, boot>>
    <2>1. reg[j].pc = "inserting" => row[j] = "absent"
        BY DEF UnwrittenHasNoRow
    <2> QED BY <1>2, <2>1 DEF RegisterBegin, RegisterNonce, RegisterSupersede, RegisterReject,
                              RegisterInstall, RegisterInsert
<1>3. ASSUME NEW j \in Ids, RegisterDeactivate(j)
      PROVE  row[i] = "inactive" => row'[i] = "inactive"
    <2>1. Deactivate(Ids)
        BY <1>3 DEF RegisterDeactivate
    <2> QED BY <2>1, DeactivateRows
<1>4. ASSUME NEW j \in Ids, RegisterDeactivate(j)
      PROVE  UNCHANGED <<mem, lookup, boot>>
    BY <1>4 DEF RegisterDeactivate
<1>5. ASSUME NEW j \in Ids,
             RevokeBegin(j) \/ RevokeWrite(j) \/ Expire(j) \/ ReadExpired(j) \/ LookupExpired
      PROVE  /\ row[i] = "inactive" => row'[i] = "inactive"
             /\ mem'[i] = "active" => mem[i] = "active"
             /\ UNCHANGED <<lookup, boot>>
    <2>1. row' = row \/ Deactivate({j}) \/ (index \in Ids /\ Deactivate({index}))
        BY <1>5 DEF RevokeBegin, RevokeWrite, Expire, ReadExpired, LookupExpired, Known
    <2>2. row[i] = "inactive" => row'[i] = "inactive"
        BY <2>1, DeactivateRows
    <2> QED BY <1>5, <2>2 DEF RevokeBegin, RevokeWrite, Expire, ReadExpired, LookupExpired,
                              Retire
<1>6. ASSUME NEW l \in Lookups, LookupBegin(l) \/ LookupQuery(l) \/ LookupInstall(l)
      PROVE  /\ UNCHANGED <<row, boot>>
             /\ mem[i] # "active" /\ mem'[i] = "active" => lookup[l].seen = i
             /\ \A m \in Lookups : lookup'[m].seen = i =>
                   lookup[m].seen = i \/ row[i] = "active"
    <2>1. UNCHANGED <<row, boot>>
        BY <1>6 DEF LookupBegin, LookupQuery, LookupInstall
    <2>2. mem[i] # "active" /\ mem'[i] = "active" => lookup[l].seen = i
        BY <1>6 DEF LookupBegin, LookupQuery, LookupInstall
    <2>3. ActiveRows(Ids) # {} => Newest(ActiveRows(Ids)) \in ActiveRows(Ids)
        <3>1. ActiveRows(Ids) \subseteq ToSet(table)
            BY DEF ActiveRows
        <3> QED BY <3>1, NewestIsOne
    <2>4. ASSUME NEW m \in Lookups, lookup'[m].seen = i
          PROVE  lookup[m].seen = i \/ row[i] = "active"
        <3>1. CASE LookupBegin(l)
            <4>1. lookup' = [lookup EXCEPT ![l] = [lookup[l] EXCEPT !.pc = "querying"]]
                BY <3>1 DEF LookupBegin
            <4>2. [lookup[l] EXCEPT !.pc = "querying"].seen = lookup[l].seen
                OBVIOUS
            <4> QED BY <2>4, <4>1, <4>2
        <3>2. CASE LookupQuery(l)
            BY <2>3, <2>4, <3>2 DEF LookupQuery, ActiveRows
        <3>3. CASE LookupInstall(l)
            BY <2>4, <3>3 DEF LookupInstall, Quiet
        <3> QED BY <1>6, <3>1, <3>2, <3>3
    <2> QED BY <2>1, <2>2, <2>4
<1>7. ASSUME NEW j \in Ids, NEW s \in {"active", "inactive"}, DeliverChange(j, s)
      PROVE  /\ mem'[i] = "active" => mem[i] = "active"
             /\ UNCHANGED <<row, lookup, boot>>
    BY <1>7 DEF DeliverChange, Retire
<1>8. CASE Restart
    BY <1>8 DEF Restart, Quiet, ActiveRows
<1>9. CASE LoadActiveSessions
    BY <1>9 DEF LoadActiveSessions
<1> HIDE DEF RegistryInv, TypeOK
<1> QED BY <1>1, <1>2, <1>3, <1>4, <1>5, <1>6, <1>7, <1>8, <1>9 DEF Next

LEMMA EventsOnlyDeactivate ==
    ASSUME RegistryInv, NEW i \in Ids, NEW s \in {"active", "inactive"}, DeliverChange(i, s)
    PROVE  Active' \subseteq Active
    BY DEF DeliverChange, Retire, Active, RegistryInv, TypeOK, Known

(* Whatever fails, interleaves or restarts: a revocation that reached the  *)
(* table stays; a session that is not active becomes so by its own         *)
(* registration, or by an answer the table gave while its row was active;  *)
(* and no change event activates one (getUserActiveSession, the realtime   *)
(* handler, loadActiveSessionsFromDb).                                     *)
THEOREM RevocationIsFinal == Spec => NothingRevives
<1>1. RegistryInv /\ [Next]_registryVars => [\A i \in Ids : Buried(i) => Buried(i)']_registryVars
    BY BuriedStays
<1>2. RegistryInv /\ [Next]_registryVars =>
        [\A i \in Ids, s \in {"active", "inactive"} :
            DeliverChange(i, s) => Active' \subseteq Active]_registryVars
    BY EventsOnlyDeactivate
<1>3. RegistryInv /\ [Next]_registryVars =>
        [\A i \in Ids :
            /\ row[i] = "inactive" => row'[i] = "inactive"
            /\ mem[i] # "active" /\ mem'[i] = "active" => reg[i].pc = "ready" \/ Answered(i)
            /\ ~Answered(i) /\ Answered(i)' => row[i] = "active"]_registryVars
    BY AnswersRevive
<1>4. Spec => PersistedRevocationIsFinal
    BY <1>1, RegistryInvariant, PTL DEF Spec, PersistedRevocationIsFinal
<1>5. Spec => ChangeEventsNeverActivate
    BY <1>2, RegistryInvariant, PTL DEF Spec, ChangeEventsNeverActivate
<1>6. Spec => OnlyTheTableRevives
    BY <1>3, RegistryInvariant, PTL DEF Spec, OnlyTheTableRevives
<1> QED BY <1>4, <1>5, <1>6 DEF NothingRevives
-----------------------------------------------------------------------------
(* One request at a time, and a process that stays up.                     *)
OneAtATime == MaxConcurrent = 1 /\ MaxRestarts = 0

Registering == {i \in Ids : reg[i].pc \notin {"idle", "done", "refused", "failed"}}
Revoking    == {i \in Ids : revoke[i] = "writing"}
Looking     == {l \in Lookups : lookup[l].pc # "idle"}
Superseding == {i \in Ids : reg[i].pc \in {"deactivating", "ready"}}

OneRequest ==
    /\ \A i, j \in Registering : i = j
    /\ \A l, m \in Looking : l = m
    /\ Registering = {} \/ (Revoking = {} /\ Looking = {})
    /\ Revoking = {} \/ Looking = {}

(* Memory knows the sessions that were installed, and they have a nonce;   *)
(* only they are revoked or seen by a look-up.                             *)
KnowsInstalled ==
    /\ boot = None
    /\ \A i \in Ids : /\ mem[i] # "absent" <=> reg[i].pc \in {"inserting", "done"}
                      /\ nonce[i] # None => mem[i] # "absent"
                      /\ revoke[i] # "no" => reg[i].pc = "done"
    /\ \A l \in Lookups : lookup[l].seen # None => reg[lookup[l].seen].pc = "done"

(* A registration that goes on has found its nonce unused, and it stays so *)
(* because no other one installs its own meanwhile.                        *)
NonceSearched ==
    \A i \in Registering :
        \/ reg[i].pc = "nonce" /\ reg[i].used
        \/ reg[i].pc = "inserting"
        \/ \A j \in Ids : nonce[j] # reg[i].nonce

(* The index names whatever is active, and names nothing during a look-up; *)
(* a registration that has retired the previous session finds none active. *)
(* An index that names an inactive session which has not expired is what   *)
(* the registration that superseded it left, at work or failed.            *)
Left ==
    \E i \in Ids : reg[i].pc \in {"deactivating", "ready", "failed"} /\ reg[i].over = index

IndexFollows ==
    /\ Active \subseteq {index}
    /\ index # None => index \in Active \/ index \in expired \/ Left
    /\ index # None => index \in Known
    /\ Looking # {} => index = None
    /\ Superseding # {} => Active = {}

SerialInv ==
    /\ RegistryInv
    /\ OneRequest
    /\ KnowsInstalled
    /\ NonceSearched
    /\ NonceUsedOnce
    /\ IndexFollows

(* With writes that arrive, the table says of a revoked session what       *)
(* memory says, and no look-up brings it back.                             *)
RevocationInv ==
    /\ RevocationSticks
    /\ \A i \in Ids : revoke[i] = "done" => row[i] # "active"
    /\ \A l \in Lookups : /\ lookup[l].seen # None => revoke[lookup[l].seen] = "no"
                          /\ lookup[l].pc # "answered" => lookup[l].seen = None

LEMMA InitSerial == Init => SerialInv /\ RevocationInv
<1> SUFFICES ASSUME Init
             PROVE  SerialInv /\ RevocationInv
    OBVIOUS
<1>1. RegistryInv
    BY InitRegistry
<1>2. Registering = {} /\ Revoking = {} /\ Looking = {} /\ Superseding = {} /\ Active = {}
    BY DEF Init, Registering, Revoking, Looking, Superseding, Active, Quiet
<1>3. OneRequest /\ NonceSearched
    BY <1>2 DEF OneRequest, NonceSearched
<1>4. KnowsInstalled /\ NonceUsedOnce /\ RevocationInv
    BY DEF Init, KnowsInstalled, NonceUsedOnce, RevocationInv, RevocationSticks, Revoked, Quiet
<1>5. IndexFollows
    BY <1>2 DEF Init, IndexFollows
<1> QED BY <1>1, <1>3, <1>4, <1>5 DEF SerialInv

(* A request begins when no other is in progress.                          *)
LEMMA BeginsAlone ==
    ASSUME OneAtATime, RegistryInv, Busy < MaxConcurrent
    PROVE  Registering = {} /\ Revoking = {} /\ Looking = {}
<1>1. IsFiniteSet(Registering) /\ IsFiniteSet(Revoking) /\ IsFiniteSet(Looking)
    BY FS_Subset DEF Registering, Revoking, Looking
<1>2. /\ Cardinality(Registering) \in Nat
      /\ Cardinality(Revoking) \in Nat
      /\ Cardinality(Looking) \in Nat
    BY <1>1, FS_CardinalityType
<1>3. Cardinality(Registering) + Cardinality(Revoking) + Cardinality(Looking) < 1
    BY DEF Busy, OneAtATime, Registering, Revoking, Looking
<1>4. Cardinality(Registering) = 0 /\ Cardinality(Revoking) = 0 /\ Cardinality(Looking) = 0
    BY <1>2, <1>3
<1> QED BY <1>1, <1>4, FS_EmptySet

(* What a look-up has seen is not the session being registered.            *)
LEMMA SeenAreDone ==
    ASSUME SerialInv, NEW i \in Ids, reg[i].pc # "done",
           \A j \in Ids \ {i} : reg'[j] = reg[j],
           UNCHANGED <<lookup, boot>>
    PROVE  /\ boot' = None
           /\ \A l \in Lookups :
                lookup'[l].seen # None => reg'[lookup'[l].seen].pc = "done"
<1>1. \A l \in Lookups : lookup[l].seen \in Ids \cup {None}
    BY DEF SerialInv, RegistryInv, TypeOK
<1> QED BY <1>1 DEF SerialInv, KnowsInstalled

LEMMA BeginsSerially ==
    ASSUME OneAtATime, SerialInv, NEW i \in Ids, NEW n \in Nonces, RegisterBegin(i, n)
    PROVE  SerialInv'
<1>1. Registering = {} /\ Revoking = {} /\ Looking = {}
    BY BeginsAlone DEF SerialInv, RegisterBegin
<1>2. /\ reg[i].pc = "idle"
      /\ UNCHANGED <<mem, nonce, index, row, table, wire, expired, lookup, revoke, boot,
                     restarts>>
    BY DEF RegisterBegin
<1>3. RegistryInv'
    BY RegisterKeeps DEF SerialInv
<1>4. /\ reg'[i].pc = "nonce" /\ reg'[i].nonce = n
      /\ ~reg'[i].used => \A j \in Known : nonce[j] # n
      /\ \A j \in Ids \ {i} : reg'[j] = reg[j]
    BY RegBegins DEF SerialInv
<1>5. /\ Registering' = {i} /\ Revoking' = {} /\ Looking' = {}
      /\ Superseding' = Superseding /\ Active' = Active /\ Known' = Known
    BY <1>1, <1>2, <1>4 DEF Registering, Revoking, Looking, Superseding, Active, Known
<1>6. OneRequest'
    BY <1>5 DEF OneRequest
<1>7. KnowsInstalled'
    <2>1. \A j \in Ids : /\ mem'[j] # "absent" <=> reg'[j].pc \in {"inserting", "done"}
                         /\ nonce'[j] # None => mem'[j] # "absent"
                         /\ revoke'[j] # "no" => reg'[j].pc = "done"
        BY <1>2, <1>4 DEF SerialInv, KnowsInstalled
    <2>2. reg[i].pc # "done"
        BY <1>2
    <2> QED BY <1>2, <1>4, <2>1, <2>2, SeenAreDone DEF KnowsInstalled
<1>8. NonceSearched'
    <2>1. n # None
        OBVIOUS
    <2>2. ~reg'[i].used => \A j \in Ids : nonce[j] # n
        BY <1>4, <2>1 DEF SerialInv, KnowsInstalled, Known
    <2>3. reg'[i] \in Registrations
        BY <1>3 DEF RegistryInv, TypeOK
    <2> QED BY <1>2, <1>4, <1>5, <2>2, <2>3 DEF NonceSearched
<1>9. NonceUsedOnce'
    BY <1>2 DEF SerialInv, NonceUsedOnce
<1>a. Left => Left'
    BY <1>2, <1>4 DEF Left
<1>10. IndexFollows'
    BY <1>2, <1>5, <1>1, <1>a DEF SerialInv, IndexFollows
<1> QED BY <1>3, <1>6, <1>7, <1>8, <1>9, <1>10 DEF SerialInv

(* The steps of the one registration in progress.                          *)
LEMMA RegistersSerially ==
    ASSUME SerialInv, NEW i \in Ids,
           \/ RegisterNonce(i) \/ RegisterSupersede(i) \/ RegisterDeactivate(i)
           \/ RegisterReject(i) \/ RegisterInstall(i) \/ RegisterInsert(i)
    PROVE  SerialInv'
<1>1. i \in Registering
    BY DEF Registering, RegisterNonce, RegisterSupersede, RegisterDeactivate, RegisterReject,
           RegisterInstall, RegisterInsert
<1>2. Registering = {i} /\ Revoking = {} /\ Looking = {}
    BY <1>1 DEF SerialInv, OneRequest
<1>3. RegistryInv'
    BY RegisterKeeps DEF SerialInv
<1>4. UNCHANGED <<lookup, revoke, boot, restarts>> /\ expired \subseteq expired'
    BY DEF RegisterNonce, RegisterSupersede, RegisterDeactivate, RegisterReject,
           RegisterInstall, RegisterInsert
<1>5. reg'[i].nonce = reg[i].nonce /\ \A j \in Ids \ {i} : reg'[j] = reg[j]
    BY RegStep DEF SerialInv
<1>6. Registering' \subseteq {i} /\ Revoking' = {} /\ Looking' = {}
    BY <1>2, <1>4, <1>5 DEF Registering, Revoking, Looking
<1>7. OneRequest'
    BY <1>6 DEF OneRequest
<1>8. reg[i].pc # "done" /\ revoke[i] = "no"
    BY <1>1 DEF SerialInv, KnowsInstalled, Registering
<1>9. CASE RegisterNonce(i)
    <2>1. /\ reg[i].pc = "nonce"
          /\ UNCHANGED <<mem, nonce, index>>
        BY <1>9 DEF RegisterNonce
    <2>2. reg'[i].pc \in {"refused", "signed"}
        BY <1>9, RegStep DEF SerialInv
    <2>3. reg[i].used => reg'[i].pc = "refused"
        BY <1>9 DEF RegisterNonce, SerialInv, RegistryInv, TypeOK
    <2>4. KnowsInstalled'
        BY <1>4, <1>5, <1>8, <2>1, <2>2, SeenAreDone DEF SerialInv, KnowsInstalled
    <2>5. NonceSearched'
        BY <1>1, <1>5, <1>6, <2>1, <2>2, <2>3 DEF SerialInv, NonceSearched, Registering
    <2>6. Superseding' = Superseding /\ Active' = Active /\ Known' = Known
        BY <1>5, <2>1, <2>2 DEF Superseding, Active, Known
    <2>a. Left => Left'
        BY <1>5, <2>1, <2>2 DEF Left
    <2>7. IndexFollows'
        BY <1>4, <1>6, <2>1, <2>6, <2>a DEF SerialInv, IndexFollows
    <2>8. NonceUsedOnce'
        BY <2>1 DEF SerialInv, NonceUsedOnce
    <2> QED BY <1>3, <1>7, <2>4, <2>5, <2>7, <2>8 DEF SerialInv
<1>10. CASE RegisterSupersede(i)
    <2>1. /\ reg[i].pc = "signed"
          /\ UNCHANGED <<nonce, index>>
          /\ IF index = None
             THEN UNCHANGED mem
             ELSE mem' = [mem EXCEPT ![index] = IF @ = "absent" THEN @ ELSE "inactive"]
        BY <1>10 DEF RegisterSupersede
    <2>2. reg'[i].pc \in {"ready", "deactivating"} /\ reg'[i].over = index
        BY <1>10, RegStep DEF SerialInv
    <2>3. \A j \in Ids : (mem'[j] = "absent" <=> mem[j] = "absent")
        BY <2>1 DEF SerialInv, RegistryInv, TypeOK
    <2>4. KnowsInstalled'
        BY <1>4, <1>5, <1>8, <2>1, <2>2, <2>3, SeenAreDone DEF SerialInv, KnowsInstalled
    <2>5. NonceSearched'
        BY <1>1, <1>5, <1>6, <2>1, <2>2 DEF SerialInv, NonceSearched, Registering
    <2>6. Active' = {}
        BY <2>1 DEF SerialInv, IndexFollows, Active, RegistryInv, TypeOK
    <2>7. i \in Superseding' /\ Known' = Known
        BY <2>2, <2>3 DEF Superseding, Known
    <2>a. Left'
        BY <2>1, <2>2 DEF Left
    <2>8. IndexFollows'
        BY <1>4, <1>6, <2>1, <2>6, <2>7, <2>a DEF SerialInv, IndexFollows
    <2>9. NonceUsedOnce'
        BY <2>1 DEF SerialInv, NonceUsedOnce
    <2> QED BY <1>3, <1>7, <2>4, <2>5, <2>8, <2>9 DEF SerialInv
<1>11. CASE RegisterDeactivate(i)
    <2>1. reg[i].pc = "deactivating" /\ UNCHANGED <<mem, nonce, index>>
        BY <1>11 DEF RegisterDeactivate
    <2>2. reg'[i].pc = "ready" /\ reg'[i].over = reg[i].over
        BY <1>11, RegStep DEF SerialInv
    <2>4. KnowsInstalled'
        BY <1>4, <1>5, <1>8, <2>1, <2>2, SeenAreDone DEF SerialInv, KnowsInstalled
    <2>5. NonceSearched'
        BY <1>1, <1>5, <1>6, <2>1, <2>2 DEF SerialInv, NonceSearched, Registering
    <2>6. Superseding' = Superseding /\ Active' = Active /\ Known' = Known
        BY <1>5, <2>1, <2>2 DEF Superseding, Active, Known
    <2>a. Left => Left'
        BY <1>5, <1>11, <2>1, <2>2 DEF Left
    <2>7. IndexFollows'
        BY <1>4, <1>6, <2>1, <2>6, <2>a DEF SerialInv, IndexFollows
    <2>8. NonceUsedOnce'
        BY <2>1 DEF SerialInv, NonceUsedOnce
    <2> QED BY <1>3, <1>7, <2>4, <2>5, <2>7, <2>8 DEF SerialInv
<1>12. CASE RegisterInstall(i)
    <2>1. PICK late \in BOOLEAN :
            /\ mem' = [mem EXCEPT ![i] = IF late THEN "inactive" ELSE "active"]
            /\ index' = IF late THEN None ELSE i
        BY <1>12 DEF RegisterInstall
    <2>b. reg[i].pc = "ready" /\ nonce' = [nonce EXCEPT ![i] = reg[i].nonce]
        BY <1>12 DEF RegisterInstall
    <2>2. reg'[i].pc = "inserting"
        BY <1>12, RegStep DEF SerialInv
    <2>3. /\ mem'[i] = (IF late THEN "inactive" ELSE "active")
          /\ \A j \in Ids \ {i} : mem'[j] = mem[j]
          /\ nonce'[i] = reg[i].nonce /\ \A j \in Ids \ {i} : nonce'[j] = nonce[j]
        BY <2>1, <2>b DEF SerialInv, RegistryInv, TypeOK
    <2>4. KnowsInstalled'
        BY <1>4, <1>5, <1>8, <2>2, <2>3, SeenAreDone DEF SerialInv, KnowsInstalled
    <2>5. NonceSearched'
        BY <1>6, <2>2 DEF NonceSearched
    <2>6. i \in Superseding
        BY <2>b DEF Superseding
    <2>7. Active' = {index'} \ {None} /\ i \in Known' /\ Superseding' = {}
        BY <1>2, <1>5, <2>1, <2>2, <2>3, <2>6
           DEF SerialInv, IndexFollows, Active, Known, Superseding, Registering
    <2>8. IndexFollows'
        BY <1>6, <2>1, <2>7 DEF IndexFollows
    <2>9. \A j \in Ids : nonce[j] # reg[i].nonce
        BY <1>1, <2>b DEF SerialInv, NonceSearched
    <2>10. NonceUsedOnce'
        BY <2>3, <2>9 DEF SerialInv, NonceUsedOnce
    <2> QED BY <1>3, <1>7, <2>4, <2>5, <2>8, <2>10 DEF SerialInv
<1>13. CASE RegisterInsert(i)
    <2>1. reg[i].pc = "inserting" /\ UNCHANGED <<mem, nonce, index>>
        BY <1>13 DEF RegisterInsert
    <2>2. reg'[i].pc = "done"
        BY <1>13, RegStep DEF SerialInv
    <2>4. KnowsInstalled'
        BY <1>4, <1>5, <1>8, <2>1, <2>2, SeenAreDone DEF SerialInv, KnowsInstalled
    <2>5. NonceSearched'
        BY <1>6, <2>2 DEF NonceSearched, Registering
    <2>6. Superseding' = Superseding /\ Active' = Active /\ Known' = Known
        BY <1>5, <2>1, <2>2 DEF Superseding, Active, Known
    <2>a. Left => Left'
        BY <1>5, <2>1, <2>2 DEF Left
    <2>7. IndexFollows'
        BY <1>4, <1>6, <2>1, <2>6, <2>a DEF SerialInv, IndexFollows
    <2>8. NonceUsedOnce'
        BY <2>1 DEF SerialInv, NonceUsedOnce
    <2> QED BY <1>3, <1>7, <2>4, <2>5, <2>7, <2>8 DEF SerialInv
<1>14. CASE RegisterReject(i)
    <2>1. reg[i].pc = "ready" /\ UNCHANGED <<mem, nonce, index>>
        BY <1>14 DEF RegisterReject
    <2>2. reg'[i].pc = "failed" /\ reg'[i].over = reg[i].over
        BY <1>14, RegStep DEF SerialInv
    <2>4. KnowsInstalled'
        BY <1>4, <1>5, <1>8, <2>1, <2>2, SeenAreDone DEF SerialInv, KnowsInstalled
    <2>5. NonceSearched'
        BY <1>6, <2>2 DEF NonceSearched, Registering
    <2>6. Superseding' = {} /\ Active' = Active /\ Known' = Known
        BY <1>2, <1>5, <2>1, <2>2 DEF Superseding, Active, Known, Registering
    <2>a. Left => Left'
        BY <1>5, <2>1, <2>2 DEF Left
    <2>7. IndexFollows'
        BY <1>4, <1>6, <2>1, <2>6, <2>a DEF SerialInv, IndexFollows
    <2>8. NonceUsedOnce'
        BY <2>1 DEF SerialInv, NonceUsedOnce
    <2> QED BY <1>3, <1>7, <2>4, <2>5, <2>7, <2>8 DEF SerialInv
<1> QED BY <1>9, <1>10, <1>11, <1>12, <1>13, <1>14

(* A record that retires, or expires, leaves the index right.              *)
LEMMA RetireFollows ==
    ASSUME SerialInv, NEW i \in Ids, mem[i] # "absent", Retire(i),
           UNCHANGED <<nonce, reg, expired, boot>>,
           Looking' = Looking
    PROVE  /\ IndexFollows'
           /\ NonceSearched' /\ NonceUsedOnce'
           /\ \A j \in Ids : mem'[j] = "absent" <=> mem[j] = "absent"
<1>1. /\ mem'[i] = "inactive" /\ \A j \in Ids \ {i} : mem'[j] = mem[j]
      /\ index' = IF index = i THEN None ELSE index
    BY DEF Retire, SerialInv, RegistryInv, TypeOK
<1>2. \A j \in Ids : mem'[j] = "absent" <=> mem[j] = "absent"
    BY <1>1
<1>3. Active' = Active \ {i} /\ Known' = Known /\ Superseding' = Superseding
    BY <1>1, <1>2 DEF Active, Known, Superseding
<1>4. IndexFollows'
    BY <1>1, <1>3 DEF SerialInv, IndexFollows, Left
<1>5. NonceSearched' /\ NonceUsedOnce'
    BY DEF SerialInv, NonceSearched, NonceUsedOnce, Registering
<1> QED BY <1>2, <1>4, <1>5

LEMMA RevokesSerially ==
    ASSUME OneAtATime, SerialInv, NEW i \in Ids, RevokeBegin(i) \/ RevokeWrite(i)
    PROVE  SerialInv'
<1>1. RegistryInv'
    BY RequestKeeps DEF SerialInv
<1>2. UNCHANGED <<nonce, expired, reg, lookup, boot, restarts>>
    BY DEF RevokeBegin, RevokeWrite
<1>3. \A j \in Ids \ {i} : revoke'[j] = revoke[j]
    BY DEF RevokeBegin, RevokeWrite, SerialInv, RegistryInv, TypeOK
<1>4. /\ Registering' = Registering /\ Looking' = Looking /\ Superseding' = Superseding
    BY <1>2 DEF Registering, Looking, Superseding
<1>5. reg[i].pc = "done"
    <2>1. CASE RevokeBegin(i)
        <3>1. Registering = {}
            BY <2>1, BeginsAlone DEF SerialInv, RevokeBegin
        <3>2. mem[i] # "absent" \/ row[i] # "absent"
            BY <2>1 DEF RevokeBegin, Known
        <3> QED BY <3>1, <3>2 DEF SerialInv, KnowsInstalled, RegistryInv, UnwrittenHasNoRow,
                                  Registering
    <2>2. CASE RevokeWrite(i)
        BY <2>2 DEF RevokeWrite, SerialInv, KnowsInstalled
    <2> QED BY <2>1, <2>2
<1>6. OneRequest'
    <2>1. CASE RevokeBegin(i)
        <3>1. Registering = {} /\ Revoking = {} /\ Looking = {}
            BY <2>1, BeginsAlone DEF SerialInv, RevokeBegin
        <3>2. Revoking' \subseteq {i}
            BY <1>3, <3>1 DEF Revoking
        <3> QED BY <1>4, <3>1, <3>2 DEF OneRequest
    <2>2. CASE RevokeWrite(i)
        <3>1. i \in Revoking
            BY <2>2 DEF RevokeWrite, Revoking
        <3>2. Revoking' \subseteq Revoking
            BY <1>3, <3>1 DEF Revoking
        <3> QED BY <1>4, <3>2 DEF SerialInv, OneRequest
    <2> QED BY <2>1, <2>2
<1>7. /\ IndexFollows' /\ NonceSearched' /\ NonceUsedOnce'
      /\ \A j \in Ids : mem'[j] = "absent" <=> mem[j] = "absent"
    <2>1. CASE RevokeBegin(i) /\ i \in Known
        <3>1. Retire(i) /\ mem[i] # "absent"
            BY <2>1 DEF RevokeBegin, Known
        <3> QED BY <1>2, <1>4, <3>1, RetireFollows
    <2>2. CASE UNCHANGED <<mem, index>>
        <3>1. Active' = Active /\ Known' = Known
            BY <2>2 DEF Active, Known
        <3>2. IndexFollows'
            BY <1>2, <1>4, <2>2, <3>1 DEF SerialInv, IndexFollows, Left
        <3>3. NonceSearched' /\ NonceUsedOnce'
            BY <1>2, <1>4 DEF SerialInv, NonceSearched, NonceUsedOnce
        <3> QED BY <2>2, <3>2, <3>3
    <2>3. UNCHANGED <<mem, index>> \/ (RevokeBegin(i) /\ i \in Known)
        BY DEF RevokeBegin, RevokeWrite
    <2> QED BY <2>1, <2>2, <2>3
<1>8. KnowsInstalled'
    BY <1>2, <1>3, <1>5, <1>7 DEF SerialInv, KnowsInstalled
<1> QED BY <1>1, <1>6, <1>7, <1>8 DEF SerialInv

LEMMA ExpiresSerially ==
    ASSUME SerialInv,
           (\E i \in Ids : Expire(i) \/ ReadExpired(i)) \/ LookupExpired
    PROVE  SerialInv'
<1>1. RegistryInv'
    BY RequestKeeps DEF SerialInv
<1>2. UNCHANGED <<nonce, reg, lookup, revoke, boot, restarts>>
    BY DEF Expire, ReadExpired, LookupExpired
<1>3. /\ Registering' = Registering /\ Looking' = Looking /\ Superseding' = Superseding
      /\ Revoking' = Revoking
    BY <1>2 DEF Registering, Looking, Superseding, Revoking
<1>4. OneRequest'
    BY <1>3 DEF SerialInv, OneRequest
<1>5. ASSUME NEW i \in Ids, Expire(i)
      PROVE  /\ IndexFollows'
             /\ \A j \in Ids : mem'[j] = "absent" <=> mem[j] = "absent"
    <2>1. UNCHANGED <<mem, index>> /\ expired \subseteq expired'
        BY <1>5 DEF Expire
    <2>2. Active' = Active /\ Known' = Known
        BY <2>1 DEF Active, Known
    <2>3. Left' = Left
        BY <1>2, <2>1 DEF Left
    <2> QED BY <1>3, <2>1, <2>2, <2>3 DEF SerialInv, IndexFollows
<1>6. ASSUME NEW i \in Ids, ReadExpired(i)
      PROVE  /\ IndexFollows'
             /\ \A j \in Ids : mem'[j] = "absent" <=> mem[j] = "absent"
    <2>1. /\ i \in Active /\ i \in expired /\ mem' = [mem EXCEPT ![i] = "inactive"]
          /\ UNCHANGED <<index, expired>>
        BY <1>6 DEF ReadExpired
    <2>2. mem'[i] = "inactive" /\ \A j \in Ids \ {i} : mem'[j] = mem[j]
        BY <2>1 DEF SerialInv, RegistryInv, TypeOK
    <2>3. mem[i] = "active"
        BY <2>1 DEF Active
    <2>4. \A j \in Ids : mem'[j] = "absent" <=> mem[j] = "absent"
        BY <2>2, <2>3
    <2>5. Active' = Active \ {i} /\ Known' = Known
        BY <2>2, <2>4 DEF Active, Known
    <2>6. index = i
        BY <2>1 DEF SerialInv, IndexFollows, Left
    <2>7. IndexFollows'
        BY <1>3, <2>1, <2>5, <2>6 DEF SerialInv, IndexFollows, Left
    <2> QED BY <2>4, <2>7
<1>7. CASE LookupExpired
    <2>1. /\ index \in Ids /\ mem[index] # "absent" /\ Retire(index) /\ UNCHANGED expired
        BY <1>7 DEF LookupExpired, Known
    <2> QED BY <1>1, <1>2, <1>3, <1>4, <2>1, RetireFollows DEF SerialInv, KnowsInstalled
<1>8. NonceSearched' /\ NonceUsedOnce'
    BY <1>2, <1>3 DEF SerialInv, NonceSearched, NonceUsedOnce
<1>9. ASSUME \A j \in Ids : mem'[j] = "absent" <=> mem[j] = "absent"
      PROVE  KnowsInstalled'
    BY <1>2, <1>9 DEF SerialInv, KnowsInstalled
<1> QED BY <1>1, <1>4, <1>5, <1>6, <1>7, <1>8, <1>9 DEF SerialInv

LEMMA LooksSerially ==
    ASSUME OneAtATime, SerialInv, NEW l \in Lookups,
           LookupBegin(l) \/ LookupQuery(l) \/ LookupInstall(l)
    PROVE  SerialInv'
<1>1. RegistryInv'
    BY RequestKeeps DEF SerialInv
<1>2. UNCHANGED <<nonce, row, table, wire, expired, reg, revoke, boot, restarts>>
    BY DEF LookupBegin, LookupQuery, LookupInstall
<1>3. /\ Registering' = Registering /\ Superseding' = Superseding /\ Revoking' = Revoking
    BY <1>2 DEF Registering, Superseding, Revoking
<1>4. /\ \A m \in Lookups \ {l} : lookup'[m] = lookup[m]
      /\ lookup[l].seen \in Ids \cup {None}
      /\ ActiveRows(Ids) # {} => Newest(ActiveRows(Ids)) \in ActiveRows(Ids)
    <2>1. ActiveRows(Ids) \subseteq ToSet(table)
        BY DEF ActiveRows, SerialInv, RegistryInv, TypeOK
    <2>2. ActiveRows(Ids) # {} => Newest(ActiveRows(Ids)) \in ActiveRows(Ids)
        BY <2>1, NewestIsOne DEF SerialInv
    <2> QED BY <2>2 DEF LookupBegin, LookupQuery, LookupInstall, SerialInv, RegistryInv, TypeOK
<1>5. /\ NonceSearched' /\ NonceUsedOnce'
    BY <1>2, <1>3 DEF SerialInv, NonceSearched, NonceUsedOnce
<1>6. CASE LookupBegin(l)
    <2>1. Registering = {} /\ Revoking = {} /\ Looking = {}
        BY <1>6, BeginsAlone DEF SerialInv, LookupBegin
    <2>2. index \notin Known /\ UNCHANGED <<mem, index>>
        BY <1>6 DEF LookupBegin
    <2>3. index = None
        BY <2>2 DEF SerialInv, IndexFollows, Left
    <2>4. lookup'[l].seen = lookup[l].seen
        BY <1>6 DEF LookupBegin, SerialInv, RegistryInv, TypeOK
    <2>5. Looking' \subseteq {l}
        BY <1>4, <2>1 DEF Looking
    <2>6. OneRequest'
        BY <1>3, <2>1, <2>5 DEF OneRequest
    <2>7. KnowsInstalled'
        BY <1>2, <1>4, <2>2, <2>4 DEF SerialInv, KnowsInstalled
    <2>8. Active' = Active /\ Known' = Known
        BY <2>2 DEF Active, Known
    <2>9. IndexFollows'
        BY <1>2, <1>3, <2>2, <2>3, <2>8 DEF SerialInv, IndexFollows, Left
    <2> QED BY <1>1, <1>5, <2>6, <2>7, <2>9 DEF SerialInv
<1>7. CASE LookupQuery(l)
    <2>1. UNCHANGED <<mem, index>> /\ lookup[l].pc = "querying"
        BY <1>7 DEF LookupQuery
    <2>2. lookup'[l].seen = None \/ lookup'[l].seen \in ActiveRows(Ids)
        BY <1>4, <1>7 DEF LookupQuery, SerialInv, RegistryInv, TypeOK
    <2>3. l \in Looking /\ Looking' \subseteq Looking
        BY <1>4, <2>1 DEF Looking
    <2>4. OneRequest'
        BY <1>3, <2>3 DEF SerialInv, OneRequest
    <2>5. \A i \in ActiveRows(Ids) : i \in Ids /\ reg[i].pc = "done"
        BY DEF ActiveRows, SerialInv, RegistryInv, UnwrittenHasNoRow
    <2>6. KnowsInstalled'
        BY <1>2, <1>4, <2>1, <2>2, <2>5 DEF SerialInv, KnowsInstalled
    <2>7. Active' = Active /\ Known' = Known
        BY <2>1 DEF Active, Known
    <2>8. IndexFollows'
        BY <1>2, <1>3, <2>1, <2>3, <2>7 DEF SerialInv, IndexFollows, Left
    <2> QED BY <1>1, <1>5, <2>4, <2>6, <2>8 DEF SerialInv
<1>8. CASE LookupInstall(l)
    <2> DEFINE i == lookup[l].seen
    <2>1. /\ lookup[l].pc = "answered" /\ lookup' = [lookup EXCEPT ![l] = Quiet]
          /\ \/ UNCHANGED <<mem, index>>
             \/ i # None /\ mem' = [mem EXCEPT ![i] = "active"] /\ index' = i
        BY <1>8 DEF LookupInstall
    <2>2. l \in Looking
        BY <2>1 DEF Looking
    <2>3. Looking = {l}
        BY <2>2 DEF SerialInv, OneRequest
    <2>4. lookup'[l].pc = "idle" /\ lookup'[l].seen = None
        BY <2>1 DEF Quiet, SerialInv, RegistryInv, TypeOK
    <2>5. Looking' = {}
        BY <1>4, <2>3, <2>4 DEF Looking
    <2>6. OneRequest'
        BY <1>3, <2>5 DEF SerialInv, OneRequest
    <2>7. index = None /\ Active = {} /\ Registering = {} /\ Superseding' = {}
        BY <1>3, <2>2 DEF SerialInv, IndexFollows, OneRequest, Registering, Superseding, Active
    <2>8. /\ \A j \in Ids : mem'[j] # "absent" <=> reg[j].pc \in {"inserting", "done"}
          /\ Active' \subseteq {index'}
          /\ index' # None => index' \in Active'
        <3>1. CASE UNCHANGED <<mem, index>>
            BY <2>7, <3>1 DEF Active, SerialInv, KnowsInstalled
        <3>2. CASE i # None /\ mem' = [mem EXCEPT ![i] = "active"] /\ index' = i
            <4>1. i \in Ids /\ reg[i].pc = "done"
                BY <1>4, <3>2 DEF SerialInv, KnowsInstalled
            <4>2. mem'[i] = "active" /\ \A j \in Ids \ {i} : mem'[j] = mem[j]
                BY <3>2, <4>1 DEF SerialInv, RegistryInv, TypeOK
            <4>3. Active' = {i}
                BY <2>7, <4>1, <4>2 DEF Active
            <4> QED BY <3>2, <4>1, <4>2, <4>3 DEF SerialInv, KnowsInstalled
        <3> QED BY <2>1, <3>1, <3>2
    <2>9. KnowsInstalled'
        BY <1>2, <1>4, <2>4, <2>8 DEF SerialInv, KnowsInstalled
    <2>10. Active' \subseteq Known'
        BY DEF Active, Known
    <2>11. IndexFollows'
        BY <2>5, <2>7, <2>8, <2>10 DEF IndexFollows
    <2> QED BY <1>1, <1>5, <2>6, <2>9, <2>11 DEF SerialInv
<1> QED BY <1>6, <1>7, <1>8

LEMMA EventsSerially ==
    ASSUME SerialInv, NEW i \in Ids, NEW s \in {"active", "inactive"}, DeliverChange(i, s)
    PROVE  SerialInv'
<1>1. RegistryInv'
    BY WorldKeeps DEF SerialInv
<1>2. UNCHANGED <<nonce, row, table, expired, reg, lookup, revoke, boot, restarts>>
    BY DEF DeliverChange
<1>3. /\ Registering' = Registering /\ Superseding' = Superseding /\ Revoking' = Revoking
      /\ Looking' = Looking
    BY <1>2 DEF Registering, Superseding, Revoking, Looking
<1>4. OneRequest'
    BY <1>3 DEF SerialInv, OneRequest
<1>5. /\ IndexFollows' /\ NonceSearched' /\ NonceUsedOnce'
      /\ \A j \in Ids : mem'[j] = "absent" <=> mem[j] = "absent"
    <2>1. CASE mem[i] # "absent" /\ Retire(i)
        BY <1>2, <1>3, <2>1, RetireFollows
    <2>2. CASE UNCHANGED <<mem, index>>
        <3>1. Active' = Active /\ Known' = Known
            BY <2>2 DEF Active, Known
        <3>2. IndexFollows'
            BY <1>2, <1>3, <2>2, <3>1 DEF SerialInv, IndexFollows, Left
        <3>3. NonceSearched' /\ NonceUsedOnce'
            BY <1>2, <1>3 DEF SerialInv, NonceSearched, NonceUsedOnce
        <3> QED BY <2>2, <3>2, <3>3
    <2>3. \/ mem[i] # "absent" /\ Retire(i)
          \/ UNCHANGED <<mem, index>>
        <3>1. i \in Active => index = i
            BY DEF SerialInv, IndexFollows, Left
        <3> QED BY <3>1 DEF DeliverChange, Known, Active
    <2> QED BY <2>1, <2>2, <2>3
<1>6. KnowsInstalled'
    BY <1>2, <1>5 DEF SerialInv, KnowsInstalled
<1> QED BY <1>1, <1>4, <1>5, <1>6 DEF SerialInv

LEMMA SerialStep ==
    ASSUME OneAtATime, SerialInv, [Next]_registryVars
    PROVE  SerialInv'
<1>1. ~Restart /\ ~LoadActiveSessions
    BY DEF OneAtATime, SerialInv, RegistryInv, TypeOK, KnowsInstalled, Restart,
           LoadActiveSessions
<1>2. CASE UNCHANGED registryVars
    <2>1. RegistryInv'
        BY RegistryStep DEF SerialInv
    <2> QED BY <1>2, <2>1 DEF SerialInv, registryVars, OneRequest, KnowsInstalled, NonceSearched,
                              NonceUsedOnce, IndexFollows, Left, Registering, Revoking, Looking,
                              Superseding, Active, Known
<1>3. CASE Next
    BY <1>1, <1>3, BeginsSerially, RegistersSerially, RevokesSerially, ExpiresSerially,
       LooksSerially, EventsSerially DEF Next
<1> QED BY <1>2, <1>3

LEMMA RevocationStep ==
    ASSUME OneAtATime, ~WritesMayFail, SerialInv, RevocationInv, [Next]_registryVars
    PROVE  RevocationInv'
<1> DEFINE Marked == \A i \in Ids : revoke[i] = "done" => row[i] # "active"
           Unseen == \A l \in Lookups :
                        /\ lookup[l].seen # None => revoke[lookup[l].seen] = "no"
                        /\ lookup[l].pc # "answered" => lookup[l].seen = None
<1>0. /\ RegistryInv /\ KnowsInstalled
      /\ \A i \in Ids : revoke[i] # "no" => mem[i] # "active" /\ reg[i].pc = "done"
      /\ Marked /\ Unseen
      /\ \A l \in Lookups : lookup[l].seen \in Ids \cup {None}
    BY DEF SerialInv, RevocationInv, RevocationSticks, Revoked, KnowsInstalled, RegistryInv,
           TypeOK
<1>1. ASSUME UNCHANGED <<revoke, lookup>>,
             \A i \in Ids : revoke[i] # "no" => mem'[i] # "active",
             \A i \in Ids : revoke[i] = "done" => row'[i] # "active"
      PROVE  RevocationInv'
    BY <1>0, <1>1 DEF RevocationInv, RevocationSticks, Revoked
<1>2. CASE UNCHANGED registryVars
    BY <1>0, <1>1, <1>2 DEF registryVars
<1>3. ASSUME NEW i \in Ids,
             \/ \E n \in Nonces : RegisterBegin(i, n)
             \/ RegisterNonce(i) \/ RegisterSupersede(i) \/ RegisterReject(i)
             \/ RegisterInstall(i) \/ RegisterInsert(i)
      PROVE  RevocationInv'
    <2>1. revoke[i] = "no" /\ UNCHANGED <<revoke, lookup>>
        BY <1>0, <1>3 DEF RegisterBegin, RegisterNonce, RegisterSupersede, RegisterReject,
                          RegisterInstall, RegisterInsert, RegistryInv, TypeOK
    <2>2. ASSUME NEW j \in Ids, revoke[j] # "no"
          PROVE  mem'[j] # "active" /\ row'[j] = row[j]
        <3>1. /\ j # i /\ mem[j] # "active"
              /\ mem \in [Ids -> Status] /\ row \in [Ids -> Status]
            BY <1>0, <2>1, <2>2 DEF RegistryInv, TypeOK
        <3>2. CASE \/ \E n \in Nonces : RegisterBegin(i, n)
                   \/ RegisterNonce(i) \/ RegisterReject(i)
            BY <3>1, <3>2 DEF RegisterBegin, RegisterNonce, RegisterReject
        <3>3. CASE RegisterSupersede(i)
            BY <3>1, <3>3 DEF RegisterSupersede
        <3>4. CASE RegisterInstall(i)
            BY <3>1, <3>4 DEF RegisterInstall
        <3>5. CASE RegisterInsert(i)
            BY <3>1, <3>5 DEF RegisterInsert
        <3> QED BY <1>3, <3>2, <3>3, <3>4, <3>5
    <2> QED BY <1>0, <1>1, <2>1, <2>2
<1>4. ASSUME NEW i \in Ids, RegisterDeactivate(i)
      PROVE  RevocationInv'
    <2>1. Deactivate(Ids) /\ UNCHANGED <<mem, revoke, lookup>>
        BY <1>4 DEF RegisterDeactivate
    <2>2. \A j \in Ids : row'[j] # "active"
        BY <1>0, <2>1, DeactivateRows
    <2> QED BY <1>0, <1>1, <2>1, <2>2
<1>5. ASSUME NEW i \in Ids, RevokeBegin(i)
      PROVE  RevocationInv'
    <2>1. /\ revoke' = [revoke EXCEPT ![i] = "writing"] /\ UNCHANGED <<row, lookup>>
          /\ IF i \in Known THEN Retire(i) ELSE UNCHANGED mem
        BY <1>5 DEF RevokeBegin
    <2>2. mem'[i] # "active" /\ \A j \in Ids \ {i} : mem'[j] = mem[j]
        BY <1>0, <2>1 DEF Retire, Known, RegistryInv, TypeOK
    <2>3. revoke'[i] = "writing" /\ \A j \in Ids \ {i} : revoke'[j] = revoke[j]
        BY <1>0, <2>1 DEF RegistryInv, TypeOK
    <2>4. Looking = {}
        BY <1>5, BeginsAlone DEF SerialInv, RevokeBegin
    <2>5. \A l \in Lookups : lookup[l].seen = None
        BY <2>4, <1>0 DEF Looking
    <2>6. RevocationSticks'
        BY <1>0, <2>2, <2>3 DEF RevocationSticks, Revoked
    <2>7. Marked' /\ Unseen'
        BY <1>0, <2>1, <2>3, <2>5
    <2> QED BY <2>6, <2>7 DEF RevocationInv
<1>6. ASSUME NEW i \in Ids, RevokeWrite(i)
      PROVE  RevocationInv'
    <2>1. /\ revoke' = [revoke EXCEPT ![i] = "done"] /\ UNCHANGED <<mem, lookup>>
          /\ revoke[i] = "writing" /\ Deactivate({i})
        BY <1>6 DEF RevokeWrite
    <2>2. revoke'[i] = "done" /\ \A j \in Ids \ {i} : revoke'[j] = revoke[j]
        BY <1>0, <2>1 DEF RegistryInv, TypeOK
    <2>3. row'[i] # "active" /\ \A j \in Ids : row[j] # "active" => row'[j] # "active"
        BY <1>0, <2>1, DeactivateRows
    <2>4. RevocationSticks'
        BY <1>0, <2>1, <2>2 DEF RevocationSticks, Revoked
    <2>5. Marked' /\ Unseen'
        BY <1>0, <2>1, <2>2, <2>3
    <2> QED BY <2>4, <2>5 DEF RevocationInv
<1>7. ASSUME NEW i \in Ids, Expire(i) \/ ReadExpired(i)
      PROVE  RevocationInv'
    <2>1. UNCHANGED <<revoke, lookup, row>>
        BY <1>7 DEF Expire, ReadExpired
    <2>2. \A j \in Ids : mem'[j] = mem[j] \/ mem'[j] = "inactive"
        BY <1>0, <1>7 DEF Expire, ReadExpired, RegistryInv, TypeOK
    <2> QED BY <1>0, <1>1, <2>1, <2>2
<1>8. CASE LookupExpired
    <2>1. /\ index \in Ids /\ Retire(index) /\ Deactivate({index})
          /\ UNCHANGED <<revoke, lookup>>
        BY <1>8 DEF LookupExpired, Known
    <2>2. \A j \in Ids : mem'[j] = mem[j] \/ mem'[j] = "inactive"
        BY <1>0, <2>1 DEF Retire, RegistryInv, TypeOK
    <2>3. \A j \in Ids : row[j] # "active" => row'[j] # "active"
        BY <1>0, <2>1, DeactivateRows
    <2> QED BY <1>0, <1>1, <2>1, <2>2, <2>3
<1>9. ASSUME NEW l \in Lookups, LookupBegin(l) \/ LookupQuery(l) \/ LookupInstall(l)
      PROVE  RevocationInv'
    <2>1. UNCHANGED <<revoke, row>>
        BY <1>9 DEF LookupBegin, LookupQuery, LookupInstall
    <2>2. \A j \in Ids : revoke[j] # "no" => mem'[j] # "active"
        BY <1>0, <1>9 DEF LookupBegin, LookupQuery, LookupInstall, RegistryInv, TypeOK
    <2>3. RevocationSticks' /\ Marked'
        BY <1>0, <2>1, <2>2 DEF RevocationSticks, Revoked
    <2>4. /\ \A m \in Lookups \ {l} : lookup'[m] = lookup[m]
          /\ \/ lookup'[l].seen = lookup[l].seen
             \/ lookup'[l].seen = None
             \/ LookupQuery(l) /\ lookup'[l].seen \in ActiveRows(Ids)
          /\ lookup'[l].pc # "answered" => lookup'[l].seen = None
        <3>1. ActiveRows(Ids) \subseteq ToSet(table)
            BY <1>0 DEF ActiveRows, RegistryInv, TypeOK
        <3>2. ActiveRows(Ids) # {} => Newest(ActiveRows(Ids)) \in ActiveRows(Ids)
            BY <1>0, <3>1, NewestIsOne
        <3> QED BY <1>0, <1>9, <3>2 DEF LookupBegin, LookupQuery, LookupInstall, Quiet,
                                        RegistryInv, TypeOK
    <2>5. ASSUME LookupQuery(l), NEW i \in ActiveRows(Ids)
          PROVE  i \in Ids /\ revoke[i] = "no"
        <3>1. l \in Looking
            BY <2>5 DEF LookupQuery, Looking
        <3>2. Revoking = {}
            BY <3>1 DEF SerialInv, OneRequest
        <3> QED BY <1>0, <3>2 DEF ActiveRows, Revoking, RegistryInv, TypeOK
    <2>6. Unseen'
        BY <1>0, <2>1, <2>4, <2>5
    <2> QED BY <2>3, <2>6 DEF RevocationInv
<1>10. ASSUME NEW i \in Ids, NEW s \in {"active", "inactive"}, DeliverChange(i, s)
      PROVE  RevocationInv'
    <2>1. UNCHANGED <<revoke, lookup, row>>
        BY <1>10 DEF DeliverChange
    <2>2. \A j \in Ids : mem'[j] = mem[j] \/ mem'[j] = "inactive"
        BY <1>0, <1>10 DEF DeliverChange, Retire, Known, RegistryInv, TypeOK
    <2> QED BY <1>0, <1>1, <2>1, <2>2
<1>11. ~Restart /\ ~LoadActiveSessions
    BY <1>0 DEF OneAtATime, RegistryInv, TypeOK, KnowsInstalled, Restart, LoadActiveSessions
<1> QED BY <1>2, <1>3, <1>4, <1>5, <1>6, <1>7, <1>8, <1>9, <1>10, <1>11 DEF Next

LEMMA SerialInvariant == OneAtATime => (Spec => []SerialInv)
<1> SUFFICES ASSUME OneAtATime
             PROVE  Spec => []SerialInv
    OBVIOUS
<1>1. Init => SerialInv
    BY InitSerial
<1>2. SerialInv /\ [Next]_registryVars => SerialInv'
    BY SerialStep
<1> QED BY <1>1, <1>2, PTL DEF Spec

(* One request at a time, and no restart: however many sessions the user   *)
(* registers and revokes and whatever writes are lost, no two of them have *)
(* the same nonce (registerSession).                                       *)
THEOREM NonceIsUsedOnce == OneAtATime => (Spec => []NonceUsedOnce)
<1>1. SerialInv => NonceUsedOnce
    BY DEF SerialInv
<1> QED BY <1>1, SerialInvariant, PTL

(* One request at a time, and no restart: at most one session is active,   *)
(* and the index names it, or names one that has expired or that a         *)
(* registration superseded which is at work or has failed (registerSession,*)
(* getUserActiveSession).                                                  *)
THEOREM OneSessionIndexed == OneAtATime => (Spec => []OneIndexedSession)
<1>1. SerialInv => OneIndexedSession
    <2> SUFFICES ASSUME SerialInv
                 PROVE  OneIndexedSession
        OBVIOUS
    <2>1. Active = {} \/ Active = {index}
        BY DEF SerialInv, IndexFollows
    <2>2. OneActiveSession
        <3>1. Cardinality({}) = 0 /\ Cardinality({index}) = 1
            BY FS_EmptySet, FS_Singleton
        <3> QED BY <2>1, <3>1 DEF OneActiveSession
    <2>3. IndexNamesActive
        BY DEF SerialInv, IndexFollows, IndexNamesActive, Left
    <2> QED BY <2>2, <2>3 DEF OneIndexedSession
<1> QED BY <1>1, SerialInvariant, PTL

(* One request at a time, no restart, and writes that arrive: a session    *)
(* the owner has revoked is never active again (revokeSession).            *)
THEOREM RevokedStaysRevoked ==
    OneAtATime /\ ~WritesMayFail => (Spec => []RevocationSticks)
<1> SUFFICES ASSUME OneAtATime, ~WritesMayFail
             PROVE  Spec => []RevocationSticks
    OBVIOUS
<1>1. Init => RevocationInv
    BY InitSerial
<1>2. SerialInv /\ RevocationInv /\ [Next]_registryVars => RevocationInv'
    BY RevocationStep
<1>3. Spec => []SerialInv
    BY SerialInvariant
<1>4. RevocationInv => RevocationSticks
    BY DEF RevocationInv
<1> QED BY <1>1, <1>2, <1>3, <1>4, PTL DEF Spec
=============================================================================
