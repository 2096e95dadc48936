---------------------------- MODULE PayoutSweepProofs ----------------------------
(* For any number of markets, lots, sweeps and claims at a time: what is   *)
(* recorded as paid has been paid, the operator pays nothing out of its    *)
(* own pocket, and nobody is paid twice for the same winnings, each under  *)
(* the conditions its theorem names.                                       *)
EXTENDS PayoutSweep, TotalsTheorems

USE SweepAssumption

-----------------------------------------------------------------------------
(* What the steps do, as far as the invariants depend on it.               *)

LEMMA Arithmetic ==
    /\ \A a, b \in Nat : /\ Lesser(a, b) \in Nat /\ Lesser(a, b) =< a /\ Lesser(a, b) =< b
                         /\ Lesser(a, b) \in {a, b}
    /\ \A a, b \in Nat : Positive(a - b) \in Nat /\ Positive(a - b) =< a
    /\ \A b \in Nat : Readings(b) \subseteq Nat /\ \A a \in Readings(b) : a \in {0, b}
BY DEF Lesser, Positive, Readings

LEMMA ConstantTypes ==
    /\ Zeros \in Amounts
    /\ \A m \in Markets : Zeros[m] = 0
    /\ Nothing \in [pc : {"none", "fresh"}, found : Amounts]
    /\ Nothing \in [pc : {"none", "indexer", "chain"}, found : Amounts]
    /\ Nothing.found = Zeros
    /\ Asleep \in SweepCalls
    /\ Asleep.pay = Zeros /\ Asleep.found = Zeros /\ Asleep.pc = "idle"
    /\ NoClaim \in ClaimCalls
    /\ NoClaim.pc = "idle" /\ NoClaim.at = {}
<1>1. Zeros \in Amounts /\ \A m \in Markets : Zeros[m] = 0
    BY DEF Zeros, Amounts
<1>2. Asleep \in SweepCalls /\ Asleep.pay = Zeros /\ Asleep.found = Zeros /\ Asleep.pc = "idle"
    BY <1>1 DEF Asleep, SweepCalls
<1>3. NoClaim \in ClaimCalls /\ NoClaim.pc = "idle" /\ NoClaim.at = {}
    BY DEF NoClaim, ClaimCalls
<1>4. /\ Nothing \in [pc : {"none", "fresh"}, found : Amounts]
      /\ Nothing \in [pc : {"none", "indexer", "chain"}, found : Amounts]
      /\ Nothing.found = Zeros
    BY <1>1 DEF Nothing
<1> QED BY <1>1, <1>2, <1>3, <1>4

(* A transfer to one market and a transfer to several.                     *)
LEMMA OnlyType ==
    ASSUME NEW m \in Markets, NEW a \in Nat
    PROVE  /\ Only(m, a) \in Amounts
           /\ Only(m, a)[m] = a
           /\ \A n \in Markets \ {m} : Only(m, a)[n] = 0
BY DEF Only, Zeros, Amounts

(* The next position: what is to be paid and what was found stay.          *)
LEMMA Next1Keeps ==
    ASSUME NEW s \in SweepCalls
    PROVE  /\ Next1(s) \in SweepCalls
           /\ Next1(s).pc = "working" /\ Next1(s).at = {}
           /\ Next1(s).pay = s.pay /\ Next1(s).found = s.found
BY DEF Next1, SweepCalls

(* A sweep moves alone.                                                    *)
LEMMA SweepMoves ==
    ASSUME TypeOK, NEW r \in Sweepers, NEW s \in SweepCalls,
           sweep' = [sweep EXCEPT ![r] = s]
    PROVE  /\ sweep' \in [Sweepers -> SweepCalls]
           /\ sweep'[r] = s
           /\ \A q \in Sweepers \ {r} : sweep'[q] = sweep[q]
BY DEF TypeOK

LEMMA ClaimMoves ==
    ASSUME TypeOK, NEW c \in Claimers, NEW k \in ClaimCalls,
           claim' = [claim EXCEPT ![c] = k]
    PROVE  /\ claim' \in [Claimers -> ClaimCalls]
           /\ claim'[c] = k
           /\ \A d \in Claimers \ {c} : claim'[d] = claim[d]
BY DEF TypeOK

LEMMA SettleType ==
    ASSUME TypeOK, NEW S, Settle(S)
    PROVE  settled' \in [Markets -> {"open", "recent", "old"}]
BY DEF TypeOK, Settle

LEMMA RecordType ==
    ASSUME TypeOK, NEW amounts \in Amounts, Record(amounts)
    PROVE  /\ swept' \in Amounts /\ listed' \in Amounts
           /\ \A m \in Markets : /\ swept'[m] = swept[m] + amounts[m]
                                 /\ listed'[m] = listed[m] + amounts[m]
BY DEF TypeOK, Record, Amounts

(* A transfer that takes effect is covered.                                *)
LEMMA TransferType ==
    ASSUME TypeOK, NEW amounts \in Amounts, NEW end,
           Took(end) => float >= Total(amounts), Transfer(end, amounts)
    PROVE  /\ float' \in Nat /\ paid' \in Amounts
           /\ Took(end) => /\ float' = float - Total(amounts)
                           /\ \A m \in Markets : paid'[m] = paid[m] + amounts[m]
           /\ ~Took(end) => UNCHANGED <<float, paid>>
<1>1. Total(amounts) \in Nat
    BY TotalFinite DEF Amounts
<1>2. CASE Took(end)
    <2>1. /\ float' = float - Total(amounts)
          /\ paid' = [m \in Markets |-> paid[m] + amounts[m]]
        BY <1>2 DEF Transfer
    <2>2. float \in Nat /\ float >= Total(amounts)
        BY <1>2 DEF TypeOK
    <2>3. float' \in Nat
        BY <1>1, <2>1, <2>2
    <2> QED BY <1>2, <2>1, <2>3 DEF TypeOK, Amounts
<1>3. CASE ~Took(end)
    BY <1>3 DEF Transfer, TypeOK
<1> QED BY <1>2, <1>3

(* Redeeming tokens, at most as many as there are.                         *)
LEMMA TokensType ==
    ASSUME TypeOK, NEW p \in Places, NEW m \in Markets, NEW a \in Nat,
           tokens[p][m] >= a, tokens' = [tokens EXCEPT ![p][m] = @ - a]
    PROVE  /\ tokens' \in [Places -> Amounts]
           /\ tokens'[p][m] = tokens[p][m] - a
           /\ \A n \in Markets \ {m} : tokens'[p][n] = tokens[p][n]
           /\ \A q \in Places \ {p} : tokens'[q] = tokens[q]
<1> DEFINE rest == [tokens[p] EXCEPT ![m] = tokens[p][m] - a]
<1>1. tokens[p] \in Amounts /\ tokens[p][m] \in Nat
    BY DEF TypeOK, Amounts
<1>2. rest \in Amounts
    BY <1>1 DEF Amounts
<1>3. /\ rest[m] = tokens[p][m] - a
      /\ \A n \in Markets \ {m} : rest[n] = tokens[p][n]
    BY <1>1 DEF Amounts
<1>4. tokens' = [tokens EXCEPT ![p] = rest] /\ tokens \in [Places -> Amounts]
    BY DEF TypeOK
<1> HIDE DEF rest
<1>5. /\ tokens' \in [Places -> Amounts]
      /\ tokens'[p] = rest
      /\ \A q \in Places \ {p} : tokens'[q] = tokens[q]
    BY <1>2, <1>4
<1> QED BY <1>3, <1>5

(* How transactions end.                                                   *)
LEMMA Ends ==
    ASSUME NEW ok \in BOOLEAN, NEW end \in Sent(ok)
    PROVE  /\ Took(end) => ok
           /\ Reported(end) => ok
           /\ "void" \notin Faults /\ Reported(end) => Took(end)
           /\ Took(end) /\ ~Reported(end) => end = "late"
           /\ Faults = {} => (Took(end) <=> Reported(end))
BY DEF Sent, Took, Reported

LEMMA TellType ==
    ASSUME untold \in BOOLEAN, NEW end, Tell(end)
    PROVE  untold' \in BOOLEAN /\ (untold => untold') /\ (end # "late" => untold' = untold)
<1>1. untold' = (untold \/ end = "late")
    BY DEF Tell
<1> QED BY <1>1, Zenon

-----------------------------------------------------------------------------
(* What each action does, and that it keeps the types.                     *)

LEMMA InitTypes ==
    ASSUME Init
    PROVE  TypeOK
<1>1. tokens \in [Places -> Amounts]
    BY DEF Init, Places, Amounts
<1>2. /\ float \in Nat /\ float0 \in Nat
      /\ settled \in [Markets -> {"open", "recent", "old"}]
      /\ preserved \subseteq Markets /\ quiet \subseteq Markets /\ untold \in BOOLEAN
    BY DEF Init
<1>3. /\ swept \in Amounts /\ listed \in Amounts /\ paid \in Amounts
      /\ cache \in [pc : {"none", "fresh"}, found : Amounts]
      /\ scan \in [pc : {"none", "indexer", "chain"}, found : Amounts]
    BY ConstantTypes DEF Init
<1>4. sweep \in [Sweepers -> SweepCalls] /\ claim \in [Claimers -> ClaimCalls]
    BY ConstantTypes DEF Init
<1> QED BY <1>1, <1>2, <1>3, <1>4 DEF TypeOK

LEMMA BeginScanType ==
    ASSUME TypeOK, BeginScan
    PROVE  /\ scan' \in [pc : {"none", "indexer", "chain"}, found : Amounts]
           /\ scan'.found = Zeros
BY ConstantTypes DEF BeginScan, Nothing

LEMMA BrowseTypes ==
    ASSUME TypeOK, Browse
    PROVE  TypeOK'
BY BeginScanType DEF Browse, TypeOK

LEMMA ClaimableType ==
    ASSUME TypeOK, NEW answered \in SUBSET {"user", "clone"}
    PROVE  /\ Claimable(answered) \in Amounts
           /\ \A m \in Markets :
                 \/ Claimable(answered)[m] = 0
                 \/ \E p \in answered : /\ Claimable(answered)[m] = tokens[p][m]
                                        /\ tokens[p][m] > swept[m]
<1>1. ASSUME NEW m \in Markets
      PROVE  /\ Claimable(answered)[m] \in Nat
             /\ \/ Claimable(answered)[m] = 0
                \/ \E p \in answered : /\ Claimable(answered)[m] = tokens[p][m]
                                       /\ tokens[p][m] > swept[m]
    <2> DEFINE heldBy == {p \in answered \ {"operator"} : tokens[p][m] > swept[m]}
    <2>1. Claimable(answered)[m] = IF m \in quiet \/ heldBy = {} THEN 0
                                   ELSE tokens[IF "user" \in heldBy THEN "user" ELSE "clone"][m]
        BY DEF Claimable
    <2>2. tokens["user"][m] \in Nat /\ tokens["clone"][m] \in Nat
        BY DEF TypeOK, Places, Amounts
    <2>3. CASE m \in quiet \/ heldBy = {}
        BY <2>1, <2>3
    <2>4. CASE m \notin quiet /\ "user" \in heldBy
        BY <2>1, <2>2, <2>4
    <2>5. CASE m \notin quiet /\ heldBy # {} /\ "user" \notin heldBy
        <3>1. "clone" \in heldBy
            BY <2>5
        <3> QED BY <2>1, <2>2, <2>5, <3>1
    <2> QED BY <2>3, <2>4, <2>5
<1> QED BY <1>1 DEF Claimable, Amounts

LEMMA IndexerAnswersTypes ==
    ASSUME TypeOK, IndexerAnswers
    PROVE  TypeOK'
<1>1. PICK answered \in SUBSET {"user", "clone"} :
            scan' = [pc |-> "chain", found |-> Claimable(answered)]
    BY DEF IndexerAnswers
<1>2. scan' \in [pc : {"none", "indexer", "chain"}, found : Amounts]
    BY <1>1, ClaimableType
<1> QED BY <1>2 DEF IndexerAnswers, TypeOK

LEMMA DueType ==
    ASSUME TypeOK, NEW m \in Markets, NEW read \in BOOLEAN, NEW balance \in Nat
    PROVE  /\ Due(m, read, balance) \in Nat
           /\ \/ Due(m, read, balance) = balance
              \/ Due(m, read, balance) = Positive(Lots[m] - listed[m])
              \/ Due(m, read, balance) = Positive(Lots[m] - swept[m])
              \/ Due(m, read, balance) = 0
<1>1. Lots[m] \in Nat /\ listed[m] \in Nat /\ swept[m] \in Nat
    BY DEF TypeOK, Amounts
<1>2. Positive(Lots[m] - listed[m]) \in Nat /\ Positive(Lots[m] - swept[m]) \in Nat
    BY <1>1, Arithmetic
<1> QED BY <1>1, <1>2 DEF Due

LEMMA WorkingType ==
    ASSUME NEW s \in SweepCalls, NEW found \in Amounts
    PROVE  /\ Working(s, found) \in SweepCalls
           /\ Working(s, found).pc = "working"
           /\ Working(s, found).found = found
           /\ Working(s, found).pay = s.pay
           /\ Working(s, found).at = s.at
           /\ \A m \in Working(s, found).todo : found[m] > 0
BY DEF Working, SweepCalls

(* What a scan finds is what it found before, what is in the wallet, or    *)
(* what orders are due less what was swept or listed.                      *)
LEMMA ScanEndsTypes ==
    ASSUME TypeOK, ScanEnds
    PROVE  /\ TypeOK'
           /\ \E found \in Amounts :
                 /\ cache' = [pc |-> "fresh", found |-> found]
                 /\ sweep' = [r \in Sweepers |-> IF sweep[r].pc = "scanning"
                                                 THEN Working(sweep[r], found) ELSE sweep[r]]
                 /\ \A m \in Markets : \/ found[m] = scan.found[m]
                                       \/ found[m] = tokens["user"][m]
                                       \/ found[m] = Positive(Lots[m] - listed[m])
                                       \/ found[m] = Positive(Lots[m] - swept[m])
                                       \/ found[m] = 0
<1> DEFINE balance(m, balanced) == IF m \in balanced THEN tokens["user"][m] ELSE 0
           positions(read, balanced) ==
              [m \in Markets |-> IF scan.found[m] > 0 THEN scan.found[m]
                                 ELSE Due(m, m \in read, balance(m, balanced))]
<1>1. PICK read \in SUBSET Markets, balanced \in SUBSET Markets :
          /\ cache' = [pc |-> "fresh", found |-> positions(read, balanced)]
          /\ sweep' = [r \in Sweepers |-> IF sweep[r].pc = "scanning"
                                          THEN Working(sweep[r], positions(read, balanced))
                                          ELSE sweep[r]]
    BY ONLY ScanEnds DEF ScanEnds
<1> DEFINE found == positions(read, balanced)
<1>2. ASSUME NEW m \in Markets
      PROVE  /\ found[m] \in Nat
             /\ \/ found[m] = scan.found[m]
                \/ found[m] = tokens["user"][m]
                \/ found[m] = Positive(Lots[m] - listed[m])
                \/ found[m] = Positive(Lots[m] - swept[m])
                \/ found[m] = 0
    <2>1. scan.found[m] \in Nat /\ tokens["user"][m] \in Nat
        BY DEF TypeOK, Places, Amounts
    <2>2. /\ balance(m, balanced) \in Nat
          /\ balance(m, balanced) \in {0, tokens["user"][m]}
        BY <2>1
    <2>3. (m \in read) \in BOOLEAN
        OBVIOUS
    <2> HIDE DEF balance
    <2>4. found[m] = IF scan.found[m] > 0 THEN scan.found[m]
                     ELSE Due(m, m \in read, balance(m, balanced))
        OBVIOUS
    <2> HIDE DEF found
    <2>5. CASE scan.found[m] > 0
        BY <2>1, <2>4, <2>5
    <2>6. CASE ~(scan.found[m] > 0)
        <3>1. found[m] = Due(m, m \in read, balance(m, balanced))
            BY <2>4, <2>6
        <3> QED BY <2>2, <2>3, <3>1, DueType
    <2> QED BY <2>5, <2>6
<1>3. found \in Amounts
    BY <1>2 DEF Amounts
<1> HIDE DEF found, positions, balance
<1>4. cache' \in [pc : {"none", "fresh"}, found : Amounts]
    BY <1>1, <1>3 DEF found
<1>5. sweep' \in [Sweepers -> SweepCalls]
    <2>1. ASSUME NEW r \in Sweepers
          PROVE  Working(sweep[r], found) \in SweepCalls /\ sweep[r] \in SweepCalls
        BY <1>3, WorkingType DEF TypeOK
    <2> QED BY <1>1, <2>1 DEF found
<1>6. scan' \in [pc : {"none", "indexer", "chain"}, found : Amounts]
    BY ConstantTypes DEF ScanEnds
<1>7. TypeOK'
    BY <1>4, <1>5, <1>6 DEF ScanEnds, TypeOK
<1> QED BY <1>1, <1>2, <1>3, <1>7 DEF found

LEMMA TimersTypes ==
    ASSUME TypeOK,
           CacheExpires \/ \E m \in Markets : OrdersAge(m) \/ QuietExpires(m)
    PROVE  /\ TypeOK'
           /\ cache' \in {cache, Nothing}
           /\ UNCHANGED <<tokens, float, swept, listed, scan, sweep, claim, paid, float0, preserved,
                          untold>>
<1>1. CASE CacheExpires
    BY <1>1, ConstantTypes DEF CacheExpires, TypeOK
<1>2. ASSUME NEW m \in Markets, OrdersAge(m)
      PROVE  /\ TypeOK'
             /\ cache' \in {cache, Nothing}
             /\ UNCHANGED <<tokens, float, swept, listed, scan, sweep, claim, paid, float0, preserved,
                            untold>>
    BY <1>2 DEF OrdersAge, TypeOK
<1>3. ASSUME NEW m \in Markets, QuietExpires(m)
      PROVE  /\ TypeOK'
             /\ cache' \in {cache, Nothing}
             /\ UNCHANGED <<tokens, float, swept, listed, scan, sweep, claim, paid, float0, preserved,
                            untold>>
    BY <1>3 DEF QuietExpires, TypeOK
<1> QED BY <1>1, <1>2, <1>3

LEMMA InvalidateType ==
    ASSUME Invalidate
    PROVE  /\ cache' \in [pc : {"none", "fresh"}, found : Amounts]
           /\ cache' = Nothing /\ quiet' \subseteq Markets
BY ConstantTypes DEF Invalidate

LEMMA TriggerTypes ==
    ASSUME TypeOK, NEW r \in Sweepers, TriggerBatchSweep(r)
    PROVE  /\ TypeOK'
           /\ \E s \in SweepCalls :
                 /\ sweep' = [sweep EXCEPT ![r] = s]
                 /\ s = [sweep[r] EXCEPT !.pc = "loading"]
<1> DEFINE s == [sweep[r] EXCEPT !.pc = "loading"]
<1>1. sweep[r] \in SweepCalls /\ s \in SweepCalls
    BY DEF TypeOK, SweepCalls
<1>2. sweep' = [sweep EXCEPT ![r] = s]
    BY DEF TriggerBatchSweep, Goto
<1> HIDE DEF s
<1>3. sweep' \in [Sweepers -> SweepCalls]
    BY <1>1, <1>2, SweepMoves
<1>4. TypeOK'
    BY <1>3, InvalidateType DEF TriggerBatchSweep, TypeOK
<1> QED BY <1>1, <1>2, <1>4 DEF s

(* A sweep goes on with positions that are fresh, or waits for a scan.     *)
LEMMA ObtainTypes ==
    ASSUME TypeOK, NEW r \in Sweepers, ObtainPositions(r)
    PROVE  /\ TypeOK'
           /\ scan' = scan \/ scan'.found = Zeros
           /\ \E s \in SweepCalls :
                 /\ sweep' = [sweep EXCEPT ![r] = s]
                 /\ s.pay = sweep[r].pay /\ s.at = sweep[r].at
                 /\ \/ s.pc = "working" /\ s.found = cache.found /\ \A m \in s.todo : s.found[m] > 0
                    \/ s.pc = "scanning" /\ s.found = sweep[r].found
<1>1. PICK gas \in BOOLEAN :
          \/ /\ sweep' = [sweep EXCEPT ![r] = Working([sweep[r] EXCEPT !.gas = gas], cache.found)]
             /\ UNCHANGED scan
          \/ /\ sweep' = [sweep EXCEPT ![r] = [[sweep[r] EXCEPT !.gas = gas] EXCEPT !.pc = "scanning"]]
             /\ BeginScan \/ UNCHANGED scan
    BY DEF ObtainPositions
<1> DEFINE ready == [sweep[r] EXCEPT !.gas = gas]
<1>2. /\ sweep[r] \in SweepCalls /\ ready \in SweepCalls
      /\ ready.pay = sweep[r].pay /\ ready.at = sweep[r].at /\ ready.found = sweep[r].found
    BY DEF TypeOK, SweepCalls
<1> DEFINE wait == [ready EXCEPT !.pc = "scanning"]
<1>3. /\ wait \in SweepCalls /\ wait.pc = "scanning" /\ wait.pay = ready.pay
      /\ wait.at = ready.at /\ wait.found = ready.found
    <2> HIDE DEF ready
    <2> QED BY <1>2 DEF SweepCalls
<1>4. \/ sweep' = [sweep EXCEPT ![r] = Working(ready, cache.found)] /\ UNCHANGED scan
      \/ sweep' = [sweep EXCEPT ![r] = wait] /\ (BeginScan \/ UNCHANGED scan)
    BY <1>1
<1> HIDE DEF ready, wait
<1>5. cache.found \in Amounts
    BY DEF TypeOK
<1>6. CASE sweep' = [sweep EXCEPT ![r] = Working(ready, cache.found)] /\ UNCHANGED scan
    <2>1. /\ Working(ready, cache.found) \in SweepCalls
          /\ sweep' \in [Sweepers -> SweepCalls]
        BY <1>2, <1>5, <1>6, WorkingType, SweepMoves
    <2>2. TypeOK'
        BY <1>6, <2>1 DEF ObtainPositions, TypeOK
    <2>3. /\ Working(ready, cache.found).pay = sweep[r].pay
          /\ Working(ready, cache.found).at = sweep[r].at
          /\ Working(ready, cache.found).pc = "working"
          /\ Working(ready, cache.found).found = cache.found
          /\ \A m \in Working(ready, cache.found).todo : cache.found[m] > 0
        BY <1>2, <1>5, WorkingType
    <2> QED BY <1>6, <2>1, <2>2, <2>3
<1>7. CASE sweep' = [sweep EXCEPT ![r] = wait] /\ (BeginScan \/ UNCHANGED scan)
    <2>1. sweep' \in [Sweepers -> SweepCalls]
        BY <1>3, <1>7, SweepMoves
    <2>2. /\ scan' \in [pc : {"none", "indexer", "chain"}, found : Amounts]
          /\ scan' = scan \/ scan'.found = Zeros
        BY <1>7, BeginScanType DEF TypeOK
    <2>3. TypeOK'
        BY <2>1, <2>2 DEF ObtainPositions, TypeOK
    <2> QED BY <1>2, <1>3, <1>7, <2>2, <2>3
<1> QED BY <1>4, <1>6, <1>7

(* A sweep that goes to the next position has changed nothing to be paid.  *)
LEMMA NextPosition ==
    ASSUME TypeOK, NEW r \in Sweepers, NEW s \in SweepCalls, s.pay = sweep[r].pay,
           s.found = sweep[r].found, s.todo \subseteq sweep[r].todo,
           sweep' = [sweep EXCEPT ![r] = Next1(s)]
    PROVE  /\ sweep' \in [Sweepers -> SweepCalls]
           /\ sweep'[r].pc = "working" /\ sweep'[r].at = {}
           /\ sweep'[r].pay = sweep[r].pay /\ sweep'[r].found = sweep[r].found
           /\ sweep'[r].todo \subseteq sweep[r].todo
           /\ \A q \in Sweepers \ {r} : sweep'[q] = sweep[q]
<1>1. /\ Next1(s) \in SweepCalls
      /\ Next1(s).pc = "working" /\ Next1(s).at = {}
      /\ Next1(s).pay = s.pay /\ Next1(s).found = s.found
    BY Next1Keeps
<1>2. Next1(s).todo \subseteq s.todo
    BY DEF Next1, SweepCalls
<1> QED BY <1>1, <1>2, SweepMoves

LEMMA HandledHere ==
    ASSUME TypeOK, NEW r \in Sweepers, NEW m \in Markets,
           sweep' = [sweep EXCEPT ![r] = Next1([@ EXCEPT !.at = {m}])]
    PROVE  /\ sweep' \in [Sweepers -> SweepCalls]
           /\ sweep'[r].pc = "working" /\ sweep'[r].at = {}
           /\ sweep'[r].pay = sweep[r].pay /\ sweep'[r].found = sweep[r].found
           /\ sweep'[r].todo \subseteq sweep[r].todo
           /\ \A q \in Sweepers \ {r} : sweep'[q] = sweep[q]
<1> DEFINE s == [sweep[r] EXCEPT !.at = {m}]
<1>1. sweep[r] \in SweepCalls
    BY DEF TypeOK
<1>2. /\ s \in SweepCalls /\ s.pay = sweep[r].pay /\ s.found = sweep[r].found
      /\ s.todo \subseteq sweep[r].todo
    BY <1>1 DEF SweepCalls
<1>3. sweep' = [sweep EXCEPT ![r] = Next1(s)]
    BY DEF TypeOK
<1> HIDE DEF s
<1> QED BY <1>2, <1>3, NextPosition

LEMMA WriteOffTypes ==
    ASSUME TypeOK, NEW r \in Sweepers, NEW m \in Markets, WriteOff(r, m)
    PROVE  /\ settled' \in [Markets -> {"open", "recent", "old"}]
           /\ quiet' \subseteq Markets
           /\ sweep' \in [Sweepers -> SweepCalls]
           /\ sweep'[r].pc = "working" /\ sweep'[r].at = {}
           /\ sweep'[r].pay = sweep[r].pay /\ sweep'[r].found = sweep[r].found
           /\ sweep'[r].todo \subseteq sweep[r].todo
           /\ \A q \in Sweepers \ {r} : sweep'[q] = sweep[q]
<1>1. settled' \in [Markets -> {"open", "recent", "old"}] /\ quiet' \subseteq Markets
    BY SettleType DEF WriteOff, TypeOK
<1>2. sweep' = [sweep EXCEPT ![r] = Next1([@ EXCEPT !.at = {m}])]
    BY DEF WriteOff
<1> QED BY <1>1, <1>2, HandledHere

(* Examining a position decides where to redeem it, or that there is       *)
(* nothing to redeem.                                                      *)
LEMMA ExamineTypes ==
    ASSUME TypeOK, NEW r \in Sweepers, NEW m \in Markets, Examine(r, m)
    PROVE  /\ TypeOK'
           /\ sweep[r].pc = "working" /\ m \in sweep[r].todo
           /\ sweep'[r].pay = sweep[r].pay /\ sweep'[r].found = sweep[r].found
           /\ sweep'[r].todo \subseteq sweep[r].todo
           /\ \A q \in Sweepers \ {r} : sweep'[q] = sweep[q]
           /\ \/ sweep'[r].pc = "working" /\ sweep'[r].at = {}
              \/ sweep'[r].pc = "cloneRedeem" /\ tokens["clone"][m] > 0
              \/ /\ sweep'[r].pc = "opRedeem" /\ sweep'[r].at = {m}
                 /\ tokens["operator"][m] > 0
                 /\ sweep'[r].amount = Lesser(tokens["operator"][m], sweep[r].found[m])
<1> DEFINE Effects ==
       /\ settled' \in [Markets -> {"open", "recent", "old"}]
       /\ quiet' \subseteq Markets
       /\ sweep' \in [Sweepers -> SweepCalls]
       /\ sweep'[r].pay = sweep[r].pay /\ sweep'[r].found = sweep[r].found
       /\ sweep'[r].todo \subseteq sweep[r].todo
       /\ \A q \in Sweepers \ {r} : sweep'[q] = sweep[q]
       /\ \/ sweep'[r].pc = "working" /\ sweep'[r].at = {}
          \/ sweep'[r].pc = "cloneRedeem" /\ tokens["clone"][m] > 0
          \/ /\ sweep'[r].pc = "opRedeem" /\ sweep'[r].at = {m}
             /\ tokens["operator"][m] > 0
             /\ sweep'[r].amount = Lesser(tokens["operator"][m], sweep[r].found[m])
<1>1. /\ tokens["operator"][m] \in Nat /\ tokens["user"][m] \in Nat /\ tokens["clone"][m] \in Nat
      /\ sweep[r] \in SweepCalls /\ sweep[r].found[m] \in Nat
      /\ settled \in [Markets -> {"open", "recent", "old"}] /\ quiet \subseteq Markets
    BY DEF TypeOK, Places, Amounts, SweepCalls
<1>2. ASSUME WriteOff(r, m)
      PROVE  Effects
    BY <1>2, WriteOffTypes
<1>3. ASSUME NEW clone \in Readings(tokens["clone"][m]), clone > 0,
             sweep' = [sweep EXCEPT ![r] = [@ EXCEPT !.pc = "cloneRedeem", !.at = {m},
                                              !.amount = Lesser(clone, sweep[r].found[m])]],
             UNCHANGED <<settled, quiet>>
      PROVE  Effects
    <2> DEFINE s == [sweep[r] EXCEPT !.pc = "cloneRedeem", !.at = {m},
                                     !.amount = Lesser(clone, sweep[r].found[m])]
    <2>1. clone = tokens["clone"][m] /\ tokens["clone"][m] > 0
        BY <1>1, <1>3 DEF Readings
    <2>2. Lesser(clone, sweep[r].found[m]) \in Nat
        BY <1>1, <2>1, Arithmetic
    <2>3. /\ s \in SweepCalls /\ s.pay = sweep[r].pay /\ s.found = sweep[r].found
          /\ s.todo = sweep[r].todo /\ s.pc = "cloneRedeem"
        BY <1>1, <2>2 DEF SweepCalls
    <2>4. sweep' = [sweep EXCEPT ![r] = s]
        BY <1>3 DEF TypeOK
    <2> HIDE DEF s
    <2>5. /\ sweep' \in [Sweepers -> SweepCalls] /\ sweep'[r] = s
          /\ \A q \in Sweepers \ {r} : sweep'[q] = sweep[q]
        BY <2>3, <2>4, SweepMoves
    <2> QED BY <1>1, <1>3, <2>1, <2>3, <2>5
<1>4. ASSUME Settle({m}), UNCHANGED quiet,
             sweep' = [sweep EXCEPT ![r] = Next1([@ EXCEPT !.at = {m}])]
      PROVE  Effects
    BY <1>1, <1>4, SettleType, HandledHere
<1>5. ASSUME NEW op \in Readings(tokens["operator"][m]), op > 0,
             sweep' = [sweep EXCEPT ![r] = [@ EXCEPT !.pc = "opRedeem", !.at = {m},
                                              !.amount = Lesser(op, sweep[r].found[m])]],
             UNCHANGED <<settled, quiet>>
      PROVE  Effects
    <2> DEFINE s == [sweep[r] EXCEPT !.pc = "opRedeem", !.at = {m},
                                     !.amount = Lesser(op, sweep[r].found[m])]
    <2>1. op = tokens["operator"][m] /\ tokens["operator"][m] > 0
        BY <1>1, <1>5 DEF Readings
    <2>2. Lesser(op, sweep[r].found[m]) \in Nat
        BY <1>1, <2>1, Arithmetic
    <2>3. /\ s \in SweepCalls /\ s.pay = sweep[r].pay /\ s.found = sweep[r].found
          /\ s.todo = sweep[r].todo /\ s.pc = "opRedeem" /\ s.at = {m}
          /\ s.amount = Lesser(op, sweep[r].found[m])
        BY <1>1, <2>2 DEF SweepCalls
    <2>4. sweep' = [sweep EXCEPT ![r] = s]
        BY <1>5 DEF TypeOK
    <2> HIDE DEF s
    <2>5. /\ sweep' \in [Sweepers -> SweepCalls] /\ sweep'[r] = s
          /\ \A q \in Sweepers \ {r} : sweep'[q] = sweep[q]
        BY <2>3, <2>4, SweepMoves
    <2> QED BY <1>1, <1>5, <2>1, <2>3, <2>5
<1> HIDE DEF Effects
<1>6. Effects
    <2>1. CASE WriteOff(r, m)
        BY <1>2, <2>1
    <2>2. CASE ~WriteOff(r, m)
        <3>1. PICK op \in Readings(tokens["operator"][m]), usr \in Readings(tokens["user"][m]),
                   clone \in Readings(tokens["clone"][m]) :
                \/ /\ clone > 0
                   /\ sweep' = [sweep EXCEPT ![r] =
                                  [@ EXCEPT !.pc = "cloneRedeem", !.at = {m},
                                            !.amount = Lesser(clone, sweep[r].found[m])]]
                   /\ UNCHANGED <<settled, quiet>>
                \/ /\ Settle({m}) /\ UNCHANGED quiet
                   /\ sweep' = [sweep EXCEPT ![r] = Next1([@ EXCEPT !.at = {m}])]
                \/ /\ op > 0
                   /\ sweep' = [sweep EXCEPT ![r] =
                                  [@ EXCEPT !.pc = "opRedeem", !.at = {m},
                                            !.amount = Lesser(op, sweep[r].found[m])]]
                   /\ UNCHANGED <<settled, quiet>>
            BY <2>2 DEF Examine
        <3> QED BY <1>3, <1>4, <1>5, <3>1
    <2> QED BY <2>1, <2>2
<1>7. /\ sweep[r].pc = "working" /\ m \in sweep[r].todo
      /\ UNCHANGED <<tokens, float, swept, listed, cache, scan, claim, paid, float0, preserved, untold>>
    BY DEF Examine
<1>8. TypeOK'
    BY <1>6, <1>7 DEF Effects, TypeOK
<1> QED BY <1>6, <1>7, <1>8 DEF Effects

(* A call goes on to its next position, with the same to be paid.          *)
GoesOn(r) ==
    /\ sweep'[r].pc = "working" /\ sweep'[r].at = {}
    /\ sweep'[r].pay = sweep[r].pay /\ sweep'[r].found = sweep[r].found
    /\ sweep'[r].todo \subseteq sweep[r].todo
    /\ \A q \in Sweepers \ {r} : sweep'[q] = sweep[q]

(* What a trader received grows, and so does what is recorded of it.       *)
Grows(f, g, amounts) == \A n \in Markets : g[n] = f[n] + amounts[n]

LEMMA RedeemFromCloneTypes ==
    ASSUME TypeOK, NEW r \in Sweepers, NEW m \in Markets, RedeemFromClone(r, m)
    PROVE  /\ TypeOK'
           /\ GoesOn(r)
           /\ float' = float /\ (untold => untold')
           /\ "void" \notin Faults /\ ConfirmedIsPaid => ConfirmedIsPaid'
<1> DEFINE amount == sweep[r].amount
<1>1. /\ amount \in Nat /\ tokens["clone"][m] \in Nat /\ paid \in Amounts /\ swept \in Amounts
      /\ "clone" \in Places /\ sweep[r] \in SweepCalls
    BY DEF TypeOK, SweepCalls, Places, Amounts
<1>2. PICK end \in Sent(tokens["clone"][m] >= amount) :
          /\ Tell(end)
          /\ IF Took(end)
             THEN /\ tokens' = [tokens EXCEPT !["clone"][m] = @ - amount]
                  /\ paid' = [paid EXCEPT ![m] = @ + amount]
             ELSE UNCHANGED <<tokens, paid>>
          /\ IF Reported(end)
             THEN /\ Record(Only(m, amount))
                  /\ Settle({m})
                  /\ sweep' = [sweep EXCEPT ![r] = Next1(@)]
                  /\ UNCHANGED quiet
             ELSE WriteOff(r, m) /\ UNCHANGED <<swept, listed>>
    BY DEF RedeemFromClone
<1> HIDE DEF amount
<1>3. /\ Took(end) => tokens["clone"][m] >= amount
      /\ "void" \notin Faults /\ Reported(end) => Took(end)
    <2>1. (tokens["clone"][m] >= amount) \in BOOLEAN
        OBVIOUS
    <2> QED BY <2>1, Ends
<1>4. untold' \in BOOLEAN /\ (untold => untold')
    BY <1>2, TellType DEF TypeOK
<1>5. /\ tokens' \in [Places -> Amounts] /\ paid' \in Amounts
      /\ \A n \in Markets : /\ paid'[n] >= paid[n]
                            /\ Took(end) => paid'[n] = paid[n] + Only(m, amount)[n]
    <2>1. CASE Took(end)
        <3>1. tokens' \in [Places -> Amounts]
            BY <1>1, <1>2, <1>3, <2>1, TokensType
        <3>2. paid' = [paid EXCEPT ![m] = paid[m] + amount]
            BY <1>1, <1>2, <2>1
        <3>3. /\ Only(m, amount)[m] = amount
              /\ \A n \in Markets \ {m} : Only(m, amount)[n] = 0
            BY <1>1, OnlyType
        <3> QED BY <1>1, <3>1, <3>2, <3>3 DEF Amounts
    <2>2. CASE ~Took(end)
        BY <1>1, <1>2, <2>2 DEF TypeOK, Amounts
    <2> QED BY <2>1, <2>2
<1>6. /\ swept' \in Amounts /\ listed' \in Amounts
      /\ settled' \in [Markets -> {"open", "recent", "old"}] /\ quiet' \subseteq Markets
      /\ sweep' \in [Sweepers -> SweepCalls]
      /\ GoesOn(r)
      /\ \A n \in Markets : Reported(end) => swept'[n] = swept[n] + Only(m, amount)[n]
      /\ \A n \in Markets : ~Reported(end) => swept'[n] = swept[n]
    <2>1. CASE Reported(end)
        <3>1. Only(m, amount) \in Amounts
            BY <1>1, OnlyType
        <3>2. /\ swept' \in Amounts /\ listed' \in Amounts
              /\ \A n \in Markets : swept'[n] = swept[n] + Only(m, amount)[n]
            BY <1>2, <2>1, <3>1, RecordType
        <3>3. sweep' = [sweep EXCEPT ![r] = Next1(sweep[r])]
            BY <1>2, <2>1 DEF TypeOK
        <3>4. sweep' \in [Sweepers -> SweepCalls] /\ GoesOn(r)
            BY <1>1, <3>3, NextPosition DEF GoesOn
        <3> QED BY <1>2, <2>1, <3>2, <3>4, SettleType DEF TypeOK
    <2>2. CASE ~Reported(end)
        <3>1. WriteOff(r, m) /\ swept' = swept /\ listed' = listed
            BY <1>2, <2>2
        <3> QED BY <2>2, <3>1, WriteOffTypes DEF TypeOK, GoesOn
    <2> QED BY <2>1, <2>2
<1>7. UNCHANGED <<float, cache, scan, claim, float0, preserved>>
    BY DEF RedeemFromClone
<1>8. TypeOK'
    BY <1>4, <1>5, <1>6, <1>7 DEF TypeOK
<1>9. ASSUME "void" \notin Faults, ConfirmedIsPaid, NEW n \in Markets
      PROVE  swept'[n] =< paid'[n]
    <2>1. Only(m, amount)[n] \in Nat /\ swept[n] \in Nat /\ paid[n] \in Nat
        BY <1>1, OnlyType DEF Amounts
    <2>2. /\ swept[n] =< paid[n]
          /\ paid'[n] \in Nat
        BY <1>5, <1>9 DEF ConfirmedIsPaid, Amounts
    <2>3. CASE Reported(end)
        BY <1>3, <1>5, <1>6, <1>9, <2>1, <2>2, <2>3
    <2>4. CASE ~Reported(end)
        <3>1. swept'[n] = swept[n] /\ paid'[n] >= paid[n]
            BY <1>5, <1>6, <2>4
        <3> QED BY ONLY <2>1, <2>2, <3>1
    <2> QED BY <2>3, <2>4
<1> QED BY <1>4, <1>6, <1>7, <1>8, <1>9 DEF ConfirmedIsPaid

LEMMA OperatorRedeemsType ==
    ASSUME TypeOK, NEW m \in Markets, NEW amount \in Nat, NEW end,
           Took(end) => tokens["operator"][m] >= amount,
           OperatorRedeems(end, m, amount)
    PROVE  /\ tokens' \in [Places -> Amounts] /\ float' \in Nat
           /\ Took(end) => /\ float' = float + amount
                           /\ tokens'["operator"][m] = tokens["operator"][m] - amount
                           /\ \A n \in Markets \ {m} : tokens'["operator"][n] = tokens["operator"][n]
           /\ ~Took(end) => float' = float /\ tokens' = tokens
           /\ tokens'["user"] = tokens["user"] /\ tokens'["clone"] = tokens["clone"]
<1>1. CASE Took(end)
    <2>1. /\ tokens' = [tokens EXCEPT !["operator"][m] = @ - amount]
          /\ float' = float + amount
        BY <1>1 DEF OperatorRedeems
    <2>2. "operator" \in Places /\ {"user", "clone"} \subseteq Places \ {"operator"}
        BY DEF Places
    <2>3. /\ tokens' \in [Places -> Amounts]
          /\ tokens'["operator"][m] = tokens["operator"][m] - amount
          /\ \A n \in Markets \ {m} : tokens'["operator"][n] = tokens["operator"][n]
          /\ \A q \in Places \ {"operator"} : tokens'[q] = tokens[q]
        BY <1>1, <2>1, <2>2, TokensType
    <2> QED BY <1>1, <2>1, <2>3 DEF TypeOK
<1>2. CASE ~Took(end)
    BY <1>2 DEF OperatorRedeems, TypeOK
<1> QED BY <1>1, <1>2

(* What the operator redeems for a call is what the call is to pay.        *)
LEMMA RedeemFromOperatorTypes ==
    ASSUME TypeOK, NEW r \in Sweepers, NEW m \in Markets, RedeemFromOperator(r, m)
    PROVE  /\ TypeOK'
           /\ sweep[r].pc = "opRedeem" /\ sweep[r].at = {m}
           /\ sweep'[r].pc = "working" /\ sweep'[r].at = {} /\ sweep'[r].found = sweep[r].found
           /\ sweep'[r].todo \subseteq sweep[r].todo
           /\ \A q \in Sweepers \ {r} : sweep'[q] = sweep[q]
           /\ UNCHANGED <<swept, listed, cache, scan, claim, paid, float0>>
           /\ tokens'["user"] = tokens["user"] /\ tokens'["clone"] = tokens["clone"]
           /\ \E end \in Sent(tokens["operator"][m] >= sweep[r].amount) :
                 /\ Tell(end)
                 /\ Took(end) =>
                       /\ float' = float + sweep[r].amount
                       /\ tokens'["operator"][m] = tokens["operator"][m] - sweep[r].amount
                       /\ \A n \in Markets \ {m} : tokens'["operator"][n] = tokens["operator"][n]
                 /\ ~Took(end) => float' = float /\ tokens' = tokens
                 /\ Reported(end) => sweep'[r].pay = [sweep[r].pay EXCEPT ![m] = sweep[r].amount]
                 /\ ~Reported(end) => sweep'[r].pay = sweep[r].pay
<1> DEFINE amount == sweep[r].amount
<1>1. amount \in Nat /\ tokens["operator"][m] \in Nat /\ sweep[r] \in SweepCalls
    BY DEF TypeOK, SweepCalls, Places, Amounts
<1>2. PICK end \in Sent(tokens["operator"][m] >= amount) :
          /\ Tell(end)
          /\ OperatorRedeems(end, m, amount)
          /\ IF Reported(end)
             THEN /\ sweep' = [sweep EXCEPT ![r] = Next1([@ EXCEPT !.pay[m] = amount])]
                  /\ UNCHANGED <<settled, quiet>>
             ELSE WriteOff(r, m)
    BY DEF RedeemFromOperator
<1>3. /\ sweep[r].pc = "opRedeem" /\ sweep[r].at = {m}
      /\ UNCHANGED <<swept, listed, cache, scan, claim, paid, float0, preserved>>
    BY DEF RedeemFromOperator
<1> DEFINE s == [sweep[r] EXCEPT !.pay = [@ EXCEPT ![m] = amount]]
<1>4. /\ s \in SweepCalls
      /\ s.pay = [sweep[r].pay EXCEPT ![m] = amount] /\ s.found = sweep[r].found
      /\ s.todo = sweep[r].todo
    BY <1>1 DEF SweepCalls, Amounts
<1>5. Reported(end) => sweep' = [sweep EXCEPT ![r] = Next1(s)]
    BY <1>1, <1>2 DEF TypeOK, SweepCalls, Amounts
<1> HIDE DEF s, amount
<1>6. /\ tokens' \in [Places -> Amounts] /\ float' \in Nat
      /\ Took(end) => /\ float' = float + amount
                      /\ tokens'["operator"][m] = tokens["operator"][m] - amount
                      /\ \A n \in Markets \ {m} : tokens'["operator"][n] = tokens["operator"][n]
      /\ ~Took(end) => float' = float /\ tokens' = tokens
      /\ tokens'["user"] = tokens["user"] /\ tokens'["clone"] = tokens["clone"]
    <2>1. Took(end) => tokens["operator"][m] >= amount
        <3>1. (tokens["operator"][m] >= amount) \in BOOLEAN
            OBVIOUS
        <3> QED BY <3>1, Ends
    <2> QED BY <1>1, <1>2, <2>1, OperatorRedeemsType
<1>7. untold' \in BOOLEAN
    BY <1>2, TellType DEF TypeOK
<1>8. /\ sweep' \in [Sweepers -> SweepCalls]
      /\ settled' \in [Markets -> {"open", "recent", "old"}] /\ quiet' \subseteq Markets
      /\ sweep'[r].pc = "working" /\ sweep'[r].at = {} /\ sweep'[r].found = sweep[r].found
      /\ sweep'[r].todo \subseteq sweep[r].todo
      /\ \A q \in Sweepers \ {r} : sweep'[q] = sweep[q]
      /\ Reported(end) => sweep'[r].pay = [sweep[r].pay EXCEPT ![m] = amount]
      /\ ~Reported(end) => sweep'[r].pay = sweep[r].pay
    <2>1. CASE Reported(end)
        <3>1. sweep' \in [Sweepers -> SweepCalls]
              /\ sweep'[r] = Next1(s)
              /\ \A q \in Sweepers \ {r} : sweep'[q] = sweep[q]
            BY <1>4, <1>5, <2>1, Next1Keeps, SweepMoves
        <3>2. /\ Next1(s).pc = "working" /\ Next1(s).at = {}
              /\ Next1(s).pay = s.pay /\ Next1(s).found = s.found
            BY <1>4, Next1Keeps
        <3>3. Next1(s).todo \subseteq s.todo
            BY <1>4 DEF Next1, SweepCalls
        <3> QED BY <1>2, <1>4, <2>1, <3>1, <3>2, <3>3 DEF TypeOK
    <2>2. CASE ~Reported(end)
        BY <1>2, <2>2, WriteOffTypes
    <2> QED BY <2>1, <2>2
<1>9. TypeOK'
    BY <1>3, <1>6, <1>7, <1>8 DEF TypeOK
<1> QED BY <1>2, <1>3, <1>6, <1>8, <1>9 DEF amount

LEMMA ReadBalanceTypes ==
    ASSUME TypeOK, NEW r \in Sweepers, ReadBalance(r)
    PROVE  /\ TypeOK'
           /\ sweep[r].pc = "working" /\ sweep'[r].pc \in {"batch", "split"}
           /\ sweep'[r].pay = sweep[r].pay /\ sweep'[r].found = sweep[r].found
           /\ sweep'[r].todo = {m \in Markets : sweep[r].pay[m] > 0}
           /\ \A q \in Sweepers \ {r} : sweep'[q] = sweep[q]
<1>1. PICK balance \in Readings(float) :
          sweep' = [sweep EXCEPT ![r] =
                      [@ EXCEPT !.pc = IF balance >= Total(sweep[r].pay) THEN "batch" ELSE "split",
                                !.todo = {m \in Markets : sweep[r].pay[m] > 0},
                                !.amount = balance]]
    BY DEF ReadBalance
<1> DEFINE pc == IF balance >= Total(sweep[r].pay) THEN "batch" ELSE "split"
           s  == [sweep[r] EXCEPT !.pc = pc, !.todo = {m \in Markets : sweep[r].pay[m] > 0},
                                  !.amount = balance]
<1>2. pc \in {"batch", "split"}
    OBVIOUS
<1>3. balance \in Nat /\ sweep[r] \in SweepCalls
    BY Arithmetic DEF TypeOK
<1>4. sweep' = [sweep EXCEPT ![r] = s]
    BY <1>1 DEF TypeOK
<1> HIDE DEF pc
<1>5. /\ s \in SweepCalls /\ s.pc = pc /\ s.pay = sweep[r].pay /\ s.found = sweep[r].found
      /\ s.todo = {m \in Markets : sweep[r].pay[m] > 0}
    BY <1>2, <1>3 DEF SweepCalls
<1> HIDE DEF s
<1>6. /\ sweep' \in [Sweepers -> SweepCalls] /\ sweep'[r] = s
      /\ \A q \in Sweepers \ {r} : sweep'[q] = sweep[q]
    BY <1>4, <1>5, SweepMoves
<1>7. TypeOK'
    BY <1>6 DEF ReadBalance, TypeOK
<1> QED BY <1>2, <1>5, <1>6, <1>7 DEF ReadBalance

LEMMA FinishTypes ==
    ASSUME TypeOK, NEW r \in Sweepers, Finish(r)
    PROVE  /\ sweep' \in [Sweepers -> SweepCalls] /\ sweep'[r] = Asleep
           /\ \A q \in Sweepers \ {r} : sweep'[q] = sweep[q]
           /\ cache' \in [pc : {"none", "fresh"}, found : Amounts]
           /\ cache' = Nothing /\ quiet' \subseteq Markets
BY ConstantTypes, InvalidateType, SweepMoves DEF Finish

(* One transfer for everything that is to be paid.                         *)
LEMMA PayBatchTypes ==
    ASSUME TypeOK, NEW r \in Sweepers, PayBatch(r)
    PROVE  /\ TypeOK'
           /\ sweep[r].pc = "batch"
           /\ \A q \in Sweepers \ {r} : sweep'[q] = sweep[q]
           /\ UNCHANGED <<tokens, scan, claim, float0>>
           /\ cache' \in {cache, Nothing}
           /\ \E end \in Sent(float >= Total(sweep[r].pay)) :
                 /\ Tell(end)
                 /\ Took(end) => /\ float' = float - Total(sweep[r].pay)
                                 /\ Grows(paid, paid', sweep[r].pay)
                 /\ ~Took(end) => UNCHANGED <<float, paid>>
                 /\ Reported(end) => /\ Grows(swept, swept', sweep[r].pay)
                                     /\ Grows(listed, listed', sweep[r].pay)
                                     /\ sweep'[r] = Asleep
                 /\ ~Reported(end) => /\ UNCHANGED <<swept, listed>>
                                      /\ sweep'[r] = [sweep[r] EXCEPT !.pc = "split"]
<1>1. PICK end \in Sent(float >= Total(sweep[r].pay)) :
          /\ Tell(end)
          /\ Transfer(end, sweep[r].pay)
          /\ IF Reported(end)
             THEN Record(sweep[r].pay) /\ Settle(sweep[r].todo) /\ Finish(r)
             ELSE Goto(r, "split") /\ UNCHANGED <<settled, swept, listed, quiet, cache>>
    BY DEF PayBatch
<1>2. sweep[r] \in SweepCalls /\ sweep[r].pay \in Amounts
    BY DEF TypeOK, SweepCalls
<1>3. /\ float' \in Nat /\ paid' \in Amounts
      /\ Took(end) => /\ float' = float - Total(sweep[r].pay)
                      /\ Grows(paid, paid', sweep[r].pay)
      /\ ~Took(end) => UNCHANGED <<float, paid>>
    <2>1. Took(end) => float >= Total(sweep[r].pay)
        <3>1. (float >= Total(sweep[r].pay)) \in BOOLEAN
            OBVIOUS
        <3> QED BY <3>1, Ends
    <2> QED BY <1>1, <1>2, <2>1, TransferType DEF Grows
<1>4. untold' \in BOOLEAN
    BY <1>1, TellType DEF TypeOK
<1>5. /\ swept' \in Amounts /\ listed' \in Amounts
      /\ settled' \in [Markets -> {"open", "recent", "old"}] /\ quiet' \subseteq Markets
      /\ sweep' \in [Sweepers -> SweepCalls]
      /\ cache' \in [pc : {"none", "fresh"}, found : Amounts]
      /\ cache' \in {cache, Nothing}
      /\ \A q \in Sweepers \ {r} : sweep'[q] = sweep[q]
      /\ Reported(end) => /\ Grows(swept, swept', sweep[r].pay)
                          /\ Grows(listed, listed', sweep[r].pay)
                          /\ sweep'[r] = Asleep
      /\ ~Reported(end) => /\ UNCHANGED <<swept, listed>>
                           /\ sweep'[r] = [sweep[r] EXCEPT !.pc = "split"]
    <2>1. CASE Reported(end)
        <3>1. Record(sweep[r].pay) /\ Settle(sweep[r].todo) /\ Finish(r)
            BY <1>1, <2>1
        <3>2. /\ swept' \in Amounts /\ listed' \in Amounts
              /\ Grows(swept, swept', sweep[r].pay) /\ Grows(listed, listed', sweep[r].pay)
            BY <1>2, <3>1, RecordType DEF Grows
        <3>3. settled' \in [Markets -> {"open", "recent", "old"}]
            BY <3>1, SettleType
        <3> QED BY <2>1, <3>1, <3>2, <3>3, FinishTypes
    <2>2. CASE ~Reported(end)
        <3>1. Goto(r, "split") /\ UNCHANGED <<settled, swept, listed, quiet, cache>>
            BY <1>1, <2>2
        <3> DEFINE s == [sweep[r] EXCEPT !.pc = "split"]
        <3>2. s \in SweepCalls
            BY <1>2 DEF SweepCalls
        <3>3. sweep' = [sweep EXCEPT ![r] = s]
            BY <3>1 DEF Goto
        <3> HIDE DEF s
        <3>4. /\ sweep' \in [Sweepers -> SweepCalls] /\ sweep'[r] = s
              /\ \A q \in Sweepers \ {r} : sweep'[q] = sweep[q]
            BY <3>2, <3>3, SweepMoves
        <3> QED BY <2>2, <3>1, <3>4 DEF TypeOK, s
    <2> QED BY <2>1, <2>2
<1>6. sweep[r].pc = "batch" /\ UNCHANGED <<tokens, scan, claim, float0, preserved>>
    BY DEF PayBatch
<1>7. TypeOK'
    BY <1>3, <1>4, <1>5, <1>6 DEF TypeOK
<1> QED BY <1>1, <1>3, <1>5, <1>6, <1>7

LEMMA TotalOnly ==
    ASSUME NEW m \in Markets, NEW a \in Nat
    PROVE  Total(Only(m, a)) = a
<1>1. /\ Only(m, a) \in [Markets -> Nat] /\ Only(m, a)[m] = a
      /\ \A n \in Markets \ {m} : Only(m, a)[n] = 0
      /\ Zeros \in [Markets -> Nat] /\ \A n \in Markets : Zeros[n] = 0
    BY OnlyType, ConstantTypes DEF Amounts
<1>2. Total(Zeros) = 0
    <2>1. Units(Zeros) = {}
        BY <1>1 DEF Units, Zeros
    <2> QED BY <2>1, FS_EmptySet DEF Total
<1>3. IsFiniteSet(Markets)
    OBVIOUS
<1>4. Total(Zeros) + Only(m, a)[m] =< Total(Only(m, a)) + Zeros[m]
    <2>1. \A n \in Markets \ {m} : Zeros[n] =< Only(m, a)[n]
        BY <1>1
    <2> QED BY <1>1, <1>3, <2>1, TotalChange
<1>5. Total(Only(m, a)) + Zeros[m] =< Total(Zeros) + Only(m, a)[m]
    <2>1. \A n \in Markets \ {m} : Only(m, a)[n] =< Zeros[n]
        BY <1>1
    <2> QED BY <1>1, <1>3, <2>1, TotalChange
<1>6. Total(Only(m, a)) \in Nat
    BY <1>1, <1>3, TotalFinite
<1> QED BY <1>1, <1>2, <1>4, <1>5, <1>6

(* A transfer for one market.                                              *)
LEMMA PayOneTypes ==
    ASSUME TypeOK, NEW r \in Sweepers, NEW m \in Markets, PayOne(r, m)
    PROVE  /\ TypeOK'
           /\ sweep[r].pc = "split" /\ m \in sweep[r].todo
           /\ sweep'[r].pc = "split" /\ sweep'[r].todo = sweep[r].todo \ {m}
           /\ sweep'[r].pay = sweep[r].pay /\ sweep'[r].found = sweep[r].found
           /\ \A q \in Sweepers \ {r} : sweep'[q] = sweep[q]
           /\ UNCHANGED <<tokens, cache, scan, claim, float0>>
           /\ \E end \in Sent(Covers(r, sweep[r].pay[m]) /\ float >= sweep[r].pay[m]) :
                 /\ Tell(end)
                 /\ Took(end) => /\ float' = float - sweep[r].pay[m]
                                 /\ Grows(paid, paid', Only(m, sweep[r].pay[m]))
                 /\ ~Took(end) => UNCHANGED <<float, paid>>
                 /\ Reported(end) => /\ Grows(swept, swept', Only(m, sweep[r].pay[m]))
                                     /\ Grows(listed, listed', Only(m, sweep[r].pay[m]))
                 /\ ~Reported(end) => UNCHANGED <<swept, listed>>
<1> DEFINE amount == sweep[r].pay[m]
           ok     == Covers(r, amount) /\ float >= amount
<1>1. sweep[r] \in SweepCalls /\ amount \in Nat /\ float \in Nat
    BY DEF TypeOK, SweepCalls, Amounts
<1>2. PICK end \in Sent(ok) :
          /\ Tell(end)
          /\ Transfer(end, Only(m, amount))
          /\ IF Reported(end)
             THEN /\ Record(Only(m, amount))
                  /\ Settle({m})
                  /\ sweep' = [sweep EXCEPT ![r] = [sweep[r] EXCEPT !.todo = @ \ {m},
                                                                    !.amount = @ - amount]]
                  /\ UNCHANGED preserved
             ELSE /\ sweep' = [sweep EXCEPT ![r].todo = @ \ {m}]
                  /\ preserved' = preserved \cup {m}
                  /\ UNCHANGED <<settled, swept, listed>>
    BY DEF PayOne
<1>3. ok \in BOOLEAN /\ (ok => sweep[r].amount >= amount /\ float >= amount)
    BY DEF Covers
<1>4. Took(end) \/ Reported(end) => sweep[r].amount >= amount /\ float >= amount
    <2> HIDE DEF ok
    <2> QED BY <1>3, Ends
<1>5. Only(m, amount) \in Amounts /\ Total(Only(m, amount)) = amount
    BY <1>1, OnlyType, TotalOnly
<1>6. /\ float' \in Nat /\ paid' \in Amounts
      /\ Took(end) => /\ float' = float - amount
                      /\ Grows(paid, paid', Only(m, amount))
      /\ ~Took(end) => UNCHANGED <<float, paid>>
    <2> HIDE DEF amount, ok
    <2> QED BY <1>2, <1>4, <1>5, TransferType DEF Grows
<1>7. untold' \in BOOLEAN
    BY <1>2, TellType DEF TypeOK
<1>8. \E s \in SweepCalls :
          /\ sweep' = [sweep EXCEPT ![r] = s]
          /\ s.pc = sweep[r].pc /\ s.todo = sweep[r].todo \ {m}
          /\ s.pay = sweep[r].pay /\ s.found = sweep[r].found
    <2>1. CASE Reported(end)
        <3> DEFINE s == [sweep[r] EXCEPT !.todo = @ \ {m}, !.amount = @ - amount]
        <3>1. sweep' = [sweep EXCEPT ![r] = s]
            <4> HIDE DEF amount, ok, s
            <4>1. sweep' = [sweep EXCEPT ![r] = [sweep[r] EXCEPT !.todo = @ \ {m},
                                                                 !.amount = @ - amount]]
                BY <1>2, <2>1 DEF TypeOK
            <4> QED BY <4>1 DEF s
        <3>2. sweep[r].amount \in Nat /\ sweep[r].amount - amount \in Nat
            <4>1. sweep[r].amount \in Nat
                BY <1>1 DEF SweepCalls
            <4> QED BY <1>1, <1>4, <2>1, <4>1
        <3> HIDE DEF amount, ok
        <3>3. /\ s \in SweepCalls
              /\ s.pc = sweep[r].pc /\ s.todo = sweep[r].todo \ {m}
              /\ s.pay = sweep[r].pay /\ s.found = sweep[r].found
            BY <1>1, <3>2 DEF SweepCalls
        <3> QED BY <3>1, <3>3
    <2>2. CASE ~Reported(end)
        <3> DEFINE s == [sweep[r] EXCEPT !.todo = @ \ {m}]
        <3>1. sweep' = [sweep EXCEPT ![r] = s]
            BY <1>2, <2>2 DEF TypeOK
        <3> HIDE DEF amount, ok
        <3>2. /\ s \in SweepCalls
              /\ s.pc = sweep[r].pc /\ s.todo = sweep[r].todo \ {m}
              /\ s.pay = sweep[r].pay /\ s.found = sweep[r].found
            BY <1>1 DEF SweepCalls
        <3> QED BY <3>1, <3>2
    <2> QED BY <2>1, <2>2
<1> HIDE DEF amount, ok
<1>9. /\ sweep' \in [Sweepers -> SweepCalls]
      /\ sweep'[r].pc = sweep[r].pc /\ sweep'[r].todo = sweep[r].todo \ {m}
      /\ sweep'[r].pay = sweep[r].pay /\ sweep'[r].found = sweep[r].found
      /\ \A q \in Sweepers \ {r} : sweep'[q] = sweep[q]
    BY <1>8, SweepMoves
<1>10. /\ swept' \in Amounts /\ listed' \in Amounts /\ preserved' \subseteq Markets
       /\ settled' \in [Markets -> {"open", "recent", "old"}]
       /\ Reported(end) => /\ Grows(swept, swept', Only(m, amount))
                           /\ Grows(listed, listed', Only(m, amount))
       /\ ~Reported(end) => UNCHANGED <<swept, listed>>
    <2>1. CASE Reported(end)
        <3>1. Record(Only(m, amount)) /\ Settle({m}) /\ UNCHANGED preserved
            BY <1>2, <2>1
        <3> QED BY <1>5, <2>1, <3>1, RecordType, SettleType DEF TypeOK, Grows
    <2>2. CASE ~Reported(end)
        BY <1>2, <2>2 DEF TypeOK
    <2> QED BY <2>1, <2>2
<1>11. /\ sweep[r].pc = "split" /\ m \in sweep[r].todo
       /\ UNCHANGED <<tokens, quiet, cache, scan, claim, float0>>
    BY DEF PayOne
<1>12. TypeOK'
    BY <1>6, <1>7, <1>9, <1>10, <1>11 DEF TypeOK
<1>13. end \in Sent(Covers(r, sweep[r].pay[m]) /\ float >= sweep[r].pay[m])
    BY <1>2 DEF ok, amount
<1> QED BY <1>2, <1>6, <1>9, <1>10, <1>11, <1>12, <1>13 DEF amount

LEMMA EndSweepTypes ==
    ASSUME TypeOK, NEW r \in Sweepers, EndSweep(r)
    PROVE  /\ TypeOK'
           /\ sweep[r].pc = "split" /\ sweep[r].todo = {} /\ sweep'[r] = Asleep
           /\ \A q \in Sweepers \ {r} : sweep'[q] = sweep[q]
           /\ cache' = Nothing
           /\ UNCHANGED <<tokens, float, swept, listed, scan, claim, paid, float0, untold>>
BY FinishTypes DEF EndSweep, TypeOK

(* A claim reads what the operator and the clone hold, or the trader's     *)
(* orders are settled because he holds everything himself.                 *)
LEMMA BeginClaimTypes ==
    ASSUME TypeOK, NEW c \in Claimers, NEW m \in Markets, BeginClaim(c, m)
    PROVE  /\ TypeOK'
           /\ UNCHANGED <<tokens, float, swept, listed, cache, scan, sweep, paid, float0, untold>>
           /\ \/ claim' = claim
              \/ /\ claim'[c].pc = "clone" /\ claim'[c].at = {m}
                 /\ claim'[c].op = tokens["operator"][m] /\ claim'[c].clone = tokens["clone"][m]
                 /\ \A d \in Claimers \ {c} : claim'[d] = claim[d]
<1>1. tokens["operator"][m] \in Nat /\ tokens["clone"][m] \in Nat
    BY DEF TypeOK, Places, Amounts
<1>2. UNCHANGED <<tokens, float, swept, listed, quiet, cache, scan, sweep, paid, float0, preserved, untold>>
    BY DEF BeginClaim
<1>3. CASE Settle({m}) /\ UNCHANGED claim
    BY <1>2, <1>3, SettleType DEF TypeOK
<1>4. CASE UNCHANGED settled /\ \E gas \in BOOLEAN :
              claim' = [claim EXCEPT ![c] =
                          [NoClaim EXCEPT !.pc = "clone", !.at = {m}, !.op = tokens["operator"][m],
                                          !.clone = tokens["clone"][m], !.gas = gas]]
    <2>1. PICK gas \in BOOLEAN :
              claim' = [claim EXCEPT ![c] =
                          [NoClaim EXCEPT !.pc = "clone", !.at = {m}, !.op = tokens["operator"][m],
                                          !.clone = tokens["clone"][m], !.gas = gas]]
        BY <1>4
    <2> DEFINE k == [NoClaim EXCEPT !.pc = "clone", !.at = {m}, !.op = tokens["operator"][m],
                                    !.clone = tokens["clone"][m], !.gas = gas]
    <2>2. /\ k \in ClaimCalls /\ k.pc = "clone" /\ k.at = {m} /\ k.op = tokens["operator"][m]
          /\ k.clone = tokens["clone"][m]
        BY <1>1, ConstantTypes DEF ClaimCalls
    <2>3. claim' = [claim EXCEPT ![c] = k]
        BY <2>1
    <2> HIDE DEF k
    <2>4. /\ claim' \in [Claimers -> ClaimCalls] /\ claim'[c] = k
          /\ \A d \in Claimers \ {c} : claim'[d] = claim[d]
        BY <2>2, <2>3, ClaimMoves
    <2>5. TypeOK'
        BY <1>2, <1>4, <2>4 DEF TypeOK
    <2> QED BY <1>2, <2>2, <2>4, <2>5
<1>5. \/ Settle({m}) /\ UNCHANGED claim
      \/ UNCHANGED settled /\ \E gas \in BOOLEAN :
              claim' = [claim EXCEPT ![c] =
                          [NoClaim EXCEPT !.pc = "clone", !.at = {m}, !.op = tokens["operator"][m],
                                          !.clone = tokens["clone"][m], !.gas = gas]]
    BY DEF BeginClaim
<1> QED BY <1>3, <1>4, <1>5

LEMMA ClaimFromCloneTypes ==
    ASSUME TypeOK, NEW c \in Claimers, NEW m \in Markets, ClaimFromClone(c, m)
    PROVE  /\ TypeOK'
           /\ UNCHANGED <<float, swept, listed, cache, scan, sweep, float0>>
           /\ claim[c].pc = "clone" /\ claim[c].at = {m}
           /\ claim'[c].pc = "operator" /\ claim'[c].at = {m} /\ claim'[c].op = claim[c].op
           /\ claim'[c].clone = claim[c].clone
           /\ \A d \in Claimers \ {c} : claim'[d] = claim[d]
           /\ \A n \in Markets : paid'[n] >= paid[n]
           /\ claim[c].clone = 0 => /\ UNCHANGED <<tokens, paid>>
                                    /\ (Faults = {} => claim'[c].hash = FALSE)
<1> DEFINE amount == claim[c].clone
           ok     == amount > 0 /\ tokens["clone"][m] >= amount
<1>1. /\ amount \in Nat /\ tokens["clone"][m] \in Nat /\ paid \in Amounts
      /\ "clone" \in Places /\ claim[c] \in ClaimCalls
    BY DEF TypeOK, ClaimCalls, Places, Amounts
<1>2. PICK end \in Sent(ok) :
          /\ Tell(end)
          /\ IF Took(end)
             THEN /\ tokens' = [tokens EXCEPT !["clone"][m] = @ - amount]
                  /\ paid' = [paid EXCEPT ![m] = @ + amount]
             ELSE UNCHANGED <<tokens, paid>>
          /\ claim' = [claim EXCEPT ![c] = [@ EXCEPT !.pc = "operator", !.hash = Reported(end)]]
    BY DEF ClaimFromClone
<1>3. ok \in BOOLEAN /\ (ok => amount > 0 /\ tokens["clone"][m] >= amount)
    OBVIOUS
<1>4. Took(end) \/ Reported(end) => amount > 0 /\ tokens["clone"][m] >= amount
    <2> HIDE DEF ok, amount
    <2> QED BY <1>3, Ends
<1> HIDE DEF amount, ok
<1>5. /\ tokens' \in [Places -> Amounts] /\ paid' \in Amounts
      /\ \A n \in Markets : paid'[n] >= paid[n]
      /\ amount = 0 => UNCHANGED <<tokens, paid>>
    <2>1. CASE Took(end)
        <3>1. tokens' \in [Places -> Amounts]
            BY <1>1, <1>2, <1>4, <2>1, TokensType
        <3>2. paid' = [paid EXCEPT ![m] = paid[m] + amount]
            BY <1>1, <1>2, <2>1
        <3>3. amount # 0
            BY <1>4, <2>1
        <3> QED BY <1>1, <3>1, <3>2, <3>3 DEF Amounts
    <2>2. CASE ~Took(end)
        BY <1>1, <1>2, <2>2 DEF TypeOK, Amounts
    <2> QED BY <2>1, <2>2
<1>6. untold' \in BOOLEAN
    BY <1>2, TellType DEF TypeOK
<1> DEFINE k == [claim[c] EXCEPT !.pc = "operator", !.hash = Reported(end)]
<1>7. Reported(end) \in BOOLEAN
    BY DEF Reported
<1>8. /\ k \in ClaimCalls /\ k.pc = "operator" /\ k.at = claim[c].at /\ k.op = claim[c].op
      /\ k.clone = claim[c].clone /\ k.hash = Reported(end)
    BY <1>1, <1>7 DEF ClaimCalls
<1>9. claim' = [claim EXCEPT ![c] = k]
    BY <1>2 DEF TypeOK
<1> HIDE DEF k
<1>10. /\ claim' \in [Claimers -> ClaimCalls] /\ claim'[c] = k
       /\ \A d \in Claimers \ {c} : claim'[d] = claim[d]
    BY <1>8, <1>9, ClaimMoves
<1>11. claim[c].clone = 0 => claim'[c].hash = FALSE
    <2>1. ASSUME claim[c].clone = 0
          PROVE  Reported(end) = FALSE
        <3>1. ~Reported(end)
            BY <1>4, <2>1 DEF amount
        <3> QED BY <1>7, <3>1
    <2> QED BY <1>8, <1>10, <2>1
<1>12. /\ claim[c].pc = "clone" /\ claim[c].at = {m}
       /\ UNCHANGED <<float, settled, swept, listed, quiet, cache, scan, sweep, float0, preserved>>
    BY DEF ClaimFromClone
<1>13. TypeOK'
    BY <1>5, <1>6, <1>10, <1>12 DEF TypeOK
<1> QED BY <1>5, <1>8, <1>10, <1>11, <1>12, <1>13 DEF amount

LEMMA OwedType ==
    ASSUME TypeOK, NEW m \in Markets, NEW hash \in BOOLEAN
    PROVE  /\ Owed(m, hash) \in Nat
           /\ ~hash => Owed(m, hash) = 0
           /\ Owed(m, hash) =< Lots[m]
<1>1. Lots[m] \in Nat \ {0} /\ listed[m] \in Nat
    BY DEF TypeOK, Amounts
<1> QED BY <1>1 DEF Owed, Positive

(* What is owed after the operator redeemed for a claim, or did not.       *)
LEMMA ClaimFromOperatorTypes ==
    ASSUME TypeOK, NEW c \in Claimers, NEW m \in Markets, ClaimFromOperator(c, m)
    PROVE  /\ TypeOK'
           /\ UNCHANGED <<swept, listed, cache, scan, sweep, paid, float0>>
           /\ claim[c].pc = "operator" /\ claim[c].at = {m}
           /\ claim'[c].pc = "paying" /\ claim'[c].at = {m} /\ claim'[c].op = claim[c].op
           /\ claim'[c].clone = claim[c].clone
           /\ \A d \in Claimers \ {c} : claim'[d] = claim[d]
           /\ tokens'["user"] = tokens["user"] /\ tokens'["clone"] = tokens["clone"]
           /\ \A n \in Markets \ {m} : tokens'["operator"][n] = tokens["operator"][n]
           /\ \/ /\ claim[c].op > 0
                 /\ \E end \in Sent(tokens["operator"][m] >= claim[c].op) :
                       /\ Took(end) => tokens'["operator"][m] = tokens["operator"][m] - claim[c].op
                       /\ ~Took(end) => tokens'["operator"][m] = tokens["operator"][m]
                       /\ claim'[c].amount =< Lots[m]
                       /\ ~Reported(end) => claim'[c].amount = 0
              \/ /\ tokens' = tokens
                 /\ ~claim[c].hash => claim'[c].amount = 0
<1>1. /\ claim[c] \in ClaimCalls /\ claim[c].op \in Nat /\ claim[c].hash \in BOOLEAN
      /\ claim[c].gas \in BOOLEAN
    BY DEF TypeOK, ClaimCalls
<1>2. /\ claim[c].pc = "operator" /\ claim[c].at = {m}
      /\ UNCHANGED <<swept, listed, quiet, cache, scan, sweep, paid, float0, preserved>>
    BY DEF ClaimFromOperator
<1>3. CASE claim[c].op > 0 /\ claim[c].gas
    <2>1. PICK end \in Sent(tokens["operator"][m] >= claim[c].op) :
              /\ Tell(end)
              /\ OperatorRedeems(end, m, claim[c].op)
              /\ claim' = [claim EXCEPT ![c] =
                              [@ EXCEPT !.pc = "paying",
                                        !.hash = claim[c].hash \/ Reported(end),
                                        !.amount = IF Reported(end) THEN Owed(m, TRUE) ELSE 0]]
        BY <1>3 DEF ClaimFromOperator
    <2>2. UNCHANGED settled
        BY <1>3 DEF ClaimFromOperator
    <2>3. Took(end) => tokens["operator"][m] >= claim[c].op
        <3>1. (tokens["operator"][m] >= claim[c].op) \in BOOLEAN
            OBVIOUS
        <3> QED BY <3>1, Ends
    <2>4. /\ tokens' \in [Places -> Amounts] /\ float' \in Nat
          /\ Took(end) => /\ tokens'["operator"][m] = tokens["operator"][m] - claim[c].op
                          /\ \A n \in Markets \ {m} : tokens'["operator"][n] = tokens["operator"][n]
          /\ ~Took(end) => tokens' = tokens
          /\ tokens'["user"] = tokens["user"] /\ tokens'["clone"] = tokens["clone"]
        BY <1>1, <2>1, <2>3, OperatorRedeemsType
    <2>5. untold' \in BOOLEAN
        BY <2>1, TellType DEF TypeOK
    <2> DEFINE hash   == claim[c].hash \/ Reported(end)
               amount == IF Reported(end) THEN Owed(m, TRUE) ELSE 0
               k      == [claim[c] EXCEPT !.pc = "paying", !.hash = hash, !.amount = amount]
    <2>6. hash \in BOOLEAN
        OBVIOUS
    <2>7. amount \in Nat
        BY OwedType
    <2>8. claim' = [claim EXCEPT ![c] = k]
        BY <2>1 DEF TypeOK
    <2> HIDE DEF hash, amount
    <2>9. /\ k \in ClaimCalls /\ k.pc = "paying" /\ k.at = claim[c].at /\ k.op = claim[c].op
          /\ k.clone = claim[c].clone /\ k.amount = amount
        BY <1>1, <2>6, <2>7 DEF ClaimCalls
    <2> HIDE DEF k
    <2>10. /\ claim' \in [Claimers -> ClaimCalls] /\ claim'[c] = k
           /\ \A d \in Claimers \ {c} : claim'[d] = claim[d]
        BY <2>8, <2>9, ClaimMoves
    <2>11. TypeOK'
        BY <1>2, <2>2, <2>4, <2>5, <2>10 DEF TypeOK
    <2>12. \A n \in Markets \ {m} : tokens'["operator"][n] = tokens["operator"][n]
        BY <2>4
    <2>13. /\ Took(end) => tokens'["operator"][m] = tokens["operator"][m] - claim[c].op
           /\ ~Took(end) => tokens'["operator"][m] = tokens["operator"][m]
        BY <2>4
    <2>14. amount =< Lots[m] /\ (~Reported(end) => amount = 0)
        <3>1. Owed(m, TRUE) =< Lots[m] /\ 0 =< Lots[m]
            BY OwedType
        <3> QED BY <3>1 DEF amount
    <2>15. claim'[c].amount =< Lots[m] /\ (~Reported(end) => claim'[c].amount = 0)
        BY <2>9, <2>10, <2>14
    <2> QED BY <1>2, <1>3, <2>4, <2>9, <2>10, <2>11, <2>12, <2>13, <2>15
<1>4. CASE ~(claim[c].op > 0 /\ claim[c].gas)
    <2>1. /\ claim' = [claim EXCEPT ![c] = [@ EXCEPT !.pc = "paying",
                                                     !.amount = Owed(m, claim[c].hash)]]
          /\ IF claim[c].hash THEN UNCHANGED settled ELSE Settle({m})
          /\ UNCHANGED <<tokens, float, untold>>
        BY <1>4 DEF ClaimFromOperator
    <2> DEFINE k == [claim[c] EXCEPT !.pc = "paying", !.amount = Owed(m, claim[c].hash)]
    <2>2. Owed(m, claim[c].hash) \in Nat
        BY <1>1, OwedType
    <2>3. /\ k \in ClaimCalls /\ k.pc = "paying" /\ k.at = claim[c].at /\ k.op = claim[c].op
          /\ k.clone = claim[c].clone /\ k.amount = Owed(m, claim[c].hash)
        BY <1>1, <2>2 DEF ClaimCalls
    <2>4. claim' = [claim EXCEPT ![c] = k]
        BY <2>1 DEF TypeOK
    <2> HIDE DEF k
    <2>5. /\ claim' \in [Claimers -> ClaimCalls] /\ claim'[c] = k
          /\ \A d \in Claimers \ {c} : claim'[d] = claim[d]
        BY <2>3, <2>4, ClaimMoves
    <2>6. settled' \in [Markets -> {"open", "recent", "old"}]
        BY <2>1, SettleType DEF TypeOK
    <2>7. TypeOK'
        BY <1>2, <2>1, <2>5, <2>6 DEF TypeOK
    <2>8. ~claim[c].hash => claim'[c].amount = 0
        <3>1. ~claim[c].hash => Owed(m, claim[c].hash) = 0
            BY <1>1, OwedType
        <3> QED BY <2>3, <2>5, <3>1
    <2> QED BY <1>2, <2>1, <2>3, <2>5, <2>7, <2>8
<1> QED BY <1>3, <1>4

LEMMA ClaimPaysTypes ==
    ASSUME TypeOK, NEW c \in Claimers, NEW m \in Markets, ClaimPays(c, m)
    PROVE  /\ TypeOK'
           /\ UNCHANGED <<tokens, swept, scan, sweep, float0>>
           /\ cache' \in {cache, Nothing}
           /\ claim[c].pc = "paying" /\ claim[c].at = {m}
           /\ claim'[c] = NoClaim
           /\ \A d \in Claimers \ {c} : claim'[d] = claim[d]
           /\ \A n \in Markets \ {m} : paid'[n] = paid[n] /\ listed'[n] = listed[n]
           /\ paid'[m] \in {paid[m], paid[m] + claim[c].amount}
           /\ listed'[m] = listed[m] + claim[c].amount
<1> DEFINE amount == claim[c].amount
<1>1. /\ claim[c] \in ClaimCalls /\ amount \in Nat /\ paid \in Amounts /\ listed \in Amounts
      /\ float \in Nat
    BY DEF TypeOK, ClaimCalls
<1>2. /\ claim[c].pc = "paying" /\ claim[c].at = {m}
      /\ claim' = [claim EXCEPT ![c] = NoClaim]
      /\ UNCHANGED <<tokens, swept, scan, sweep, float0, preserved>>
    BY DEF ClaimPays
<1>3. /\ claim' \in [Claimers -> ClaimCalls] /\ claim'[c] = NoClaim
      /\ \A d \in Claimers \ {c} : claim'[d] = claim[d]
    BY <1>2, ConstantTypes, ClaimMoves
<1>4. /\ cache' \in [pc : {"none", "fresh"}, found : Amounts] /\ quiet' \subseteq Markets
      /\ cache' \in {cache, Nothing}
    BY InvalidateType DEF ClaimPays, TypeOK
<1>5. CASE amount > 0
    <2>1. PICK end \in Sent(float >= amount) : Tell(end) /\ Transfer(end, Only(m, amount))
        BY <1>5 DEF ClaimPays
    <2>2. listed' = [listed EXCEPT ![m] = @ + amount] /\ Settle({m})
        BY <1>5 DEF ClaimPays
    <2> HIDE DEF amount
    <2>3. Took(end) => float >= amount
        <3>1. (float >= amount) \in BOOLEAN
            OBVIOUS
        <3> QED BY <3>1, Ends
    <2>4. /\ Only(m, amount) \in Amounts /\ Total(Only(m, amount)) = amount
          /\ Only(m, amount)[m] = amount /\ \A n \in Markets \ {m} : Only(m, amount)[n] = 0
        BY <1>1, OnlyType, TotalOnly
    <2>5. /\ float' \in Nat /\ paid' \in Amounts
          /\ Took(end) => \A n \in Markets : paid'[n] = paid[n] + Only(m, amount)[n]
          /\ ~Took(end) => paid' = paid
        BY <2>1, <2>3, <2>4, TransferType
    <2>6. /\ paid'[m] \in {paid[m], paid[m] + amount}
          /\ \A n \in Markets \ {m} : paid'[n] = paid[n]
        <3>1. CASE Took(end)
            <4>1. paid'[m] = paid[m] + amount
                BY <2>4, <2>5, <3>1
            <4>2. \A n \in Markets \ {m} : paid'[n] = paid[n]
                BY <1>1, <2>4, <2>5, <3>1 DEF Amounts
            <4> QED BY <4>1, <4>2
        <3>2. CASE ~Took(end)
            BY <2>5, <3>2
        <3> QED BY <3>1, <3>2
    <2>7. /\ listed' \in Amounts /\ listed'[m] = listed[m] + amount
          /\ \A n \in Markets \ {m} : listed'[n] = listed[n]
        BY <1>1, <2>2 DEF Amounts
    <2>8. untold' \in BOOLEAN /\ settled' \in [Markets -> {"open", "recent", "old"}]
        BY <2>1, <2>2, TellType, SettleType DEF TypeOK
    <2>9. TypeOK'
        BY <1>2, <1>3, <1>4, <2>5, <2>7, <2>8 DEF TypeOK
    <2> QED BY <1>2, <1>3, <1>4, <2>6, <2>7, <2>9 DEF amount
<1>6. CASE ~(amount > 0)
    <2>1. UNCHANGED <<float, paid, listed, settled, untold>>
        BY <1>6 DEF ClaimPays
    <2>2. TypeOK'
        BY <1>2, <1>3, <1>4, <2>1 DEF TypeOK
    <2>3. amount = 0 /\ listed[m] \in Nat
        BY <1>1, <1>6 DEF Amounts
    <2> QED BY <1>1, <1>2, <1>3, <1>4, <2>1, <2>2, <2>3
<1> QED BY <1>5, <1>6

-----------------------------------------------------------------------------
(* Type correctness, for any markets, lots, calls and faults.              *)
LEMMA StepTypes ==
    TypeOK /\ [Next]_sweepVars => TypeOK'
<1> SUFFICES ASSUME TypeOK, [Next]_sweepVars
             PROVE  TypeOK'
    OBVIOUS
<1>1. CASE Browse
    BY <1>1, BrowseTypes
<1>2. CASE IndexerAnswers
    BY <1>2, IndexerAnswersTypes
<1>3. CASE ScanEnds
    BY <1>3, ScanEndsTypes
<1>4. CASE CacheExpires \/ \E m \in Markets : OrdersAge(m) \/ QuietExpires(m)
    BY <1>4, TimersTypes
<1>5. ASSUME NEW r \in Sweepers, TriggerBatchSweep(r) PROVE TypeOK'
    BY <1>5, TriggerTypes
<1>6. ASSUME NEW r \in Sweepers, ObtainPositions(r) PROVE TypeOK'
    BY <1>6, ObtainTypes
<1>7. ASSUME NEW r \in Sweepers, ReadBalance(r) PROVE TypeOK'
    BY <1>7, ReadBalanceTypes
<1>8. ASSUME NEW r \in Sweepers, PayBatch(r) PROVE TypeOK'
    BY <1>8, PayBatchTypes
<1>9. ASSUME NEW r \in Sweepers, EndSweep(r) PROVE TypeOK'
    BY <1>9, EndSweepTypes
<1>10. ASSUME NEW r \in Sweepers, NEW m \in Markets, Examine(r, m) PROVE TypeOK'
    BY <1>10, ExamineTypes
<1>11. ASSUME NEW r \in Sweepers, NEW m \in Markets, PayOne(r, m) PROVE TypeOK'
    BY <1>11, PayOneTypes
<1>12. ASSUME NEW r \in Sweepers, NEW m \in Markets, RedeemFromClone(r, m) PROVE TypeOK'
    BY <1>12, RedeemFromCloneTypes
<1>13. ASSUME NEW r \in Sweepers, NEW m \in Markets, RedeemFromOperator(r, m) PROVE TypeOK'
    BY <1>13, RedeemFromOperatorTypes
<1>14. ASSUME NEW c \in Claimers, NEW m \in Markets, BeginClaim(c, m) PROVE TypeOK'
    BY <1>14, BeginClaimTypes
<1>15. ASSUME NEW c \in Claimers, NEW m \in Markets, ClaimFromClone(c, m) PROVE TypeOK'
    BY <1>15, ClaimFromCloneTypes
<1>16. ASSUME NEW c \in Claimers, NEW m \in Markets, ClaimFromOperator(c, m) PROVE TypeOK'
    BY <1>16, ClaimFromOperatorTypes
<1>17. ASSUME NEW c \in Claimers, NEW m \in Markets, ClaimPays(c, m) PROVE TypeOK'
    BY <1>17, ClaimPaysTypes
<1>18. CASE UNCHANGED sweepVars
    BY <1>18 DEF sweepVars, TypeOK
<1> QED BY <1>1, <1>2, <1>3, <1>4, <1>5, <1>6, <1>7, <1>8, <1>9, <1>10, <1>11, <1>12, <1>13,
           <1>14, <1>15, <1>16, <1>17, <1>18 DEF Next, SweepStep, ClaimStep

THEOREM SweepTypeCorrect == Spec => []TypeOK
BY InitTypes, StepTypes, PTL DEF Spec

-----------------------------------------------------------------------------
(* Unless a hash can come back for a transaction that takes no effect,     *)
(* whatever the totals say a trader received he has received: skipped,     *)
(* failed and late payments are never added, and every way of paying that  *)
(* adds to the totals pays at least as much ("Only mark settled when the   *)
(* individual payout succeeds", settlement-service.ts:1402).               *)
LEMMA PaidStep ==
    ASSUME "void" \notin Faults, TypeOK, ConfirmedIsPaid, [Next]_sweepVars
    PROVE  ConfirmedIsPaid'
<1> DEFINE Kept == swept' = swept /\ \A n \in Markets : paid'[n] >= paid[n]
<1>1. \A n \in Markets : swept[n] \in Nat /\ paid[n] \in Nat /\ swept[n] =< paid[n]
    BY DEF TypeOK, Amounts, ConfirmedIsPaid
<1>2. ASSUME Kept PROVE ConfirmedIsPaid'
    <2>1. swept' = swept /\ \A n \in Markets : paid'[n] \in Nat /\ paid'[n] >= paid[n]
        BY <1>2, StepTypes DEF TypeOK, Amounts
    <2> QED BY <1>1, <2>1 DEF ConfirmedIsPaid
<1>3. ASSUME UNCHANGED <<swept, paid>> PROVE ConfirmedIsPaid'
    BY <1>3 DEF ConfirmedIsPaid
<1>4. CASE Browse \/ IndexerAnswers \/ ScanEnds \/ UNCHANGED sweepVars
    BY <1>3, <1>4 DEF Browse, IndexerAnswers, ScanEnds, sweepVars
<1>5. CASE CacheExpires \/ \E m \in Markets : OrdersAge(m) \/ QuietExpires(m)
    BY <1>3, <1>5, TimersTypes
<1>6. ASSUME NEW r \in Sweepers,
             TriggerBatchSweep(r) \/ ObtainPositions(r) \/ ReadBalance(r) \/ EndSweep(r)
      PROVE  ConfirmedIsPaid'
    BY <1>3, <1>6 DEF TriggerBatchSweep, ObtainPositions, ReadBalance, EndSweep
<1>7. ASSUME NEW r \in Sweepers, NEW m \in Markets, Examine(r, m) \/ RedeemFromOperator(r, m)
      PROVE  ConfirmedIsPaid'
    BY <1>3, <1>7 DEF Examine, RedeemFromOperator
<1>8. ASSUME NEW r \in Sweepers, NEW m \in Markets, RedeemFromClone(r, m)
      PROVE  ConfirmedIsPaid'
    BY <1>8, RedeemFromCloneTypes
<1>9. ASSUME NEW amounts \in Amounts, NEW end, Reported(end) => Took(end),
             Took(end) => Grows(paid, paid', amounts), ~Took(end) => UNCHANGED paid,
             Reported(end) => Grows(swept, swept', amounts), ~Reported(end) => UNCHANGED swept
      PROVE  ConfirmedIsPaid'
    <2>1. ASSUME NEW n \in Markets PROVE swept'[n] =< paid'[n]
        <3>1. amounts[n] \in Nat
            BY <1>9 DEF Amounts
        <3>2. CASE Reported(end)
            BY <1>1, <1>9, <3>1, <3>2 DEF Grows
        <3>3. CASE Took(end) /\ ~Reported(end)
            BY <1>1, <1>9, <3>1, <3>3 DEF Grows
        <3>4. CASE ~Took(end)
            BY <1>1, <1>9, <3>4
        <3> QED BY <3>2, <3>3, <3>4
    <2> QED BY <2>1 DEF ConfirmedIsPaid
<1>10. ASSUME NEW r \in Sweepers, PayBatch(r)
       PROVE  ConfirmedIsPaid'
    <2>1. PICK end \in Sent(float >= Total(sweep[r].pay)) :
              /\ Took(end) => Grows(paid, paid', sweep[r].pay)
              /\ ~Took(end) => UNCHANGED paid
              /\ Reported(end) => Grows(swept, swept', sweep[r].pay)
              /\ ~Reported(end) => UNCHANGED swept
        BY <1>10, PayBatchTypes
    <2>2. Reported(end) => Took(end)
        <3>1. (float >= Total(sweep[r].pay)) \in BOOLEAN
            OBVIOUS
        <3> QED BY <3>1, Ends
    <2>3. sweep[r].pay \in Amounts
        BY DEF TypeOK, SweepCalls
    <2> QED BY <1>9, <2>1, <2>2, <2>3
<1>11. ASSUME NEW r \in Sweepers, NEW m \in Markets, PayOne(r, m)
       PROVE  ConfirmedIsPaid'
    <2> DEFINE ok == Covers(r, sweep[r].pay[m]) /\ float >= sweep[r].pay[m]
    <2>1. PICK end \in Sent(ok) :
              /\ Took(end) => Grows(paid, paid', Only(m, sweep[r].pay[m]))
              /\ ~Took(end) => UNCHANGED paid
              /\ Reported(end) => Grows(swept, swept', Only(m, sweep[r].pay[m]))
              /\ ~Reported(end) => UNCHANGED swept
        BY <1>11, PayOneTypes
    <2>2. Reported(end) => Took(end)
        <3>1. ok \in BOOLEAN
            OBVIOUS
        <3> HIDE DEF ok
        <3> QED BY <3>1, Ends
    <2>3. sweep[r].pay[m] \in Nat
        BY DEF TypeOK, SweepCalls, Amounts
    <2>4. Only(m, sweep[r].pay[m]) \in Amounts
        BY <2>3, OnlyType
    <2> QED BY <1>9, <2>1, <2>2, <2>4
<1>12. ASSUME NEW c \in Claimers, NEW m \in Markets, BeginClaim(c, m) \/ ClaimFromOperator(c, m)
       PROVE  ConfirmedIsPaid'
    <2>1. CASE BeginClaim(c, m)
        <3>1. UNCHANGED <<swept, paid>>
            BY ONLY <2>1 DEF BeginClaim
        <3> QED BY <1>3, <3>1
    <2>2. CASE ClaimFromOperator(c, m)
        <3>1. UNCHANGED <<swept, paid>>
            BY ONLY <2>2 DEF ClaimFromOperator
        <3> QED BY <1>3, <3>1
    <2> QED BY <1>12, <2>1, <2>2
<1>13. ASSUME NEW c \in Claimers, NEW m \in Markets, ClaimFromClone(c, m)
       PROVE  ConfirmedIsPaid'
    BY <1>2, <1>13, ClaimFromCloneTypes
<1>14. ASSUME NEW c \in Claimers, NEW m \in Markets, ClaimPays(c, m)
       PROVE  ConfirmedIsPaid'
    <2>1. claim[c].amount \in Nat /\ paid[m] \in Nat
        BY <1>1 DEF TypeOK, ClaimCalls
    <2>2. /\ swept' = swept /\ paid'[m] \in {paid[m], paid[m] + claim[c].amount}
          /\ \A n \in Markets \ {m} : paid'[n] = paid[n]
        BY <1>14, ClaimPaysTypes
    <2>3. ASSUME NEW n \in Markets PROVE paid'[n] >= paid[n]
        BY <1>1, <2>1, <2>2
    <2> QED BY <1>2, <2>2, <2>3
<1> HIDE DEF Kept
<1> QED BY <1>4, <1>5, <1>6, <1>7, <1>8, <1>10, <1>11, <1>12, <1>13, <1>14
        DEF Next, SweepStep, ClaimStep

THEOREM RecordedIsPaid ==
    ASSUME "void" \notin Faults
    PROVE  Spec => []ConfirmedIsPaid
<1>1. Init => TypeOK /\ ConfirmedIsPaid
    <2>1. Init => swept = Zeros /\ paid = Zeros
        BY DEF Init
    <2>2. \A m \in Markets : Zeros[m] = 0 /\ 0 =< 0
        BY ConstantTypes
    <2> QED BY <2>1, <2>2, InitTypes DEF ConfirmedIsPaid
<1>2. TypeOK /\ ConfirmedIsPaid /\ [Next]_sweepVars => TypeOK' /\ ConfirmedIsPaid'
    BY StepTypes, PaidStep
<1> QED BY <1>1, <1>2, PTL DEF Spec

-----------------------------------------------------------------------------
(* What a call has redeemed and not paid yet, by market and together.      *)
Redeemed(s) == [m \in Markets |-> IF s.pc = "split" /\ m \notin s.todo THEN 0 ELSE s.pay[m]]
OwedBy(s)   == Total(Redeemed(s))
OwedByAll   == Total([r \in Sweepers |-> OwedBy(sweep[r])])

(* Unless a transaction took effect that was reported as failed, the       *)
(* operator has what it started with and what the calls owe between them.  *)
(* This is why it never pays out of its pocket, and has to be known of all *)
(* calls together: they pay from one balance.                              *)
Pocket == ~untold => float >= float0 + OwedByAll

LEMMA OwedByType ==
    ASSUME NEW s \in SweepCalls
    PROVE  /\ Redeemed(s) \in [Markets -> Nat]
           /\ OwedBy(s) \in Nat
           /\ s.pc # "split" => OwedBy(s) = Total(s.pay)
<1>1. s.pay \in [Markets -> Nat]
    BY DEF SweepCalls, Amounts
<1>2. Redeemed(s) \in [Markets -> Nat]
    BY <1>1 DEF Redeemed
<1>3. OwedBy(s) \in Nat
    BY <1>2, TotalFinite DEF OwedBy
<1>4. ASSUME s.pc # "split"
      PROVE  OwedBy(s) = Total(s.pay)
    <2>1. Redeemed(s) = s.pay
        BY <1>1, <1>4 DEF Redeemed
    <2> QED BY <2>1 DEF OwedBy
<1> QED BY <1>2, <1>3, <1>4

(* No call owes more than before: neither does it together.                *)
LEMMA OwesNoMore ==
    ASSUME NEW s \in SweepCalls, NEW t \in SweepCalls,
           \A m \in Markets : Redeemed(t)[m] =< Redeemed(s)[m]
    PROVE  OwedBy(t) =< OwedBy(s)
<1>1. Redeemed(s) \in [Markets -> Nat] /\ Redeemed(t) \in [Markets -> Nat]
    BY OwedByType
<1>2. IsFiniteSet(Units(Redeemed(s)))
    BY <1>1, TotalFinite
<1>3. Markets \subseteq Markets
    OBVIOUS
<1> QED BY <1>1, <1>2, <1>3, TotalMonotone DEF OwedBy

(* A step of one call that changes the operator's balance by what it       *)
(* changes what the call owes.                                             *)
LEMMA PocketStep ==
    ASSUME TypeOK, TypeOK', Pocket, NEW r \in Sweepers,
           \A q \in Sweepers \ {r} : sweep'[q] = sweep[q],
           float0' = float0,
           ~untold' => ~untold /\ float' + OwedBy(sweep[r]) >= float + OwedBy(sweep'[r])
    PROVE  Pocket'
<1> DEFINE old == [q \in Sweepers |-> OwedBy(sweep[q])]
           new == [q \in Sweepers |-> OwedBy(sweep'[q])]
<1>1. /\ \A q \in Sweepers : OwedBy(sweep[q]) \in Nat /\ OwedBy(sweep'[q]) \in Nat
      /\ float \in Nat /\ float' \in Nat /\ float0 \in Nat
    BY OwedByType DEF TypeOK
<1>2. old \in [Sweepers -> Nat] /\ new \in [Sweepers -> Nat]
    BY <1>1
<1>3. \A q \in Sweepers \ {r} : new[q] =< old[q]
    BY <1>1
<1>4. new[r] = OwedBy(sweep'[r]) /\ old[r] = OwedBy(sweep[r])
    OBVIOUS
<1>5. OwedByAll = Total(old) /\ OwedByAll' = Total(new)
    BY DEF OwedByAll
<1> HIDE DEF old, new
<1>6. Total(new) \in Nat /\ Total(old) \in Nat
    BY <1>2, TotalFinite
<1>7. Total(new) + old[r] =< Total(old) + new[r]
    BY <1>2, <1>3, TotalChange
<1>8. ASSUME ~untold'
      PROVE  float' >= float0' + OwedByAll'
    <2>1. float >= float0 + Total(old)
        BY <1>5, <1>8 DEF Pocket
    <2>2. float' + old[r] >= float + new[r]
        BY <1>4, <1>8
    <2>3. old[r] \in Nat /\ new[r] \in Nat
        BY <1>2
    <2>4. float' >= float0 + Total(new)
        BY ONLY <1>1, <1>6, <1>7, <2>1, <2>2, <2>3
    <2> QED BY <1>5, <2>4
<1> QED BY <1>8 DEF Pocket

(* The steps that leave the balance alone and the call owing no more.      *)
LEMMA PocketAlone ==
    ASSUME TypeOK, TypeOK', Pocket, NEW r \in Sweepers,
           \A q \in Sweepers \ {r} : sweep'[q] = sweep[q],
           float0' = float0, float' = float, untold => untold',
           OwedBy(sweep'[r]) =< OwedBy(sweep[r])
    PROVE  Pocket'
<1>1. /\ OwedBy(sweep[r]) \in Nat /\ OwedBy(sweep'[r]) \in Nat /\ float \in Nat
    BY OwedByType DEF TypeOK
<1>2. float' + OwedBy(sweep[r]) >= float + OwedBy(sweep'[r])
    BY <1>1
<1> QED BY <1>2, PocketStep

(* As long as a call does not divide its payment, it owes what it has.     *)
LEMMA PayStays ==
    ASSUME NEW s \in SweepCalls, NEW t \in SweepCalls,
           t.pay = s.pay, s.pc # "split", t.pc # "split"
    PROVE  OwedBy(t) =< OwedBy(s)
<1>1. OwedBy(t) = Total(t.pay) /\ OwedBy(s) = Total(s.pay) /\ OwedBy(s) \in Nat
    BY OwedByType
<1> QED BY <1>1

LEMMA PocketUnchanged ==
    ASSUME Pocket, UNCHANGED <<sweep, float, float0, untold>>
    PROVE  Pocket'
BY DEF Pocket, OwedByAll

LEMMA ScanKeepsPocket ==
    ASSUME TypeOK, Pocket, ScanEnds
    PROVE  Pocket'
<1>1. PICK found \in Amounts :
          sweep' = [r \in Sweepers |-> IF sweep[r].pc = "scanning"
                                       THEN Working(sweep[r], found) ELSE sweep[r]]
    BY ScanEndsTypes
<1>2. ASSUME NEW r \in Sweepers
      PROVE  OwedBy(sweep'[r]) = OwedBy(sweep[r])
    <2>1. sweep[r] \in SweepCalls
        BY DEF TypeOK
    <2>2. CASE sweep[r].pc = "scanning"
        <3>1. /\ Working(sweep[r], found) \in SweepCalls
              /\ Working(sweep[r], found).pc = "working"
              /\ Working(sweep[r], found).pay = sweep[r].pay
            BY <2>1, WorkingType
        <3>2. OwedBy(Working(sweep[r], found)) = OwedBy(sweep[r])
            BY <2>1, <2>2, <3>1, OwedByType
        <3> QED BY <1>1, <2>2, <3>2
    <2>3. CASE sweep[r].pc # "scanning"
        BY <1>1, <2>3
    <2> QED BY <2>2, <2>3
<1>3. OwedByAll' = OwedByAll
    BY <1>2 DEF OwedByAll
<1>4. UNCHANGED <<float, float0, untold>>
    BY DEF ScanEnds
<1> QED BY <1>3, <1>4 DEF Pocket

(* Redeeming with the operator gives the operator what the call then owes. *)
LEMMA RedeemingPays ==
    ASSUME "void" \notin Faults, TypeOK, Pocket, NEW r \in Sweepers, NEW m \in Markets,
           RedeemFromOperator(r, m)
    PROVE  Pocket'
<1>1. PICK end \in Sent(tokens["operator"][m] >= sweep[r].amount) :
          /\ Tell(end)
          /\ Took(end) => float' = float + sweep[r].amount
          /\ ~Took(end) => float' = float
          /\ Reported(end) => sweep'[r].pay = [sweep[r].pay EXCEPT ![m] = sweep[r].amount]
          /\ ~Reported(end) => sweep'[r].pay = sweep[r].pay
    BY RedeemFromOperatorTypes
<1>2. /\ TypeOK' /\ sweep[r].pc = "opRedeem" /\ sweep'[r].pc = "working" /\ float0' = float0
      /\ \A q \in Sweepers \ {r} : sweep'[q] = sweep[q]
    BY RedeemFromOperatorTypes
<1>3. /\ sweep[r] \in SweepCalls /\ sweep'[r] \in SweepCalls
      /\ sweep[r].pay \in [Markets -> Nat] /\ sweep[r].amount \in Nat /\ float \in Nat
    BY <1>2 DEF TypeOK, SweepCalls, Amounts
<1>4. /\ "void" \notin Faults /\ Reported(end) => Took(end)
      /\ Took(end) /\ ~Reported(end) => end = "late"
    <2>1. (tokens["operator"][m] >= sweep[r].amount) \in BOOLEAN
        OBVIOUS
    <2> QED BY <2>1, Ends
<1>5. CASE Took(end) /\ ~Reported(end)
    <2>1. untold'
        BY <1>1, <1>4, <1>5 DEF Tell
    <2> QED BY <2>1 DEF Pocket
<1>6. CASE ~Took(end) /\ ~Reported(end)
    <2>1. OwedBy(sweep'[r]) =< OwedBy(sweep[r])
        BY <1>1, <1>2, <1>3, <1>6, PayStays
    <2>2. untold => untold'
        BY <1>1, TellType DEF TypeOK
    <2> QED BY <1>1, <1>2, <1>6, <2>1, <2>2, PocketAlone
<1>7. CASE Reported(end)
    <2>1. OwedBy(sweep'[r]) = Total(sweep'[r].pay) /\ OwedBy(sweep[r]) = Total(sweep[r].pay)
        BY <1>2, <1>3, OwedByType
    <2> DEFINE old == sweep[r].pay
               new == [sweep[r].pay EXCEPT ![m] = sweep[r].amount]
    <2>2. /\ new \in [Markets -> Nat] /\ old \in [Markets -> Nat] /\ new[m] = sweep[r].amount
          /\ old[m] \in Nat /\ \A n \in Markets \ {m} : new[n] =< old[n]
        BY <1>3
    <2>3. sweep'[r].pay = new
        BY <1>1, <1>7
    <2> HIDE DEF new
    <2>4. IsFiniteSet(Markets)
        OBVIOUS
    <2>5. Total(new) + old[m] =< Total(old) + new[m]
        BY <2>2, <2>4, TotalChange
    <2>6. Total(new) \in Nat /\ Total(old) \in Nat
        BY <2>2, <2>4, TotalFinite
    <2>7. float' = float + sweep[r].amount
        BY <1>1, <1>4, <1>7
    <2>8. float' + Total(old) >= float + Total(new)
        BY ONLY <1>3, <2>2, <2>5, <2>6, <2>7
    <2>9. untold => untold'
        BY <1>1, TellType DEF TypeOK
    <2> QED BY <1>2, <2>1, <2>3, <2>8, <2>9, PocketStep
<1> QED BY <1>5, <1>6, <1>7

LEMMA BatchPays ==
    ASSUME "void" \notin Faults, TypeOK, Pocket, NEW r \in Sweepers, PayBatch(r)
    PROVE  Pocket'
<1>1. PICK end \in Sent(float >= Total(sweep[r].pay)) :
          /\ Tell(end)
          /\ Took(end) => float' = float - Total(sweep[r].pay)
          /\ ~Took(end) => float' = float
          /\ Reported(end) => sweep'[r] = Asleep
          /\ ~Reported(end) => sweep'[r] = [sweep[r] EXCEPT !.pc = "split"]
    BY PayBatchTypes
<1>2. /\ TypeOK' /\ sweep[r].pc = "batch" /\ float0' = float0
      /\ \A q \in Sweepers \ {r} : sweep'[q] = sweep[q]
    BY PayBatchTypes
<1>3. /\ sweep[r] \in SweepCalls /\ sweep'[r] \in SweepCalls /\ float \in Nat
      /\ OwedBy(sweep[r]) = Total(sweep[r].pay) /\ OwedBy(sweep[r]) \in Nat
    BY <1>2, OwedByType DEF TypeOK
<1>4. /\ Reported(end) => Took(end)
      /\ Took(end) /\ ~Reported(end) => end = "late"
    <2>1. (float >= Total(sweep[r].pay)) \in BOOLEAN
        OBVIOUS
    <2> QED BY <2>1, Ends
<1>5. untold => untold'
    BY <1>1, TellType DEF TypeOK
<1>6. CASE Took(end) /\ ~Reported(end)
    <2>1. untold'
        BY <1>1, <1>4, <1>6 DEF Tell
    <2> QED BY <2>1 DEF Pocket
<1>7. CASE ~Took(end) /\ ~Reported(end)
    <2>1. sweep'[r] = [sweep[r] EXCEPT !.pc = "split"]
        BY <1>1, <1>7
    <2>2. sweep[r].pay \in [Markets -> Nat] /\ sweep'[r].pay = sweep[r].pay
        BY <1>3, <2>1 DEF SweepCalls, Amounts
    <2>3. \A m \in Markets : Redeemed(sweep'[r])[m] =< Redeemed(sweep[r])[m]
        BY <1>2, <2>2 DEF Redeemed
    <2>4. OwedBy(sweep'[r]) =< OwedBy(sweep[r])
        BY <1>3, <2>3, OwesNoMore
    <2> QED BY <1>1, <1>2, <1>5, <1>7, <2>4, PocketAlone
<1>8. CASE Reported(end)
    <2>1. sweep'[r] = Asleep
        BY <1>1, <1>8
    <2>2. OwedBy(Asleep) = Total(Zeros)
        BY ConstantTypes, OwedByType
    <2>3. Total(Zeros) = 0
        <3>1. Units(Zeros) = {}
            BY DEF Units, Zeros
        <3> QED BY <3>1, FS_EmptySet DEF Total
    <2>4. float' = float - Total(sweep[r].pay)
        BY <1>1, <1>4, <1>8
    <2>5. float' + OwedBy(sweep[r]) >= float + OwedBy(sweep'[r])
        BY <1>3, <2>1, <2>2, <2>3, <2>4
    <2> QED BY <1>2, <1>5, <2>5, PocketStep
<1> QED BY <1>6, <1>7, <1>8

LEMMA OnePays ==
    ASSUME TypeOK, Pocket, NEW r \in Sweepers, NEW m \in Markets, PayOne(r, m)
    PROVE  Pocket'
<1> DEFINE ok == Covers(r, sweep[r].pay[m]) /\ float >= sweep[r].pay[m]
<1>1. PICK end \in Sent(ok) :
          /\ Tell(end)
          /\ Took(end) => float' = float - sweep[r].pay[m]
          /\ ~Took(end) => float' = float
    BY PayOneTypes
<1> HIDE DEF ok
<1>2. /\ TypeOK' /\ float0' = float0
      /\ sweep[r].pc = "split" /\ m \in sweep[r].todo
      /\ sweep'[r].pc = "split" /\ sweep'[r].todo = sweep[r].todo \ {m}
      /\ sweep'[r].pay = sweep[r].pay
      /\ \A q \in Sweepers \ {r} : sweep'[q] = sweep[q]
    BY PayOneTypes
<1>3. /\ sweep[r] \in SweepCalls /\ sweep'[r] \in SweepCalls /\ float \in Nat
      /\ sweep[r].pay \in [Markets -> Nat] /\ sweep[r].pay[m] \in Nat
    BY <1>2 DEF TypeOK, SweepCalls, Amounts
<1> DEFINE old == Redeemed(sweep[r])
           new == Redeemed(sweep'[r])
<1>4. old \in [Markets -> Nat] /\ new \in [Markets -> Nat]
    BY <1>3, OwedByType
<1>5. old[m] = sweep[r].pay[m] /\ new[m] = 0
    BY <1>2 DEF Redeemed
<1>6. \A n \in Markets \ {m} : new[n] =< old[n]
    BY <1>2, <1>3 DEF Redeemed
<1>7. OwedBy(sweep[r]) = Total(old) /\ OwedBy(sweep'[r]) = Total(new)
    BY DEF OwedBy
<1> HIDE DEF old, new
<1>8. IsFiniteSet(Markets)
    OBVIOUS
<1>9. /\ Total(new) + old[m] =< Total(old) + new[m]
      /\ Total(new) \in Nat /\ Total(old) \in Nat
    BY <1>4, <1>6, <1>8, TotalChange, TotalFinite
<1>10. float' >= float - sweep[r].pay[m]
    BY <1>1, <1>3
<1>11. float' \in Nat
    BY <1>2 DEF TypeOK
<1>12. float' + Total(old) >= float + Total(new)
    BY ONLY <1>3, <1>5, <1>9, <1>10, <1>11
<1>13. untold => untold'
    BY <1>1, TellType DEF TypeOK
<1> QED BY <1>2, <1>7, <1>12, <1>13, PocketStep

LEMMA PocketKept ==
    ASSUME Claimers = {}, "void" \notin Faults, TypeOK, Pocket, [Next]_sweepVars
    PROVE  Pocket'
<1> USE StepTypes
<1>1. CASE Browse \/ IndexerAnswers \/ UNCHANGED sweepVars
    BY <1>1, PocketUnchanged DEF Browse, IndexerAnswers, sweepVars
<1>2. CASE ScanEnds
    BY <1>2, ScanKeepsPocket
<1>3. CASE CacheExpires \/ \E m \in Markets : OrdersAge(m) \/ QuietExpires(m)
    BY <1>3, TimersTypes, PocketUnchanged
<1>4. ASSUME NEW r \in Sweepers, NEW s \in SweepCalls, sweep' = [sweep EXCEPT ![r] = s],
             s.pay = sweep[r].pay, s.pc # "split", sweep[r].pc # "split",
             UNCHANGED <<float, float0, untold>>
      PROVE  Pocket'
    <2>1. sweep[r] \in SweepCalls /\ sweep'[r] = s /\ \A q \in Sweepers \ {r} : sweep'[q] = sweep[q]
        BY <1>4 DEF TypeOK
    <2>2. OwedBy(sweep'[r]) =< OwedBy(sweep[r])
        BY <1>4, <2>1, PayStays
    <2>3. TypeOK'
        OBVIOUS
    <2> QED BY <1>4, <2>1, <2>2, <2>3, PocketAlone
<1>5. ASSUME NEW r \in Sweepers, TriggerBatchSweep(r)
      PROVE  Pocket'
    <2>1. PICK s \in SweepCalls : /\ sweep' = [sweep EXCEPT ![r] = s]
                                  /\ s = [sweep[r] EXCEPT !.pc = "loading"]
        BY <1>5, TriggerTypes
    <2>2. s.pay = sweep[r].pay /\ s.pc # "split"
        BY <2>1 DEF TypeOK, SweepCalls
    <2>3. sweep[r].pc # "split" /\ UNCHANGED <<float, float0, untold>>
        BY <1>5 DEF TriggerBatchSweep
    <2> QED BY <1>4, <2>1, <2>2, <2>3
<1>6. ASSUME NEW r \in Sweepers, ObtainPositions(r)
      PROVE  Pocket'
    <2>1. PICK s \in SweepCalls : /\ sweep' = [sweep EXCEPT ![r] = s]
                                  /\ s.pay = sweep[r].pay /\ s.pc # "split"
        BY <1>6, ObtainTypes
    <2>2. sweep[r].pc # "split" /\ UNCHANGED <<float, float0, untold>>
        BY <1>6 DEF ObtainPositions
    <2> QED BY <1>4, <2>1, <2>2
<1>7. ASSUME NEW r \in Sweepers, TypeOK', sweep'[r].pay = sweep[r].pay,
             \A q \in Sweepers \ {r} : sweep'[q] = sweep[q],
             sweep'[r].pc # "split", sweep[r].pc # "split",
             float' = float, float0' = float0, untold => untold'
      PROVE  Pocket'
    <2>1. sweep[r] \in SweepCalls /\ sweep'[r] \in SweepCalls
        BY <1>7 DEF TypeOK
    <2>2. OwedBy(sweep'[r]) =< OwedBy(sweep[r])
        BY <1>7, <2>1, PayStays
    <2> QED BY <1>7, <2>2, PocketAlone
<1>8. ASSUME NEW r \in Sweepers, NEW m \in Markets, Examine(r, m)
      PROVE  Pocket'
    <2>1. UNCHANGED <<float, float0, untold>>
        BY <1>8 DEF Examine
    <2>2. /\ TypeOK' /\ sweep[r].pc # "split" /\ sweep'[r].pc # "split"
          /\ sweep'[r].pay = sweep[r].pay /\ \A q \in Sweepers \ {r} : sweep'[q] = sweep[q]
        BY <1>8, ExamineTypes
    <2> QED BY <1>7, <2>1, <2>2
<1>9. ASSUME NEW r \in Sweepers, NEW m \in Markets, RedeemFromClone(r, m)
      PROVE  Pocket'
    <2>1. float0' = float0 /\ sweep[r].pc # "split"
        BY <1>9 DEF RedeemFromClone
    <2>2. /\ TypeOK' /\ sweep'[r].pc # "split" /\ float' = float /\ (untold => untold')
          /\ sweep'[r].pay = sweep[r].pay /\ \A q \in Sweepers \ {r} : sweep'[q] = sweep[q]
        BY <1>9, RedeemFromCloneTypes DEF GoesOn
    <2> QED BY <1>7, <2>1, <2>2
<1>10. ASSUME NEW r \in Sweepers, NEW m \in Markets, RedeemFromOperator(r, m)
       PROVE  Pocket'
    BY <1>10, RedeemingPays
<1>11. ASSUME NEW r \in Sweepers, ReadBalance(r)
       PROVE  Pocket'
    <2>1. UNCHANGED <<float, float0, untold>>
        BY <1>11 DEF ReadBalance
    <2>2. /\ TypeOK' /\ sweep[r].pc = "working"
          /\ sweep'[r].pay = sweep[r].pay
          /\ sweep'[r].todo = {m \in Markets : sweep[r].pay[m] > 0}
          /\ \A q \in Sweepers \ {r} : sweep'[q] = sweep[q]
        BY <1>11, ReadBalanceTypes
    <2>3. /\ sweep[r] \in SweepCalls /\ sweep'[r] \in SweepCalls
          /\ sweep[r].pay \in [Markets -> Nat]
        BY <2>2 DEF TypeOK, SweepCalls, Amounts
    <2>4. \A m \in Markets : Redeemed(sweep'[r])[m] =< Redeemed(sweep[r])[m]
        BY <2>2, <2>3 DEF Redeemed
    <2>5. OwedBy(sweep'[r]) =< OwedBy(sweep[r])
        BY <2>3, <2>4, OwesNoMore
    <2> QED BY <2>1, <2>2, <2>5, PocketAlone
<1>12. ASSUME NEW r \in Sweepers, PayBatch(r)
       PROVE  Pocket'
    BY <1>12, BatchPays
<1>13. ASSUME NEW r \in Sweepers, NEW m \in Markets, PayOne(r, m)
       PROVE  Pocket'
    BY <1>13, OnePays
<1>14. ASSUME NEW r \in Sweepers, EndSweep(r)
       PROVE  Pocket'
    <2>1. /\ TypeOK' /\ sweep[r].pc = "split" /\ sweep[r].todo = {} /\ sweep'[r] = Asleep
          /\ \A q \in Sweepers \ {r} : sweep'[q] = sweep[q]
          /\ UNCHANGED <<float, float0, untold>>
        BY <1>14, EndSweepTypes
    <2>2. \A m \in Markets : Redeemed(sweep'[r])[m] =< Redeemed(sweep[r])[m]
        <3>1. \A m \in Markets : Redeemed(sweep'[r])[m] = 0 /\ Redeemed(sweep[r])[m] = 0
            BY <2>1, ConstantTypes DEF Redeemed
        <3> QED BY <3>1
    <2>3. sweep[r] \in SweepCalls /\ sweep'[r] \in SweepCalls
        BY <2>1 DEF TypeOK
    <2>4. OwedBy(sweep'[r]) =< OwedBy(sweep[r])
        BY <2>2, <2>3, OwesNoMore
    <2> QED BY <2>1, <2>4, PocketAlone
<1> QED BY <1>1, <1>2, <1>3, <1>5, <1>6, <1>8, <1>9, <1>10, <1>11, <1>12, <1>13, <1>14
        DEF Next, SweepStep

LEMMA PocketInit ==
    ASSUME Init
    PROVE  Pocket
<1>1. \A r \in Sweepers : sweep[r] = Asleep
    BY DEF Init
<1>2. \A r \in Sweepers : OwedBy(sweep[r]) = 0
    <2>1. OwedBy(Asleep) = Total(Zeros)
        BY ConstantTypes, OwedByType
    <2>2. Units(Zeros) = {}
        BY DEF Units, Zeros
    <2>3. Total(Zeros) = 0
        BY <2>2, FS_EmptySet DEF Total
    <2> QED BY <1>1, <2>1, <2>3
<1>3. OwedByAll = 0
    <2> DEFINE owed == [r \in Sweepers |-> OwedBy(sweep[r])]
    <2>1. Units(owed) = {}
        BY <1>2 DEF Units
    <2> QED BY <2>1, FS_EmptySet DEF Total, OwedByAll
<1>4. float = float0 /\ float \in Nat
    BY DEF Init
<1> QED BY <1>3, <1>4 DEF Pocket

(* Among sweeps alone, however many run at a time, and unless a hash can   *)
(* come back for a transaction without effect: "The operator must NEVER    *)
(* pay winning payouts out-of-pocket." (settlement-service.ts:1170).       *)
THEOREM PaidFromWinnings ==
    ASSUME Claimers = {}, "void" \notin Faults
    PROVE  Spec => []NeverOutOfPocket
<1>1. Init => TypeOK /\ Pocket
    BY InitTypes, PocketInit
<1>2. TypeOK /\ Pocket /\ [Next]_sweepVars => TypeOK' /\ Pocket'
    BY StepTypes, PocketKept
<1>3. TypeOK /\ Pocket => NeverOutOfPocket
    <2>1. ASSUME TypeOK PROVE OwedByAll \in Nat /\ float \in Nat /\ float0 \in Nat
        <3>1. [r \in Sweepers |-> OwedBy(sweep[r])] \in [Sweepers -> Nat]
            BY <2>1, OwedByType DEF TypeOK
        <3>2. IsFiniteSet(Sweepers)
            OBVIOUS
        <3>3. OwedByAll \in Nat
            BY <3>1, <3>2, TotalFinite DEF OwedByAll
        <3> QED BY <2>1, <3>3 DEF TypeOK
    <2> QED BY <2>1 DEF Pocket, NeverOutOfPocket
<1> QED BY <1>1, <1>2, <1>3, PTL DEF Spec

-----------------------------------------------------------------------------
(* Nobody is paid twice, if the operator holds nobody else's tokens, the   *)
(* clone holds none, and transactions end as they are reported.            *)
OneTrader == Others = 0 /\ Faults = {} /\ Holders \subseteq {"user", "operator"}

(* The calls, and what each of them is still to pay in a market.           *)
Parties == ({"sweep"} \X Sweepers) \cup ({"claim"} \X Claimers)
Claimed(k, m) == IF k.pc = "paying" /\ m \in k.at THEN k.amount ELSE 0
Debt(p, m) == IF p[1] = "sweep" THEN Redeemed(sweep[p[2]])[m] ELSE Claimed(claim[p[2]], m)

Gone(m) == tokens["operator"][m] = 0

(* A market's winnings are all with the operator, or they are with the     *)
(* trader, or promised to him by one call, or paid: never two of these.    *)
(* A sweep is recorded only when the operator has nothing left.            *)
Winnings(m) ==
    /\ tokens["clone"][m] = 0
    /\ tokens["operator"][m] \in {0, Lots[m]}
    /\ paid[m] + tokens["user"][m] + tokens["operator"][m] =< Lots[m]
    /\ swept[m] > 0 \/ listed[m] > 0 => Gone(m)
    /\ \A p \in Parties :
          Debt(p, m) > 0 => /\ Gone(m) /\ tokens["user"][m] = 0 /\ paid[m] = 0
                            /\ Debt(p, m) =< Lots[m]
                            /\ \A q \in Parties \ {p} : Debt(q, m) = 0

(* While the operator holds a market's winnings, nobody has found only     *)
(* some of them.                                                           *)
Whole(m, a) == a = 0 \/ a >= Lots[m] \/ Gone(m)

FoundWhole(m) ==
    /\ Whole(m, scan.found[m]) /\ Whole(m, cache.found[m])
    /\ \A r \in Sweepers : Whole(m, sweep[r].found[m])

(* What a sweep has in hand: positions it found, and all of a market.      *)
InHand(r) ==
    /\ sweep[r].pc # "cloneRedeem"
    /\ sweep[r].pc \in {"working", "opRedeem"} => \A m \in sweep[r].todo : sweep[r].found[m] > 0
    /\ sweep[r].pc = "opRedeem" => \A m \in sweep[r].at :
          sweep[r].amount > 0 /\ (Gone(m) \/ sweep[r].amount = Lots[m])

(* What a claim has read.                                                  *)
Noted(c) ==
    /\ \A m \in claim[c].at : claim[c].clone = 0 /\ claim[c].op \in {0, Lots[m]}
    /\ claim[c].pc = "operator" => claim[c].hash = FALSE

WinningsInv ==
    /\ TypeOK
    /\ \A m \in Markets : Winnings(m) /\ FoundWhole(m)
    /\ \A r \in Sweepers : InHand(r)
    /\ \A c \in Claimers : Noted(c)

LEMMA DebtType ==
    ASSUME TypeOK, NEW m \in Markets
    PROVE  /\ \A r \in Sweepers : /\ <<"sweep", r>> \in Parties
                                  /\ Debt(<<"sweep", r>>, m) = Redeemed(sweep[r])[m]
                                  /\ Redeemed(sweep[r])[m] \in Nat
           /\ \A c \in Claimers : /\ <<"claim", c>> \in Parties
                                  /\ Debt(<<"claim", c>>, m) = Claimed(claim[c], m)
                                  /\ Claimed(claim[c], m) \in Nat
           /\ \A p \in Parties : /\ Debt(p, m) \in Nat
                                 /\ \/ \E r \in Sweepers : p = <<"sweep", r>>
                                    \/ \E c \in Claimers : p = <<"claim", c>>
<1>1. ASSUME NEW r \in Sweepers
      PROVE  /\ <<"sweep", r>> \in Parties
             /\ Debt(<<"sweep", r>>, m) = Redeemed(sweep[r])[m]
             /\ Redeemed(sweep[r])[m] \in Nat
    <2>1. Redeemed(sweep[r])[m] \in Nat
        BY OwedByType DEF TypeOK
    <2> QED BY <2>1 DEF Parties, Debt
<1>2. ASSUME NEW c \in Claimers
      PROVE  /\ <<"claim", c>> \in Parties
             /\ Debt(<<"claim", c>>, m) = Claimed(claim[c], m)
             /\ Claimed(claim[c], m) \in Nat
    <2>1. Claimed(claim[c], m) \in Nat
        BY DEF TypeOK, ClaimCalls, Claimed
    <2> QED BY <2>1 DEF Parties, Debt
<1>3. \A p \in Parties : \/ \E r \in Sweepers : p = <<"sweep", r>>
                         \/ \E c \in Claimers : p = <<"claim", c>>
    BY DEF Parties
<1> QED BY <1>1, <1>2, <1>3

LEMMA DebtTypeNext ==
    ASSUME TypeOK', NEW m \in Markets
    PROVE  /\ \A r \in Sweepers : Debt(<<"sweep", r>>, m)' = Redeemed(sweep'[r])[m]
           /\ \A c \in Claimers : Debt(<<"claim", c>>, m)' = Claimed(claim'[c], m)
           /\ \A p \in Parties : Debt(p, m)' \in Nat
<1>1. \A r \in Sweepers : Redeemed(sweep'[r])[m] \in Nat
    BY OwedByType DEF TypeOK
<1>2. \A c \in Claimers : Claimed(claim'[c], m) \in Nat
    BY DEF TypeOK, ClaimCalls, Claimed
<1>3. /\ \A r \in Sweepers : Debt(<<"sweep", r>>, m)' = Redeemed(sweep'[r])[m]
      /\ \A c \in Claimers : Debt(<<"claim", c>>, m)' = Claimed(claim'[c], m)
    BY DEF Debt
<1>4. \A p \in Parties : \/ \E r \in Sweepers : p = <<"sweep", r>>
                         \/ \E c \in Claimers : p = <<"claim", c>>
    BY DEF Parties
<1> QED BY <1>1, <1>2, <1>3, <1>4

(* No debt in a market but one party's changes, or grows.                  *)
LEMMA OtherDebts ==
    ASSUME TypeOK, TypeOK', NEW m \in Markets
    PROVE  /\ /\ \A r \in Sweepers : Redeemed(sweep'[r])[m] =< Redeemed(sweep[r])[m]
              /\ \A c \in Claimers : Claimed(claim'[c], m) =< Claimed(claim[c], m)
              => \A p \in Parties : Debt(p, m)' =< Debt(p, m)
           /\ \A r \in Sweepers :
                 (\A q \in Sweepers \ {r} : sweep'[q] = sweep[q]) /\ claim' = claim
                 => \A p \in Parties \ {<<"sweep", r>>} : Debt(p, m)' =< Debt(p, m)
           /\ \A c \in Claimers :
                 (\A d \in Claimers \ {c} : claim'[d] = claim[d]) /\ sweep' = sweep
                 => \A p \in Parties \ {<<"claim", c>>} : Debt(p, m)' =< Debt(p, m)
<1>1. /\ \A r \in Sweepers : /\ Debt(<<"sweep", r>>, m) = Redeemed(sweep[r])[m]
                             /\ Debt(<<"sweep", r>>, m)' = Redeemed(sweep'[r])[m]
                             /\ Redeemed(sweep[r])[m] \in Nat
      /\ \A c \in Claimers : /\ Debt(<<"claim", c>>, m) = Claimed(claim[c], m)
                             /\ Debt(<<"claim", c>>, m)' = Claimed(claim'[c], m)
                             /\ Claimed(claim[c], m) \in Nat
    BY DebtType DEF Debt
<1>2. \A p \in Parties : \/ \E r \in Sweepers : p = <<"sweep", r>>
                         \/ \E c \in Claimers : p = <<"claim", c>>
    BY DebtType
<1>3. ASSUME \A r \in Sweepers : Redeemed(sweep'[r])[m] =< Redeemed(sweep[r])[m],
             \A c \in Claimers : Claimed(claim'[c], m) =< Claimed(claim[c], m),
             NEW p \in Parties
      PROVE  Debt(p, m)' =< Debt(p, m)
    <2>1. CASE \E r \in Sweepers : p = <<"sweep", r>>
        BY <1>1, <1>3, <2>1
    <2>2. CASE \E c \in Claimers : p = <<"claim", c>>
        BY <1>1, <1>3, <2>2
    <2> QED BY <1>2, <2>1, <2>2
<1>4. ASSUME NEW r \in Sweepers, \A q \in Sweepers \ {r} : sweep'[q] = sweep[q],
             claim' = claim, NEW p \in Parties \ {<<"sweep", r>>}
      PROVE  Debt(p, m)' =< Debt(p, m)
    <2>1. ASSUME NEW q \in Sweepers, p = <<"sweep", q>>
          PROVE  Debt(p, m)' =< Debt(p, m)
        <3>1. q # r
            BY <1>4, <2>1
        <3>2. Redeemed(sweep'[q])[m] = Redeemed(sweep[q])[m]
            BY <1>4, <3>1
        <3> QED BY <1>1, <2>1, <3>2
    <2>2. ASSUME NEW c \in Claimers, p = <<"claim", c>>
          PROVE  Debt(p, m)' =< Debt(p, m)
        BY <1>1, <1>4, <2>2
    <2> QED BY <1>2, <2>1, <2>2
<1>5. ASSUME NEW c \in Claimers, \A d \in Claimers \ {c} : claim'[d] = claim[d],
             sweep' = sweep, NEW p \in Parties \ {<<"claim", c>>}
      PROVE  Debt(p, m)' =< Debt(p, m)
    <2>1. ASSUME NEW d \in Claimers, p = <<"claim", d>>
          PROVE  Debt(p, m)' =< Debt(p, m)
        <3>1. d # c
            BY <1>5, <2>1
        <3>2. Claimed(claim'[d], m) = Claimed(claim[d], m)
            BY <1>5, <3>1
        <3> QED BY <1>1, <2>1, <3>2
    <2>2. ASSUME NEW r \in Sweepers, p = <<"sweep", r>>
          PROVE  Debt(p, m)' =< Debt(p, m)
        BY <1>1, <1>5, <2>2
    <2> QED BY <1>2, <2>1, <2>2
<1> QED BY <1>3, <1>4, <1>5

LEMMA MarketTypes ==
    ASSUME TypeOK, NEW m \in Markets
    PROVE  /\ tokens["user"][m] \in Nat /\ tokens["clone"][m] \in Nat
           /\ tokens["operator"][m] \in Nat /\ paid[m] \in Nat
           /\ swept[m] \in Nat /\ listed[m] \in Nat /\ Lots[m] \in Nat \ {0}
BY DEF TypeOK, Places, Amounts

(* Nothing happens to a market but that promises are dropped.              *)
LEMMA QuietMarket ==
    ASSUME TypeOK, TypeOK', NEW m \in Markets, Winnings(m),
           tokens'["user"][m] = tokens["user"][m], tokens'["clone"][m] = tokens["clone"][m],
           tokens'["operator"][m] = tokens["operator"][m],
           paid'[m] = paid[m], swept'[m] = swept[m], listed'[m] = listed[m],
           \A p \in Parties : Debt(p, m)' =< Debt(p, m)
    PROVE  Winnings(m)'
<1>1. \A p \in Parties : Debt(p, m) \in Nat /\ Debt(p, m)' \in Nat
    BY DebtType, DebtTypeNext
<1>2. ASSUME NEW p \in Parties, Debt(p, m)' > 0
      PROVE  /\ tokens'["operator"][m] = 0 /\ tokens'["user"][m] = 0 /\ paid'[m] = 0
             /\ Debt(p, m)' =< Lots[m]
             /\ \A q \in Parties \ {p} : Debt(q, m)' = 0
    <2>1. Debt(p, m) > 0 /\ Debt(p, m)' =< Debt(p, m) /\ Debt(p, m) \in Nat /\ Debt(p, m)' \in Nat
        BY <1>1, <1>2
    <2>2. /\ tokens["operator"][m] = 0 /\ tokens["user"][m] = 0 /\ paid[m] = 0
          /\ Debt(p, m) =< Lots[m]
          /\ \A q \in Parties \ {p} : Debt(q, m) = 0
        BY <2>1 DEF Winnings, Gone
    <2>3. \A q \in Parties \ {p} : Debt(q, m)' = 0
        <3>1. ASSUME NEW q \in Parties \ {p} PROVE Debt(q, m)' = 0
            <4>1. Debt(q, m)' \in Nat /\ Debt(q, m)' =< Debt(q, m) /\ Debt(q, m) = 0
                BY <1>1, <2>2
            <4> QED BY <4>1
        <3> QED BY <3>1
    <2>4. Debt(p, m)' =< Lots[m]
        <3>1. Lots[m] \in Nat
            OBVIOUS
        <3> QED BY ONLY <2>1, <2>2, <3>1
    <2> QED BY <2>2, <2>3, <2>4
<1> QED BY <1>2 DEF Winnings, Gone

(* The operator redeems all, and one party owes it.                        *)
LEMMA RedeemedMarket ==
    ASSUME TypeOK, TypeOK', NEW m \in Markets, Winnings(m), NEW p \in Parties,
           ~Gone(m), tokens'["operator"][m] = 0,
           tokens'["user"][m] = tokens["user"][m], tokens'["clone"][m] = tokens["clone"][m],
           paid'[m] = paid[m], Debt(p, m)' =< Lots[m],
           \A q \in Parties \ {p} : Debt(q, m)' =< Debt(q, m)
    PROVE  Winnings(m)'
<1>1. \A q \in Parties : Debt(q, m) \in Nat /\ Debt(q, m)' \in Nat
    BY DebtType, DebtTypeNext
<1>2. \A q \in Parties : Debt(q, m) = 0
    BY <1>1 DEF Winnings
<1>3. \A q \in Parties \ {p} : Debt(q, m)' = 0
    <2>1. ASSUME NEW q \in Parties \ {p} PROVE Debt(q, m)' = 0
        <3>1. Debt(q, m)' \in Nat /\ Debt(q, m)' =< Debt(q, m) /\ Debt(q, m) = 0
            BY <1>1, <1>2
        <3> QED BY <3>1
    <2> QED BY <2>1
<1>4. tokens["user"][m] = 0 /\ paid[m] = 0 /\ tokens["clone"][m] = 0
    BY MarketTypes DEF Winnings, Gone
<1>5. ASSUME NEW q \in Parties, Debt(q, m)' > 0 PROVE q = p
    <2>1. 0 > 0 <=> FALSE
        OBVIOUS
    <2> QED BY <1>3, <1>5, <2>1
<1> QED BY <1>3, <1>4, <1>5 DEF Winnings, Gone

(* A party pays what it owes, or fails to, and owes nothing any more.      *)
LEMMA PaidMarket ==
    ASSUME TypeOK, TypeOK', NEW m \in Markets, Winnings(m), NEW p \in Parties,
           Debt(p, m) > 0, Debt(p, m)' = 0,
           tokens'["user"][m] = tokens["user"][m], tokens'["clone"][m] = tokens["clone"][m],
           tokens'["operator"][m] = tokens["operator"][m],
           paid'[m] \in {paid[m], paid[m] + Debt(p, m)},
           \A q \in Parties \ {p} : Debt(q, m)' =< Debt(q, m)
    PROVE  Winnings(m)'
<1>1. \A q \in Parties : Debt(q, m) \in Nat /\ Debt(q, m)' \in Nat
    BY DebtType, DebtTypeNext
<1>2. /\ tokens["operator"][m] = 0 /\ tokens["user"][m] = 0 /\ paid[m] = 0
      /\ Debt(p, m) =< Lots[m]
      /\ \A q \in Parties \ {p} : Debt(q, m) = 0
    BY DEF Winnings, Gone
<1>3. \A q \in Parties : Debt(q, m)' = 0
    <2>1. ASSUME NEW q \in Parties \ {p} PROVE Debt(q, m)' = 0
        <3>1. Debt(q, m)' \in Nat /\ Debt(q, m)' =< Debt(q, m) /\ Debt(q, m) = 0
            BY <1>1, <1>2
        <3> QED BY <3>1
    <2> QED BY <2>1
<1>4. \A q \in Parties : ~(Debt(q, m)' > 0)
    <2>1. ~(0 > 0)
        OBVIOUS
    <2> QED BY <1>3, <2>1
<1>5. paid'[m] + tokens'["user"][m] + tokens'["operator"][m] =< Lots[m]
    <2>1. Debt(p, m) \in Nat /\ Lots[m] \in Nat
        BY <1>1
    <2> QED BY <1>2, <2>1
<1>6. tokens["clone"][m] = 0
    BY DEF Winnings
<1> QED BY <1>2, <1>4, <1>5, <1>6 DEF Winnings, Gone

(* What was found stays whole: the operator's holding only goes away.      *)
LEMMA FoundStays ==
    ASSUME TypeOK, \A m \in Markets : FoundWhole(m),
           \A m \in Markets : Gone(m) => tokens'["operator"][m] = 0,
           scan'.found \in {scan.found, Zeros}, cache'.found \in {cache.found, Zeros},
           \A r \in Sweepers : sweep'[r].found \in {sweep[r].found, cache.found, Zeros}
    PROVE  \A m \in Markets : FoundWhole(m)'
<1>1. ASSUME NEW m \in Markets
      PROVE  FoundWhole(m)'
    <2> DEFINE Stays(a) == a = 0 \/ a >= Lots[m] \/ tokens'["operator"][m] = 0
    <2>1. \A a : Whole(m, a) => Stays(a)
        BY DEF Whole
    <2>2. Stays(scan.found[m]) /\ Stays(cache.found[m]) /\ \A r \in Sweepers : Stays(sweep[r].found[m])
        BY <2>1 DEF FoundWhole
    <2>3. Stays(Zeros[m])
        BY ConstantTypes
    <2> HIDE DEF Stays
    <2>4. Stays(scan'.found[m]) /\ Stays(cache'.found[m])
        BY <2>2, <2>3
    <2>5. ASSUME NEW r \in Sweepers PROVE Stays(sweep'[r].found[m])
        <3>1. CASE sweep'[r].found = sweep[r].found
            BY <2>2, <3>1
        <3>2. CASE sweep'[r].found = cache.found
            BY <2>2, <3>2
        <3>3. CASE sweep'[r].found = Zeros
            BY <2>3, <3>3
        <3> QED BY <3>1, <3>2, <3>3
    <2> QED BY <2>4, <2>5 DEF FoundWhole, Whole, Gone, Stays
<1> QED BY <1>1

LEMMA HandStays ==
    ASSUME NEW q \in Sweepers, TypeOK, InHand(q), sweep'[q] = sweep[q],
           \A m \in Markets : Gone(m) => tokens'["operator"][m] = 0
    PROVE  InHand(q)'
<1>1. sweep[q].at \subseteq Markets
    BY DEF TypeOK, SweepCalls
<1> QED BY <1>1 DEF InHand, Gone

LEMMA NotedStays ==
    ASSUME NEW d \in Claimers, Noted(d), claim'[d] = claim[d]
    PROVE  Noted(d)'
BY DEF Noted

(* Every market is quiet and one call of triggerBatchSweep goes on.        *)
LEMMA QuietSweep ==
    ASSUME WinningsInv, TypeOK', NEW r \in Sweepers,
           \A q \in Sweepers \ {r} : sweep'[q] = sweep[q], claim' = claim,
           UNCHANGED <<tokens, paid, swept, listed>>,
           scan'.found \in {scan.found, Zeros}, cache'.found \in {cache.found, Zeros},
           sweep'[r].found \in {sweep[r].found, cache.found, Zeros},
           \A m \in Markets : Redeemed(sweep'[r])[m] =< Redeemed(sweep[r])[m],
           InHand(r)'
    PROVE  WinningsInv'
<1> USE DEF WinningsInv
<1>1. ASSUME NEW m \in Markets PROVE Winnings(m)'
    <2>1. \A q \in Sweepers : Redeemed(sweep[q])[m] \in Nat
        BY DebtType
    <2>2. \A q \in Sweepers : Redeemed(sweep'[q])[m] =< Redeemed(sweep[q])[m]
        BY <2>1
    <2>3. \A c \in Claimers : Claimed(claim'[c], m) =< Claimed(claim[c], m)
        <3>1. \A c \in Claimers : Claimed(claim[c], m) \in Nat
            BY DebtType
        <3> QED BY <3>1
    <2>4. \A p \in Parties : Debt(p, m)' =< Debt(p, m)
        BY <2>2, <2>3, OtherDebts
    <2> QED BY <2>4, QuietMarket
<1>2. \A m \in Markets : FoundWhole(m)'
    BY FoundStays DEF Gone
<1>3. \A q \in Sweepers : InHand(q)'
    BY HandStays DEF Gone
<1>4. \A c \in Claimers : Noted(c)'
    BY NotedStays
<1> QED BY <1>1, <1>2, <1>3, <1>4

(* Every market is quiet and no call does anything.                        *)
LEMMA QuietCalls ==
    ASSUME WinningsInv, TypeOK', UNCHANGED <<tokens, paid, swept, listed, sweep, claim>>,
           \A m \in Markets : FoundWhole(m)'
    PROVE  WinningsInv'
<1> USE DEF WinningsInv
<1>1. ASSUME NEW m \in Markets PROVE Winnings(m)'
    <2>1. /\ \A q \in Sweepers : Redeemed(sweep'[q])[m] =< Redeemed(sweep[q])[m]
          /\ \A c \in Claimers : Claimed(claim'[c], m) =< Claimed(claim[c], m)
        <3>1. /\ \A q \in Sweepers : Redeemed(sweep[q])[m] \in Nat
              /\ \A c \in Claimers : Claimed(claim[c], m) \in Nat
            BY DebtType
        <3> QED BY <3>1
    <2>2. \A p \in Parties : Debt(p, m)' =< Debt(p, m)
        BY <2>1, OtherDebts
    <2> QED BY <2>2, QuietMarket
<1>2. \A q \in Sweepers : InHand(q)'
    BY HandStays DEF Gone
<1>3. \A c \in Claimers : Noted(c)'
    BY NotedStays
<1> QED BY <1>1, <1>2, <1>3

(* What is in the wallet or due by the orders is whole.                    *)
LEMMA WholeFinds ==
    ASSUME WinningsInv, NEW m \in Markets
    PROVE  /\ Whole(m, tokens["user"][m]) /\ Whole(m, tokens["clone"][m]) /\ Whole(m, 0)
           /\ Whole(m, Positive(Lots[m] - listed[m])) /\ Whole(m, Positive(Lots[m] - swept[m]))
<1>1. Winnings(m)
    BY DEF WinningsInv
<1>2. /\ tokens["user"][m] \in Nat /\ tokens["clone"][m] \in Nat
      /\ tokens["operator"][m] \in Nat /\ paid[m] \in Nat
      /\ swept[m] \in Nat /\ listed[m] \in Nat /\ Lots[m] \in Nat \ {0}
    BY MarketTypes DEF WinningsInv
<1>3. Whole(m, tokens["user"][m]) /\ Whole(m, tokens["clone"][m]) /\ Whole(m, 0)
    BY <1>1, <1>2 DEF Winnings, Whole, Gone
<1>4. CASE listed[m] > 0 \/ swept[m] > 0
    BY <1>1, <1>3, <1>4 DEF Winnings, Whole
<1>5. CASE listed[m] = 0 /\ swept[m] = 0
    <2>1. Positive(Lots[m] - listed[m]) = Lots[m] /\ Positive(Lots[m] - swept[m]) = Lots[m]
        BY <1>2, <1>5 DEF Positive
    <2> QED BY <1>2, <1>3, <2>1 DEF Whole
<1> QED BY <1>2, <1>3, <1>4, <1>5

LEMMA IndexerWinnings ==
    ASSUME WinningsInv, IndexerAnswers
    PROVE  WinningsInv'
<1>1. PICK answered \in SUBSET {"user", "clone"} :
            scan' = [pc |-> "chain", found |-> Claimable(answered)]
    BY DEF IndexerAnswers
<1>2. UNCHANGED <<tokens, swept, listed, cache, sweep, claim, paid>>
    BY DEF IndexerAnswers
<1>3. TypeOK /\ TypeOK'
    BY IndexerAnswersTypes DEF WinningsInv
<1>4. ASSUME NEW m \in Markets PROVE FoundWhole(m)'
    <2>1. Claimable(answered)[m] \in {0, tokens["user"][m], tokens["clone"][m]}
        BY <1>3, ClaimableType
    <2>2. Whole(m, Claimable(answered)[m])
        BY <2>1, WholeFinds
    <2>3. FoundWhole(m) /\ scan'.found[m] = Claimable(answered)[m]
        BY <1>1 DEF WinningsInv
    <2> QED BY <1>2, <2>2, <2>3 DEF FoundWhole, Whole, Gone
<1> QED BY <1>2, <1>3, <1>4, QuietCalls

(* A scan is handed to those who wait for it.                              *)
LEMMA ScanWinnings ==
    ASSUME WinningsInv, ScanEnds
    PROVE  WinningsInv'
<1> USE DEF WinningsInv
<1>1. PICK found \in Amounts :
          /\ cache' = [pc |-> "fresh", found |-> found]
          /\ sweep' = [r \in Sweepers |-> IF sweep[r].pc = "scanning"
                                          THEN Working(sweep[r], found) ELSE sweep[r]]
          /\ \A m \in Markets : \/ found[m] = scan.found[m]
                                \/ found[m] = tokens["user"][m]
                                \/ found[m] = Positive(Lots[m] - listed[m])
                                \/ found[m] = Positive(Lots[m] - swept[m])
                                \/ found[m] = 0
    BY ScanEndsTypes
<1>2. TypeOK'
    BY ScanEndsTypes
<1>3. /\ UNCHANGED <<tokens, swept, listed, claim, paid>>
      /\ scan'.found = Zeros
    BY ConstantTypes DEF ScanEnds
<1>4. ASSUME NEW m \in Markets PROVE Whole(m, found[m])
    <2>1. Whole(m, scan.found[m])
        BY DEF FoundWhole
    <2> QED BY <1>1, <2>1, WholeFinds
<1>5. ASSUME NEW r \in Sweepers
      PROVE  /\ sweep'[r].pc = "working" \/ sweep'[r] = sweep[r]
             /\ sweep'[r].pc = "working" /\ sweep[r].pc = "scanning" =>
                   /\ sweep'[r].found = found
                   /\ \A m \in sweep'[r].todo : found[m] > 0
             /\ sweep[r].pc # "scanning" => sweep'[r] = sweep[r]
             /\ sweep'[r].found \in {sweep[r].found, found}
             /\ \A m \in Markets : Redeemed(sweep'[r])[m] =< Redeemed(sweep[r])[m]
    <2>1. CASE sweep[r].pc = "scanning"
        <3>1. sweep[r] \in SweepCalls
            BY DEF TypeOK
        <3>2. /\ Working(sweep[r], found).pc = "working"
              /\ Working(sweep[r], found).found = found
              /\ Working(sweep[r], found).pay = sweep[r].pay
              /\ \A m \in Working(sweep[r], found).todo : found[m] > 0
            BY <3>1, WorkingType
        <3>3. sweep'[r] = Working(sweep[r], found)
            BY <1>1, <2>1
        <3>4. sweep[r].pay \in [Markets -> Nat]
            BY <3>1 DEF SweepCalls, Amounts
        <3>5. \A m \in Markets : Redeemed(sweep'[r])[m] =< Redeemed(sweep[r])[m]
            BY <2>1, <3>2, <3>3, <3>4 DEF Redeemed
        <3> QED BY <2>1, <3>2, <3>3, <3>5
    <2>2. CASE sweep[r].pc # "scanning"
        <3>1. sweep'[r] = sweep[r]
            BY <1>1, <2>2
        <3>2. \A m \in Markets : Redeemed(sweep[r])[m] \in Nat
            BY DebtType
        <3> QED BY <2>2, <3>1, <3>2
    <2> QED BY <2>1, <2>2
<1>6. ASSUME NEW m \in Markets PROVE Winnings(m)' /\ FoundWhole(m)'
    <2>1. \A c \in Claimers : Claimed(claim'[c], m) =< Claimed(claim[c], m)
        <3>1. claim' = claim /\ \A c \in Claimers : Claimed(claim[c], m) \in Nat
            BY <1>3, DebtType
        <3> QED BY <3>1
    <2>2. \A p \in Parties : Debt(p, m)' =< Debt(p, m)
        BY <1>2, <1>5, <2>1, OtherDebts
    <2>3. Winnings(m)'
        BY <1>2, <1>3, <2>2, QuietMarket
    <2>4. /\ Whole(m, found[m]) /\ \A r \in Sweepers : Whole(m, sweep'[r].found[m])
        <3>1. Whole(m, found[m]) /\ \A r \in Sweepers : Whole(m, sweep[r].found[m])
            BY <1>4 DEF FoundWhole
        <3>2. ASSUME NEW r \in Sweepers PROVE Whole(m, sweep'[r].found[m])
            BY <1>5, <3>1
        <3> QED BY <3>1, <3>2
    <2>5. Whole(m, Zeros[m]) /\ cache'.found = found
        BY <1>1, ConstantTypes, WholeFinds
    <2>6. FoundWhole(m)'
        BY <1>3, <2>4, <2>5 DEF FoundWhole, Whole, Gone
    <2> QED BY <2>3, <2>6
<1>7. ASSUME NEW r \in Sweepers PROVE InHand(r)'
    <2>1. CASE sweep[r].pc = "scanning"
        <3>1. /\ sweep'[r].pc = "working" /\ sweep'[r].found = found
              /\ \A m \in sweep'[r].todo : found[m] > 0
            <4>1. sweep'[r].pc = "working"
                BY <1>1, <2>1, WorkingType DEF TypeOK
            <4> QED BY <1>5, <2>1, <4>1
        <3> QED BY <3>1 DEF InHand
    <2>2. CASE sweep[r].pc # "scanning"
        <3>1. sweep'[r] = sweep[r]
            BY <1>5, <2>2
        <3> QED BY <1>3, <3>1, HandStays DEF Gone
    <2> QED BY <2>1, <2>2
<1>8. \A c \in Claimers : Noted(c)'
    BY <1>3, NotedStays
<1> QED BY <1>2, <1>6, <1>7, <1>8

LEMMA BrowsingWinnings ==
    ASSUME WinningsInv,
           Browse \/ CacheExpires \/ (\E m \in Markets : OrdersAge(m) \/ QuietExpires(m))
                  \/ UNCHANGED sweepVars
    PROVE  WinningsInv'
<1>1. TypeOK /\ TypeOK' /\ \A m \in Markets : FoundWhole(m)
    BY StepTypes DEF WinningsInv, Next
<1>2. /\ UNCHANGED <<tokens, paid, swept, listed, sweep, claim>>
      /\ scan'.found \in {scan.found, Zeros} /\ cache'.found \in {cache.found, Zeros}
    <2>1. CASE Browse
        BY <1>1, <2>1, BeginScanType DEF Browse
    <2>2. CASE CacheExpires \/ (\E m \in Markets : OrdersAge(m) \/ QuietExpires(m))
        BY <1>1, <2>2, TimersTypes, ConstantTypes
    <2>3. CASE UNCHANGED sweepVars
        BY <2>3 DEF sweepVars
    <2> QED BY <2>1, <2>2, <2>3
<1>3. \A m \in Markets : FoundWhole(m)'
    BY <1>1, <1>2, FoundStays DEF Gone
<1> QED BY <1>1, <1>2, <1>3, QuietCalls

(* The debts of a call that pays nothing and does not divide its payment.  *)
LEMMA SameDebts ==
    ASSUME NEW s \in SweepCalls, NEW t \in SweepCalls, t.pay = s.pay, s.pc # "split",
           NEW m \in Markets
    PROVE  Redeemed(t)[m] =< Redeemed(s)[m]
<1>1. s.pay \in [Markets -> Nat]
    BY DEF SweepCalls, Amounts
<1> QED BY <1>1 DEF Redeemed

LEMMA SweepStartsWinnings ==
    ASSUME WinningsInv, NEW r \in Sweepers, TriggerBatchSweep(r)
    PROVE  WinningsInv'
<1>1. PICK s \in SweepCalls : /\ sweep' = [sweep EXCEPT ![r] = s]
                              /\ s = [sweep[r] EXCEPT !.pc = "loading"]
    BY TriggerTypes DEF WinningsInv
<1>2. /\ TypeOK /\ TypeOK' /\ sweep[r] \in SweepCalls
      /\ UNCHANGED <<tokens, paid, swept, listed, scan, claim>>
      /\ sweep[r].pc = "idle" /\ cache'.found = Zeros
    BY TriggerTypes, ConstantTypes DEF WinningsInv, TypeOK, TriggerBatchSweep, Invalidate
<1>3. s.pay = sweep[r].pay /\ s.found = sweep[r].found /\ s.pc = "loading"
    BY <1>1, <1>2 DEF SweepCalls
<1>4. sweep'[r] = s /\ \A q \in Sweepers \ {r} : sweep'[q] = sweep[q]
    BY <1>1, <1>2, SweepMoves
<1>5. \A m \in Markets : Redeemed(sweep'[r])[m] =< Redeemed(sweep[r])[m]
    BY <1>2, <1>3, <1>4, SameDebts
<1>6. InHand(r)'
    BY <1>3, <1>4 DEF InHand
<1> QED BY <1>2, <1>3, <1>4, <1>5, <1>6, QuietSweep

LEMMA ObtainWinnings ==
    ASSUME WinningsInv, NEW r \in Sweepers, ObtainPositions(r)
    PROVE  WinningsInv'
<1>1. PICK s \in SweepCalls :
          /\ sweep' = [sweep EXCEPT ![r] = s]
          /\ s.pay = sweep[r].pay
          /\ \/ s.pc = "working" /\ s.found = cache.found /\ \A m \in s.todo : s.found[m] > 0
             \/ s.pc = "scanning" /\ s.found = sweep[r].found
    BY ObtainTypes DEF WinningsInv
<1>2. /\ TypeOK /\ TypeOK' /\ sweep[r] \in SweepCalls
      /\ UNCHANGED <<tokens, paid, swept, listed, cache, claim>>
      /\ sweep[r].pc = "loading"
    BY ObtainTypes DEF WinningsInv, TypeOK, ObtainPositions
<1>3. scan'.found \in {scan.found, Zeros}
    BY <1>2, ObtainTypes
<1>4. sweep'[r] = s /\ \A q \in Sweepers \ {r} : sweep'[q] = sweep[q]
    BY <1>1, <1>2, SweepMoves
<1>5. \A m \in Markets : Redeemed(sweep'[r])[m] =< Redeemed(sweep[r])[m]
    BY <1>1, <1>2, <1>4, SameDebts
<1>6. InHand(r)'
    BY <1>1, <1>4 DEF InHand
<1>7. sweep'[r].found \in {sweep[r].found, cache.found, Zeros}
    BY <1>1, <1>4
<1> QED BY <1>2, <1>3, <1>4, <1>5, <1>6, <1>7, QuietSweep

(* What the operator holds of a market is taken whole.                     *)
LEMMA ExamineWinnings ==
    ASSUME WinningsInv, NEW r \in Sweepers, NEW m \in Markets, Examine(r, m)
    PROVE  WinningsInv'
<1>1. /\ TypeOK /\ InHand(r) /\ Winnings(m) /\ FoundWhole(m)
      /\ sweep[r] \in SweepCalls
    BY DEF WinningsInv, TypeOK
<1>2. /\ TypeOK'
      /\ sweep[r].pc = "working" /\ m \in sweep[r].todo
      /\ sweep'[r].pay = sweep[r].pay /\ sweep'[r].found = sweep[r].found
      /\ sweep'[r].todo \subseteq sweep[r].todo
      /\ \A q \in Sweepers \ {r} : sweep'[q] = sweep[q]
      /\ \/ sweep'[r].pc = "working" /\ sweep'[r].at = {}
         \/ sweep'[r].pc = "cloneRedeem" /\ tokens["clone"][m] > 0
         \/ /\ sweep'[r].pc = "opRedeem" /\ sweep'[r].at = {m}
            /\ tokens["operator"][m] > 0
            /\ sweep'[r].amount = Lesser(tokens["operator"][m], sweep[r].found[m])
    BY <1>1, ExamineTypes
<1>3. UNCHANGED <<tokens, swept, listed, cache, scan, claim, paid>>
    BY DEF Examine
<1>4. tokens["clone"][m] = 0 /\ ~(tokens["clone"][m] > 0)
    BY <1>1 DEF Winnings
<1>5. tokens["operator"][m] > 0 =>
          Lesser(tokens["operator"][m], sweep[r].found[m]) = Lots[m] /\ Lots[m] > 0
    <2>1. sweep[r].found[m] > 0 /\ sweep[r].found[m] \in Nat /\ Lots[m] \in Nat \ {0}
        BY <1>1, <1>2 DEF InHand, SweepCalls, Amounts
    <2>2. Whole(m, sweep[r].found[m])
        BY <1>1 DEF FoundWhole
    <2>3. tokens["operator"][m] > 0 => tokens["operator"][m] = Lots[m]
        BY <1>1 DEF Winnings
    <2> QED BY <2>1, <2>2, <2>3 DEF Whole, Gone, Lesser
<1>6. InHand(r)'
    <2>1. \A n \in sweep'[r].todo : sweep'[r].found[n] > 0
        BY <1>1, <1>2 DEF InHand
    <2>2. CASE sweep'[r].pc = "working"
        BY <2>1, <2>2 DEF InHand
    <2>3. CASE sweep'[r].pc = "opRedeem" /\ sweep'[r].at = {m}
               /\ tokens["operator"][m] > 0
               /\ sweep'[r].amount = Lesser(tokens["operator"][m], sweep[r].found[m])
        BY <1>5, <2>1, <2>3 DEF InHand
    <2> QED BY <1>2, <1>4, <2>2, <2>3
<1>7. sweep'[r] \in SweepCalls
    BY <1>2 DEF TypeOK
<1>8. \A n \in Markets : Redeemed(sweep'[r])[n] =< Redeemed(sweep[r])[n]
    BY <1>1, <1>2, <1>7, SameDebts
<1> QED BY <1>2, <1>3, <1>6, <1>8, QuietSweep

LEMMA ReadBalanceWinnings ==
    ASSUME WinningsInv, NEW r \in Sweepers, ReadBalance(r)
    PROVE  WinningsInv'
<1>1. TypeOK /\ sweep[r] \in SweepCalls
    BY DEF WinningsInv, TypeOK
<1>2. /\ TypeOK'
      /\ sweep[r].pc = "working" /\ sweep'[r].pc \in {"batch", "split"}
      /\ sweep'[r].pay = sweep[r].pay /\ sweep'[r].found = sweep[r].found
      /\ \A q \in Sweepers \ {r} : sweep'[q] = sweep[q]
    BY <1>1, ReadBalanceTypes
<1>3. UNCHANGED <<tokens, swept, listed, cache, scan, claim, paid>>
    BY DEF ReadBalance
<1>4. sweep'[r] \in SweepCalls
    BY <1>2 DEF TypeOK
<1>5. \A n \in Markets : Redeemed(sweep'[r])[n] =< Redeemed(sweep[r])[n]
    BY <1>1, <1>2, <1>4, SameDebts
<1>6. InHand(r)'
    BY <1>2 DEF InHand
<1> QED BY <1>2, <1>3, <1>5, <1>6, QuietSweep

LEMMA EndSweepWinnings ==
    ASSUME WinningsInv, NEW r \in Sweepers, EndSweep(r)
    PROVE  WinningsInv'
<1>1. TypeOK /\ sweep[r] \in SweepCalls
    BY DEF WinningsInv, TypeOK
<1>2. /\ TypeOK'
      /\ sweep'[r] = Asleep
      /\ \A q \in Sweepers \ {r} : sweep'[q] = sweep[q]
      /\ cache' = Nothing
      /\ UNCHANGED <<tokens, swept, listed, scan, claim, paid>>
    BY <1>1, EndSweepTypes
<1>3. \A n \in Markets : Redeemed(sweep'[r])[n] =< Redeemed(sweep[r])[n]
    <2>1. \A n \in Markets : Redeemed(sweep'[r])[n] = 0 /\ Redeemed(sweep[r])[n] \in Nat
        BY <1>1, <1>2, ConstantTypes, OwedByType DEF Redeemed
    <2> QED BY <2>1
<1>4. InHand(r)'
    BY <1>2, ConstantTypes DEF InHand
<1>5. cache'.found = Zeros /\ sweep'[r].found = Zeros
    BY <1>2, ConstantTypes
<1> QED BY <1>2, <1>3, <1>4, <1>5, QuietSweep

(* Several markets change, but by one call.                                *)
LEMMA BusySweep ==
    ASSUME WinningsInv, TypeOK', NEW r \in Sweepers,
           \A q \in Sweepers \ {r} : sweep'[q] = sweep[q], claim' = claim,
           \A m \in Markets : Winnings(m)',
           \A m \in Markets : Gone(m) => tokens'["operator"][m] = 0,
           scan'.found \in {scan.found, Zeros}, cache'.found \in {cache.found, Zeros},
           sweep'[r].found \in {sweep[r].found, cache.found, Zeros},
           InHand(r)'
    PROVE  WinningsInv'
<1> USE DEF WinningsInv
<1>1. \A m \in Markets : FoundWhole(m)'
    BY FoundStays
<1>2. \A q \in Sweepers : InHand(q)'
    BY HandStays
<1>3. \A c \in Claimers : Noted(c)'
    BY NotedStays
<1> QED BY <1>1, <1>2, <1>3

LEMMA RedeemWinnings ==
    ASSUME OneTrader, WinningsInv, NEW r \in Sweepers, NEW m \in Markets, RedeemFromOperator(r, m)
    PROVE  WinningsInv'
<1>1. /\ TypeOK /\ InHand(r) /\ Winnings(m) /\ sweep[r] \in SweepCalls
      /\ \A n \in Markets : Winnings(n)
    BY DEF WinningsInv, TypeOK
<1>2. PICK end \in Sent(tokens["operator"][m] >= sweep[r].amount) :
          /\ Took(end) =>
                /\ tokens'["operator"][m] = tokens["operator"][m] - sweep[r].amount
                /\ \A n \in Markets \ {m} : tokens'["operator"][n] = tokens["operator"][n]
          /\ ~Took(end) => tokens' = tokens
          /\ Reported(end) => sweep'[r].pay = [sweep[r].pay EXCEPT ![m] = sweep[r].amount]
          /\ ~Reported(end) => sweep'[r].pay = sweep[r].pay
    BY <1>1, RedeemFromOperatorTypes
<1>3. /\ TypeOK' /\ sweep[r].pc = "opRedeem" /\ sweep[r].at = {m}
      /\ sweep'[r].pc = "working" /\ sweep'[r].at = {} /\ sweep'[r].found = sweep[r].found
      /\ sweep'[r].todo \subseteq sweep[r].todo
      /\ \A q \in Sweepers \ {r} : sweep'[q] = sweep[q]
      /\ UNCHANGED <<swept, listed, cache, scan, claim, paid>>
      /\ tokens'["user"] = tokens["user"] /\ tokens'["clone"] = tokens["clone"]
    BY <1>1, RedeemFromOperatorTypes
<1>4. /\ Took(end) => tokens["operator"][m] >= sweep[r].amount
      /\ Took(end) <=> Reported(end)
    <2>1. (tokens["operator"][m] >= sweep[r].amount) \in BOOLEAN
        OBVIOUS
    <2> QED BY <2>1, Ends DEF OneTrader
<1>5. InHand(r)'
    BY <1>1, <1>3 DEF InHand
<1>6. sweep'[r] \in SweepCalls
    BY <1>3 DEF TypeOK
<1>7. CASE ~Took(end)
    <2>1. \A n \in Markets : Redeemed(sweep'[r])[n] =< Redeemed(sweep[r])[n]
        BY <1>1, <1>2, <1>3, <1>4, <1>6, <1>7, SameDebts
    <2>2. tokens' = tokens
        BY <1>2, <1>7
    <2> QED BY <1>3, <1>5, <2>1, <2>2, QuietSweep
<1>8. CASE Took(end)
    <2>1. /\ sweep[r].amount \in Nat /\ tokens["operator"][m] \in Nat
          /\ Lots[m] \in Nat \ {0}
        BY <1>1, MarketTypes DEF SweepCalls
    <2>2. /\ ~Gone(m) /\ sweep[r].amount = Lots[m] /\ tokens'["operator"][m] = 0
        <3>1. sweep[r].amount > 0 /\ (Gone(m) \/ sweep[r].amount = Lots[m])
            BY <1>1, <1>3 DEF InHand
        <3>2. tokens["operator"][m] >= sweep[r].amount /\ tokens["operator"][m] \in {0, Lots[m]}
            BY <1>1, <1>4, <1>8 DEF Winnings
        <3>3. tokens'["operator"][m] = tokens["operator"][m] - sweep[r].amount
            BY <1>2, <1>8
        <3> QED BY <2>1, <3>1, <3>2, <3>3 DEF Gone
    <2>3. /\ sweep'[r].pay = [sweep[r].pay EXCEPT ![m] = sweep[r].amount]
          /\ sweep[r].pay \in [Markets -> Nat]
        BY <1>1, <1>2, <1>4, <1>8 DEF SweepCalls, Amounts
    <2>4. Redeemed(sweep'[r])[m] = Lots[m]
        BY <1>3, <2>2, <2>3 DEF Redeemed
    <2>5. ASSUME NEW n \in Markets \ {m}
          PROVE  Winnings(n)'
        <3>1. Redeemed(sweep'[r])[n] = Redeemed(sweep[r])[n] /\ Redeemed(sweep[r])[n] \in Nat
            BY <1>1, <1>3, <2>3 DEF Redeemed
        <3>2. \A p \in Parties \ {<<"sweep", r>>} : Debt(p, n)' =< Debt(p, n)
            BY <1>1, <1>3, OtherDebts
        <3>3. Debt(<<"sweep", r>>, n)' =< Debt(<<"sweep", r>>, n)
            BY <1>1, <1>3, <3>1, DebtType, DebtTypeNext
        <3>4. \A p \in Parties : Debt(p, n)' =< Debt(p, n)
            BY <3>2, <3>3
        <3>5. tokens'["operator"][n] = tokens["operator"][n]
            BY <1>2, <1>8
        <3> QED BY <1>1, <1>3, <3>4, <3>5, QuietMarket
    <2>6. Winnings(m)'
        <3>1. \A p \in Parties \ {<<"sweep", r>>} : Debt(p, m)' =< Debt(p, m)
            BY <1>1, <1>3, OtherDebts
        <3>2. Debt(<<"sweep", r>>, m)' =< Lots[m] /\ <<"sweep", r>> \in Parties
            <4>1. Debt(<<"sweep", r>>, m)' = Lots[m] /\ <<"sweep", r>> \in Parties
                BY <1>1, <1>3, <2>4, DebtType, DebtTypeNext
            <4> QED BY <2>1, <4>1
        <3> QED BY <1>1, <1>3, <2>2, <3>1, <3>2, RedeemedMarket
    <2>7. \A n \in Markets : Gone(n) => tokens'["operator"][n] = 0
        BY <1>2, <1>8, <2>2 DEF Gone
    <2> QED BY <1>3, <1>5, <2>5, <2>6, <2>7, BusySweep
<1> QED BY <1>7, <1>8

(* A sweep pays one market, or leaves it as it is.                         *)
LEMMA SweepPaysMarket ==
    ASSUME TypeOK, TypeOK', NEW r \in Sweepers, NEW n \in Markets, Winnings(n),
           \A q \in Sweepers \ {r} : sweep'[q] = sweep[q], claim' = claim, tokens' = tokens,
           Redeemed(sweep'[r])[n] = 0,
           paid'[n] = paid[n] + Redeemed(sweep[r])[n],
           swept'[n] = swept[n] + Redeemed(sweep[r])[n],
           listed'[n] = listed[n] + Redeemed(sweep[r])[n]
    PROVE  Winnings(n)'
<1> DEFINE p == <<"sweep", r>>
<1>1. /\ p \in Parties /\ Debt(p, n) = Redeemed(sweep[r])[n] /\ Debt(p, n) \in Nat
      /\ Debt(p, n)' = 0
    BY DebtType, DebtTypeNext
<1>2. \A q \in Parties \ {p} : Debt(q, n)' =< Debt(q, n)
    BY OtherDebts
<1> HIDE DEF p
<1>3. CASE Debt(p, n) > 0
    <2>1. paid'[n] = paid[n] + Debt(p, n)
        BY <1>1
    <2> QED BY <1>1, <1>2, <1>3, <2>1, PaidMarket
<1>4. CASE Debt(p, n) = 0
    <2>1. /\ paid[n] \in Nat /\ swept[n] \in Nat /\ listed[n] \in Nat
        BY MarketTypes
    <2>2. paid'[n] = paid[n] /\ swept'[n] = swept[n] /\ listed'[n] = listed[n]
        BY <1>1, <1>4, <2>1
    <2>3. \A q \in Parties : Debt(q, n)' =< Debt(q, n)
        BY <1>1, <1>2, <1>4
    <2> QED BY <2>2, <2>3, QuietMarket
<1> QED BY <1>1, <1>3, <1>4

LEMMA BatchWinnings ==
    ASSUME OneTrader, WinningsInv, NEW r \in Sweepers, PayBatch(r)
    PROVE  WinningsInv'
<1>1. TypeOK /\ sweep[r] \in SweepCalls /\ \A n \in Markets : Winnings(n)
    BY DEF WinningsInv, TypeOK
<1>2. PICK end \in Sent(float >= Total(sweep[r].pay)) :
          /\ Took(end) => Grows(paid, paid', sweep[r].pay)
          /\ ~Took(end) => UNCHANGED paid
          /\ Reported(end) => /\ Grows(swept, swept', sweep[r].pay)
                              /\ Grows(listed, listed', sweep[r].pay)
                              /\ sweep'[r] = Asleep
          /\ ~Reported(end) => /\ UNCHANGED <<swept, listed>>
                               /\ sweep'[r] = [sweep[r] EXCEPT !.pc = "split"]
    BY <1>1, PayBatchTypes
<1>3. /\ TypeOK' /\ sweep[r].pc = "batch"
      /\ \A q \in Sweepers \ {r} : sweep'[q] = sweep[q]
      /\ UNCHANGED <<tokens, scan, claim>>
      /\ cache' \in {cache, Nothing}
    BY <1>1, PayBatchTypes
<1>4. Took(end) <=> Reported(end)
    <2>1. (float >= Total(sweep[r].pay)) \in BOOLEAN
        OBVIOUS
    <2> QED BY <2>1, Ends DEF OneTrader
<1>5. cache'.found \in {cache.found, Zeros}
    BY <1>3, ConstantTypes
<1>6. CASE Reported(end)
    <2>1. sweep'[r] = Asleep
        BY <1>2, <1>6
    <2>2. \A n \in Markets : /\ Redeemed(sweep'[r])[n] = 0
                             /\ Redeemed(sweep[r])[n] = sweep[r].pay[n]
        BY <1>3, <2>1, ConstantTypes DEF Redeemed
    <2>3. ASSUME NEW n \in Markets PROVE Winnings(n)'
        <3>1. /\ paid'[n] = paid[n] + Redeemed(sweep[r])[n]
              /\ swept'[n] = swept[n] + Redeemed(sweep[r])[n]
              /\ listed'[n] = listed[n] + Redeemed(sweep[r])[n]
            BY <1>2, <1>4, <1>6, <2>2 DEF Grows
        <3> QED BY <1>1, <1>3, <2>2, <3>1, SweepPaysMarket
    <2>4. InHand(r)' /\ sweep'[r].found = Zeros
        BY <2>1, ConstantTypes DEF InHand
    <2>5. \A n \in Markets : Gone(n) => tokens'["operator"][n] = 0
        BY <1>3 DEF Gone
    <2> QED BY <1>3, <1>5, <2>3, <2>4, <2>5, BusySweep
<1>7. CASE ~Reported(end)
    <2>1. sweep'[r] = [sweep[r] EXCEPT !.pc = "split"] /\ UNCHANGED <<swept, listed, paid>>
        BY <1>2, <1>4, <1>7
    <2>2. sweep'[r] \in SweepCalls
        BY <1>3 DEF TypeOK
    <2>3. sweep'[r].pay = sweep[r].pay /\ sweep'[r].found = sweep[r].found /\ sweep'[r].pc = "split"
        BY <1>1, <2>1 DEF SweepCalls
    <2>4. \A n \in Markets : Redeemed(sweep'[r])[n] =< Redeemed(sweep[r])[n]
        BY <1>1, <1>3, <2>2, <2>3, SameDebts
    <2>5. InHand(r)'
        BY <2>3 DEF InHand
    <2> QED BY <1>3, <1>5, <2>1, <2>3, <2>4, <2>5, QuietSweep
<1> QED BY <1>6, <1>7

LEMMA OneWinnings ==
    ASSUME OneTrader, WinningsInv, NEW r \in Sweepers, NEW m \in Markets, PayOne(r, m)
    PROVE  WinningsInv'
<1> DEFINE ok == Covers(r, sweep[r].pay[m]) /\ float >= sweep[r].pay[m]
<1>1. TypeOK /\ sweep[r] \in SweepCalls /\ \A n \in Markets : Winnings(n)
    BY DEF WinningsInv, TypeOK
<1>2. PICK end \in Sent(ok) :
          /\ Took(end) => Grows(paid, paid', Only(m, sweep[r].pay[m]))
          /\ ~Took(end) => UNCHANGED paid
          /\ Reported(end) => /\ Grows(swept, swept', Only(m, sweep[r].pay[m]))
                              /\ Grows(listed, listed', Only(m, sweep[r].pay[m]))
          /\ ~Reported(end) => UNCHANGED <<swept, listed>>
    BY <1>1, PayOneTypes
<1>3. /\ TypeOK'
      /\ sweep[r].pc = "split" /\ m \in sweep[r].todo
      /\ sweep'[r].pc = "split" /\ sweep'[r].todo = sweep[r].todo \ {m}
      /\ sweep'[r].pay = sweep[r].pay /\ sweep'[r].found = sweep[r].found
      /\ \A q \in Sweepers \ {r} : sweep'[q] = sweep[q]
      /\ UNCHANGED <<tokens, cache, scan, claim>>
    BY <1>1, PayOneTypes
<1>4. Took(end) <=> Reported(end)
    <2>1. ok \in BOOLEAN
        OBVIOUS
    <2> HIDE DEF ok
    <2> QED BY <2>1, Ends DEF OneTrader
<1>5. InHand(r)'
    BY <1>3 DEF InHand
<1>6. /\ sweep[r].pay \in [Markets -> Nat]
      /\ sweep'[r] \in SweepCalls
    BY <1>1, <1>3 DEF SweepCalls, Amounts, TypeOK
<1>7. /\ Redeemed(sweep'[r])[m] = 0 /\ Redeemed(sweep[r])[m] = sweep[r].pay[m]
      /\ \A n \in Markets \ {m} : Redeemed(sweep'[r])[n] = Redeemed(sweep[r])[n]
    BY <1>3 DEF Redeemed
<1>8. \A n \in Markets : Redeemed(sweep'[r])[n] =< Redeemed(sweep[r])[n]
    <2>1. \A n \in Markets : Redeemed(sweep[r])[n] \in Nat
        BY <1>1, DebtType
    <2> QED BY <1>7, <2>1
<1>9. CASE Reported(end)
    <2>1. /\ Only(m, sweep[r].pay[m])[m] = sweep[r].pay[m]
          /\ \A n \in Markets \ {m} : Only(m, sweep[r].pay[m])[n] = 0
        BY <1>6, OnlyType
    <2>2. /\ Grows(paid, paid', Only(m, sweep[r].pay[m]))
          /\ Grows(swept, swept', Only(m, sweep[r].pay[m]))
          /\ Grows(listed, listed', Only(m, sweep[r].pay[m]))
        BY <1>2, <1>4, <1>9
    <2>3. Winnings(m)'
        <3>1. /\ paid'[m] = paid[m] + Redeemed(sweep[r])[m]
              /\ swept'[m] = swept[m] + Redeemed(sweep[r])[m]
              /\ listed'[m] = listed[m] + Redeemed(sweep[r])[m]
            BY <1>7, <2>1, <2>2 DEF Grows
        <3> QED BY <1>1, <1>3, <1>7, <3>1, SweepPaysMarket
    <2>4. ASSUME NEW n \in Markets \ {m} PROVE Winnings(n)'
        <3>1. paid[n] \in Nat /\ swept[n] \in Nat /\ listed[n] \in Nat
            BY <1>1, MarketTypes
        <3>2. paid'[n] = paid[n] /\ swept'[n] = swept[n] /\ listed'[n] = listed[n]
            BY <2>1, <2>2, <3>1 DEF Grows
        <3>3. \A c \in Claimers : Claimed(claim'[c], n) =< Claimed(claim[c], n)
            <4>1. \A c \in Claimers : Claimed(claim[c], n) \in Nat
                BY <1>1, DebtType
            <4> QED BY <1>3, <4>1
        <3>4. \A q \in Sweepers : Redeemed(sweep'[q])[n] =< Redeemed(sweep[q])[n]
            <4>1. \A q \in Sweepers : Redeemed(sweep[q])[n] \in Nat
                BY <1>1, DebtType
            <4> QED BY <1>3, <1>8, <4>1
        <3>5. \A p \in Parties : Debt(p, n)' =< Debt(p, n)
            BY <1>1, <1>3, <3>3, <3>4, OtherDebts
        <3> QED BY <1>1, <1>3, <3>2, <3>5, QuietMarket
    <2>5. \A n \in Markets : Gone(n) => tokens'["operator"][n] = 0
        BY <1>3 DEF Gone
    <2> QED BY <1>3, <1>5, <2>3, <2>4, <2>5, BusySweep
<1>10. CASE ~Reported(end)
    <2>1. UNCHANGED <<paid, swept, listed>>
        BY <1>2, <1>4, <1>10
    <2> QED BY <1>3, <1>5, <1>8, <2>1, QuietSweep
<1> QED BY <1>9, <1>10

LEMMA CloneWinnings ==
    ASSUME WinningsInv, NEW r \in Sweepers, NEW m \in Markets, RedeemFromClone(r, m)
    PROVE  WinningsInv'
BY DEF RedeemFromClone, WinningsInv, InHand

(* Several things change in a market, by one claim.                        *)
LEMMA BusyClaim ==
    ASSUME WinningsInv, TypeOK', NEW c \in Claimers,
           \A d \in Claimers \ {c} : claim'[d] = claim[d], sweep' = sweep,
           \A m \in Markets : Winnings(m)',
           \A m \in Markets : Gone(m) => tokens'["operator"][m] = 0,
           scan' = scan, cache'.found \in {cache.found, Zeros},
           Noted(c)'
    PROVE  WinningsInv'
<1> USE DEF WinningsInv
<1>1. \A m \in Markets : FoundWhole(m)'
    BY FoundStays
<1>2. \A q \in Sweepers : InHand(q)'
    BY HandStays
<1>3. \A d \in Claimers : Noted(d)'
    BY NotedStays
<1> QED BY <1>1, <1>2, <1>3

(* A claim changes at most its own debt, which is in one market.           *)
LEMMA ClaimQuietElsewhere ==
    ASSUME WinningsInv, TypeOK', NEW c \in Claimers, NEW n \in Markets,
           \A d \in Claimers \ {c} : claim'[d] = claim[d], sweep' = sweep,
           tokens'["user"][n] = tokens["user"][n], tokens'["clone"][n] = tokens["clone"][n],
           tokens'["operator"][n] = tokens["operator"][n],
           paid'[n] = paid[n], swept'[n] = swept[n], listed'[n] = listed[n],
           Claimed(claim'[c], n) = 0
    PROVE  Winnings(n)'
<1>1. TypeOK /\ Winnings(n)
    BY DEF WinningsInv
<1>2. \A p \in Parties \ {<<"claim", c>>} : Debt(p, n)' =< Debt(p, n)
    BY <1>1, OtherDebts
<1>3. Debt(<<"claim", c>>, n)' =< Debt(<<"claim", c>>, n)
    <2>1. Debt(<<"claim", c>>, n) = Claimed(claim[c], n) /\ Claimed(claim[c], n) \in Nat
        BY <1>1, DebtType
    <2>2. Debt(<<"claim", c>>, n)' = 0
        BY DebtTypeNext
    <2> QED BY <2>1, <2>2
<1>4. \A p \in Parties : Debt(p, n)' =< Debt(p, n)
    BY <1>2, <1>3
<1> QED BY <1>1, <1>4, QuietMarket

LEMMA BeginClaimWinnings ==
    ASSUME WinningsInv, NEW c \in Claimers, NEW m \in Markets, BeginClaim(c, m)
    PROVE  WinningsInv'
<1>1. TypeOK /\ Winnings(m) /\ \A n \in Markets : FoundWhole(n)
    BY DEF WinningsInv
<1>2. /\ TypeOK'
      /\ UNCHANGED <<tokens, swept, listed, cache, scan, sweep, paid>>
      /\ \/ claim' = claim
         \/ /\ claim'[c].pc = "clone" /\ claim'[c].at = {m}
            /\ claim'[c].op = tokens["operator"][m] /\ claim'[c].clone = tokens["clone"][m]
            /\ \A d \in Claimers \ {c} : claim'[d] = claim[d]
    BY <1>1, BeginClaimTypes
<1>3. CASE claim' = claim
    <2>1. \A n \in Markets : FoundWhole(n)'
        BY <1>1, <1>2, FoundStays DEF Gone
    <2> QED BY <1>2, <1>3, <2>1, QuietCalls
<1>4. CASE /\ claim'[c].pc = "clone" /\ claim'[c].at = {m}
           /\ claim'[c].op = tokens["operator"][m] /\ claim'[c].clone = tokens["clone"][m]
           /\ \A d \in Claimers \ {c} : claim'[d] = claim[d]
    <2>1. Noted(c)'
        BY <1>1, <1>4 DEF Noted, Winnings
    <2>2. ASSUME NEW n \in Markets PROVE Winnings(n)'
        <3>1. Claimed(claim'[c], n) = 0
            BY <1>4 DEF Claimed
        <3> QED BY <1>2, <1>4, <3>1, ClaimQuietElsewhere
    <2>3. \A n \in Markets : Gone(n) => tokens'["operator"][n] = 0
        BY <1>2 DEF Gone
    <2> QED BY <1>2, <1>4, <2>1, <2>2, <2>3, BusyClaim
<1> QED BY <1>2, <1>3, <1>4

LEMMA ClaimCloneWinnings ==
    ASSUME OneTrader, WinningsInv, NEW c \in Claimers, NEW m \in Markets, ClaimFromClone(c, m)
    PROVE  WinningsInv'
<1>1. TypeOK /\ Noted(c)
    BY DEF WinningsInv
<1>2. /\ TypeOK'
      /\ UNCHANGED <<swept, listed, cache, scan, sweep>>
      /\ claim[c].pc = "clone" /\ claim[c].at = {m}
      /\ claim'[c].pc = "operator" /\ claim'[c].at = {m} /\ claim'[c].op = claim[c].op
      /\ claim'[c].clone = claim[c].clone
      /\ \A d \in Claimers \ {c} : claim'[d] = claim[d]
    BY <1>1, ClaimFromCloneTypes
<1>3. claim[c].clone = 0 /\ claim[c].op \in {0, Lots[m]}
    BY <1>1, <1>2 DEF Noted
<1>4. UNCHANGED <<tokens, paid>> /\ claim'[c].hash = FALSE
    BY <1>1, <1>3, ClaimFromCloneTypes DEF OneTrader
<1>5. Noted(c)'
    BY <1>2, <1>3, <1>4 DEF Noted
<1>6. ASSUME NEW n \in Markets PROVE Winnings(n)'
    <2>1. Claimed(claim'[c], n) = 0
        BY <1>2 DEF Claimed
    <2> QED BY <1>2, <1>4, <2>1, ClaimQuietElsewhere
<1>7. \A n \in Markets : Gone(n) => tokens'["operator"][n] = 0
    BY <1>4 DEF Gone
<1> QED BY <1>2, <1>5, <1>6, <1>7, BusyClaim

LEMMA ClaimOperatorWinnings ==
    ASSUME OneTrader, WinningsInv, NEW c \in Claimers, NEW m \in Markets, ClaimFromOperator(c, m)
    PROVE  WinningsInv'
<1>1. TypeOK /\ Noted(c) /\ Winnings(m)
    BY DEF WinningsInv
<1>2. /\ TypeOK'
      /\ UNCHANGED <<swept, listed, cache, scan, sweep, paid>>
      /\ claim[c].pc = "operator" /\ claim[c].at = {m}
      /\ claim'[c].pc = "paying" /\ claim'[c].at = {m} /\ claim'[c].op = claim[c].op
      /\ claim'[c].clone = claim[c].clone
      /\ \A d \in Claimers \ {c} : claim'[d] = claim[d]
      /\ tokens'["user"] = tokens["user"] /\ tokens'["clone"] = tokens["clone"]
      /\ \A n \in Markets \ {m} : tokens'["operator"][n] = tokens["operator"][n]
    BY <1>1, ClaimFromOperatorTypes
<1>10. \/ /\ claim[c].op > 0
          /\ \E end \in Sent(tokens["operator"][m] >= claim[c].op) :
                /\ Took(end) => tokens'["operator"][m] = tokens["operator"][m] - claim[c].op
                /\ ~Took(end) => tokens'["operator"][m] = tokens["operator"][m]
                /\ claim'[c].amount =< Lots[m]
                /\ ~Reported(end) => claim'[c].amount = 0
       \/ /\ tokens' = tokens
          /\ ~claim[c].hash => claim'[c].amount = 0
    BY <1>1, ClaimFromOperatorTypes
<1>3. claim[c].hash = FALSE /\ claim[c].clone = 0 /\ claim[c].op \in {0, Lots[m]}
    BY <1>1, <1>2 DEF Noted
<1>4. Noted(c)'
    BY <1>2, <1>3 DEF Noted
<1>5. /\ tokens["operator"][m] \in {0, Lots[m]} /\ tokens["operator"][m] \in Nat
      /\ Lots[m] \in Nat \ {0}
    BY <1>1, MarketTypes DEF Winnings
<1>6. ASSUME NEW n \in Markets \ {m} PROVE Winnings(n)'
    <2>1. Claimed(claim'[c], n) = 0
        BY <1>2 DEF Claimed
    <2> QED BY <1>2, <2>1, ClaimQuietElsewhere
<1>7. ASSUME claim'[c].amount = 0, tokens'["operator"][m] = tokens["operator"][m]
      PROVE  Winnings(m)' /\ (Gone(m) => tokens'["operator"][m] = 0)
    <2>1. Claimed(claim'[c], m) = 0
        BY <1>7 DEF Claimed
    <2> QED BY <1>2, <1>7, <2>1, ClaimQuietElsewhere DEF Gone
<1>8. Winnings(m)' /\ (Gone(m) => tokens'["operator"][m] = 0)
    <2>1. CASE tokens' = tokens /\ (~claim[c].hash => claim'[c].amount = 0)
        BY <1>3, <1>7, <2>1
    <2>2. ASSUME claim[c].op > 0, NEW end \in Sent(tokens["operator"][m] >= claim[c].op),
                 Took(end) => tokens'["operator"][m] = tokens["operator"][m] - claim[c].op,
                 ~Took(end) => tokens'["operator"][m] = tokens["operator"][m],
                 claim'[c].amount =< Lots[m],
                 ~Reported(end) => claim'[c].amount = 0
          PROVE  Winnings(m)' /\ (Gone(m) => tokens'["operator"][m] = 0)
        <3>1. /\ Took(end) => tokens["operator"][m] >= claim[c].op
              /\ Took(end) <=> Reported(end)
            <4>1. (tokens["operator"][m] >= claim[c].op) \in BOOLEAN
                OBVIOUS
            <4> QED BY <2>2, <4>1, Ends DEF OneTrader
        <3>2. CASE ~Took(end)
            BY <1>7, <2>2, <3>1, <3>2
        <3>3. CASE Took(end)
            <4>1. ~Gone(m) /\ tokens'["operator"][m] = 0
                BY <1>3, <1>5, <2>2, <3>1, <3>3 DEF Gone
            <4>2. Claimed(claim'[c], m) =< Lots[m]
                <5>1. Claimed(claim'[c], m) = claim'[c].amount
                    BY <1>2 DEF Claimed
                <5> QED BY <2>2, <5>1
            <4>3. /\ \A p \in Parties \ {<<"claim", c>>} : Debt(p, m)' =< Debt(p, m)
                  /\ <<"claim", c>> \in Parties /\ Debt(<<"claim", c>>, m)' =< Lots[m]
                <5>1. \A p \in Parties \ {<<"claim", c>>} : Debt(p, m)' =< Debt(p, m)
                    BY <1>1, <1>2, OtherDebts
                <5>2. Debt(<<"claim", c>>, m)' = Claimed(claim'[c], m)
                    BY <1>2, DebtTypeNext
                <5>3. <<"claim", c>> \in Parties
                    BY DEF Parties
                <5> QED BY <4>2, <5>1, <5>2, <5>3
            <4> QED BY <1>1, <1>2, <4>1, <4>3, RedeemedMarket
        <3> QED BY <3>2, <3>3
    <2> QED BY <1>10, <2>1, <2>2
<1>9. \A n \in Markets : Winnings(n)' /\ (Gone(n) => tokens'["operator"][n] = 0)
    BY <1>2, <1>6, <1>8 DEF Gone
<1> QED BY <1>2, <1>4, <1>9, BusyClaim

LEMMA ClaimPaysWinnings ==
    ASSUME WinningsInv, NEW c \in Claimers, NEW m \in Markets, ClaimPays(c, m)
    PROVE  WinningsInv'
<1>1. TypeOK /\ Winnings(m)
    BY DEF WinningsInv
<1>2. /\ TypeOK'
      /\ UNCHANGED <<tokens, swept, scan, sweep>>
      /\ cache' \in {cache, Nothing}
      /\ claim[c].pc = "paying" /\ claim[c].at = {m}
      /\ claim'[c] = NoClaim
      /\ \A d \in Claimers \ {c} : claim'[d] = claim[d]
      /\ \A n \in Markets \ {m} : paid'[n] = paid[n] /\ listed'[n] = listed[n]
      /\ paid'[m] \in {paid[m], paid[m] + claim[c].amount}
      /\ listed'[m] = listed[m] + claim[c].amount
    BY <1>1, ClaimPaysTypes
<1>3. \A n \in Markets : Claimed(claim'[c], n) = 0
    BY <1>2, ConstantTypes DEF Claimed
<1>4. ASSUME NEW n \in Markets \ {m} PROVE Winnings(n)'
    BY <1>2, <1>3, <1>4, ClaimQuietElsewhere
<1>5. Winnings(m)'
    <2> DEFINE p == <<"claim", c>>
    <2>1. /\ p \in Parties /\ Debt(p, m) = claim[c].amount /\ Debt(p, m) \in Nat
          /\ Debt(p, m)' = 0
        <3>1. Claimed(claim[c], m) = claim[c].amount
            BY <1>2 DEF Claimed
        <3>2. p \in Parties /\ Debt(p, m) = Claimed(claim[c], m) /\ Debt(p, m) \in Nat
            BY <1>1, DebtType
        <3>3. Debt(p, m)' = Claimed(claim'[c], m)
            BY <1>2, DebtTypeNext
        <3> QED BY <1>3, <3>1, <3>2, <3>3
    <2>2. CASE Debt(p, m) > 0
        <3>1. \A q \in Parties \ {p} : Debt(q, m)' =< Debt(q, m)
            BY <1>1, <1>2, OtherDebts
        <3> HIDE DEF p
        <3>2. paid'[m] \in {paid[m], paid[m] + Debt(p, m)}
            BY <1>2, <2>1
        <3> QED BY <1>1, <1>2, <2>1, <2>2, <3>1, <3>2, PaidMarket
    <2>3. CASE Debt(p, m) = 0
        <3>1. paid[m] \in Nat /\ listed[m] \in Nat
            BY <1>1, MarketTypes
        <3>2. paid'[m] = paid[m] /\ listed'[m] = listed[m]
            BY <1>2, <2>1, <2>3, <3>1
        <3> QED BY <1>2, <1>3, <3>2, ClaimQuietElsewhere
    <2> QED BY <2>1, <2>2, <2>3
<1>6. /\ \A n \in Markets : Winnings(n)'
      /\ \A n \in Markets : Gone(n) => tokens'["operator"][n] = 0
    BY <1>2, <1>4, <1>5 DEF Gone
<1>7. Noted(c)' /\ cache'.found \in {cache.found, Zeros}
    BY <1>2, ConstantTypes DEF Noted
<1> QED BY <1>2, <1>6, <1>7, BusyClaim

LEMMA WinningsInit ==
    ASSUME OneTrader, Init
    PROVE  WinningsInv
<1>1. TypeOK
    BY InitTypes
<1>2. /\ swept = Zeros /\ listed = Zeros /\ paid = Zeros /\ cache = Nothing /\ scan = Nothing
      /\ \A r \in Sweepers : sweep[r] = Asleep
      /\ \A c \in Claimers : claim[c] = NoClaim
    BY DEF Init
<1>3. ASSUME NEW m \in Markets
      PROVE  /\ tokens["clone"][m] = 0
             /\ \/ tokens["user"][m] = 0 /\ tokens["operator"][m] = Lots[m]
                \/ tokens["user"][m] = Lots[m] /\ tokens["operator"][m] = 0
    <2>1. PICK home \in [Markets -> Holders] :
              tokens = [p \in Places |-> [n \in Markets |->
                          (IF home[n] = p THEN Lots[n] ELSE 0)
                            + (IF p = "operator" THEN Others ELSE 0)]]
        BY DEF Init
    <2>2. home[m] \in {"user", "operator"} /\ Others = 0 /\ Lots[m] \in Nat
        BY <2>1 DEF OneTrader
    <2>3. /\ tokens["clone"][m] = (IF home[m] = "clone" THEN Lots[m] ELSE 0) + 0
          /\ tokens["user"][m] = (IF home[m] = "user" THEN Lots[m] ELSE 0) + 0
          /\ tokens["operator"][m] = (IF home[m] = "operator" THEN Lots[m] ELSE 0) + 0
        BY <2>1, <2>2 DEF Places
    <2> QED BY <2>2, <2>3
<1>4. ASSUME NEW m \in Markets
      PROVE  Winnings(m) /\ FoundWhole(m)
    <2>1. Zeros[m] = 0 /\ Lots[m] \in Nat
        BY ConstantTypes
    <2>2. \A p \in Parties : Debt(p, m) = 0
        <3>1. \A r \in Sweepers : Redeemed(sweep[r])[m] = 0
            BY <1>2, <2>1, ConstantTypes DEF Redeemed
        <3>2. \A c \in Claimers : Claimed(claim[c], m) = 0
            BY <1>2, ConstantTypes DEF Claimed
        <3> QED BY <1>1, <3>1, <3>2, DebtType
    <2>3. \A p \in Parties : ~(Debt(p, m) > 0)
        <3>1. ~(0 > 0)
            OBVIOUS
        <3> QED BY <2>2, <3>1
    <2>4. Winnings(m)
        <3>1. ~(swept[m] > 0) /\ ~(listed[m] > 0) /\ paid[m] = 0
            BY <1>2, <2>1
        <3>2. /\ tokens["clone"][m] = 0 /\ tokens["operator"][m] \in {0, Lots[m]}
              /\ paid[m] + tokens["user"][m] + tokens["operator"][m] =< Lots[m]
            BY <1>3, <2>1, <3>1
        <3> QED BY <2>3, <3>1, <3>2 DEF Winnings
    <2>5. FoundWhole(m)
        BY <1>2, <2>1, ConstantTypes DEF FoundWhole, Whole
    <2> QED BY <2>4, <2>5
<1>5. \A r \in Sweepers : InHand(r)
    BY <1>2, ConstantTypes DEF InHand
<1>6. \A c \in Claimers : Noted(c)
    BY <1>2, ConstantTypes DEF Noted
<1> QED BY <1>1, <1>4, <1>5, <1>6 DEF WinningsInv

LEMMA WinningsStep ==
    ASSUME OneTrader, WinningsInv, [Next]_sweepVars
    PROVE  WinningsInv'
<1>1. CASE Browse \/ CacheExpires \/ (\E m \in Markets : OrdersAge(m) \/ QuietExpires(m))
                  \/ UNCHANGED sweepVars
    BY <1>1, BrowsingWinnings
<1>2. CASE IndexerAnswers
    BY <1>2, IndexerWinnings
<1>3. CASE ScanEnds
    BY <1>3, ScanWinnings
<1>4. ASSUME NEW r \in Sweepers,
             TriggerBatchSweep(r) \/ ObtainPositions(r) \/ ReadBalance(r) \/ PayBatch(r) \/ EndSweep(r)
      PROVE  WinningsInv'
    BY <1>4, SweepStartsWinnings, ObtainWinnings, ReadBalanceWinnings, BatchWinnings, EndSweepWinnings
<1>5. ASSUME NEW r \in Sweepers, NEW m \in Markets,
             Examine(r, m) \/ PayOne(r, m) \/ RedeemFromClone(r, m) \/ RedeemFromOperator(r, m)
      PROVE  WinningsInv'
    BY <1>5, ExamineWinnings, OneWinnings, CloneWinnings, RedeemWinnings
<1>6. ASSUME NEW c \in Claimers, NEW m \in Markets,
             BeginClaim(c, m) \/ ClaimFromClone(c, m) \/ ClaimFromOperator(c, m) \/ ClaimPays(c, m)
      PROVE  WinningsInv'
    BY <1>6, BeginClaimWinnings, ClaimCloneWinnings, ClaimOperatorWinnings, ClaimPaysWinnings
<1> QED BY <1>1, <1>2, <1>3, <1>4, <1>5, <1>6 DEF Next, SweepStep, ClaimStep

(* Whatever the sweeps and claims that run at a time, in whatever order:   *)
(* what the trader received and what he still holds come to no more than   *)
(* he is due ("never mark swept, never pay from the operator",             *)
(* settlement-service.ts:1198).  The operator must hold nobody else's      *)
(* tokens and the clone none: otherwise the runs of the findings show it   *)
(* is false.                                                               *)
THEOREM NobodyPaidTwice ==
    ASSUME OneTrader
    PROVE  Spec => []NeverPaidTwice
<1>1. Init => WinningsInv
    BY WinningsInit
<1>2. WinningsInv /\ [Next]_sweepVars => WinningsInv'
    BY WinningsStep
<1>3. WinningsInv => NeverPaidTwice
    <2>1. ASSUME WinningsInv, NEW m \in Markets
          PROVE  paid[m] + tokens["user"][m] + tokens["clone"][m] =< Lots[m]
        <3>1. TypeOK /\ Winnings(m)
            BY <2>1 DEF WinningsInv
        <3>2. /\ tokens["user"][m] \in Nat /\ tokens["operator"][m] \in Nat /\ paid[m] \in Nat
              /\ Lots[m] \in Nat /\ tokens["clone"][m] = 0
              /\ paid[m] + tokens["user"][m] + tokens["operator"][m] =< Lots[m]
            BY <3>1, MarketTypes DEF Winnings
        <3> QED BY <3>2
    <2> QED BY <2>1 DEF NeverPaidTwice
<1> QED BY <1>1, <1>2, <1>3, PTL DEF Spec
=============================================================================
