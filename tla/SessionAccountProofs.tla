-------------------------- MODULE SessionAccountProofs --------------------------
(***************************************************************************)
(* Proofs about SessionAccount for every set of keys and pools, every      *)
(* grant, day length and cap.                                              *)
(***************************************************************************)
EXTENDS SessionAccount, TotalsTheorems

-----------------------------------------------------------------------------
(* Sums over a span of a log of trades.                                    *)

(* A trade's cost and time are natural numbers.                            *)
LEMMA TradeType ==
    ASSUME NEW x \in Trades
    PROVE  x.at \in Nat /\ x.cost \in Nat /\ x.cost \in 0..MaxCost /\ MaxCost \in Nat
<1>1. MaxCost \in Nat
    BY AccountAssumption
<1> QED BY <1>1 DEF Trades

(* The cost of a span is a natural number.                                 *)
LEMMA SpanType ==
    ASSUME NEW L \in Seq(Trades), NEW a \in Int, NEW b \in Int
    PROVE  /\ IsFiniteSet(Units([j \in Span(L, a, b) |-> L[j].cost]))
           /\ SpanCost(L, a, b) \in Nat
<1> DEFINE S == Span(L, a, b)
           f == [j \in S |-> L[j].cost]
<1>1. DOMAIN L = 1..Len(L) /\ Len(L) \in Nat
    OBVIOUS
<1>2. S \subseteq 1..Len(L)
    BY <1>1 DEF Span
<1>3. IsFiniteSet(S)
    <2>1. IsFiniteSet(1..Len(L))
        BY <1>1, FS_Interval
    <2> QED BY <1>2, <2>1, FS_Subset
<1>4. \A j \in S : L[j] \in Trades
    BY <1>1, <1>2
<1>5. f \in [S -> 0..MaxCost] /\ MaxCost \in Nat
    <2>1. MaxCost \in Nat
        BY AccountAssumption
    <2> QED BY <1>4, <2>1, TradeType
<1> HIDE DEF S, f
<1>6. IsFiniteSet(Units(f)) /\ Total(f) \in Nat
    BY <1>3, <1>5, TotalType
<1> QED BY <1>6 DEF SpanCost, S, f

(* A trade counts in the spans that contain it and in no other.            *)
LEMMA SpanAppend ==
    ASSUME NEW L \in Seq(Trades), NEW x \in Trades, NEW a \in Int, NEW b \in Int
    PROVE  SpanCost(Append(L, x), a, b)
             = SpanCost(L, a, b) + (IF a <= x.at /\ x.at < b THEN x.cost ELSE 0)
<1> DEFINE M == Append(L, x)
           n == Len(L) + 1
           f == [j \in Span(L, a, b) |-> L[j].cost]
           g == [j \in Span(M, a, b) |-> M[j].cost]
<1>1. /\ Len(L) \in Nat /\ DOMAIN L = 1..Len(L) /\ DOMAIN M = 1..n
      /\ n \notin DOMAIN L /\ DOMAIN M = DOMAIN L \cup {n}
    OBVIOUS
<1>2. M[n] = x /\ \A j \in DOMAIN L : M[j] = L[j]
    OBVIOUS
<1>3. Span(L, a, b) \subseteq DOMAIN L
    BY DEF Span
<1>4. x.cost \in Nat /\ SpanCost(L, a, b) \in Nat
    <2>1. x.cost \in Nat
        BY TradeType
    <2>2. SpanCost(L, a, b) \in Nat
        BY SpanType
    <2> QED BY <2>1, <2>2
<1>5. CASE a <= x.at /\ x.at < b
    <2>1. Span(M, a, b) = Span(L, a, b) \cup {n}
        BY <1>1, <1>2, <1>5 DEF Span
    <2>2. n \notin DOMAIN f
        BY <1>1, <1>3
    <2>3. DOMAIN g = DOMAIN f \cup {n}
        BY <2>1
    <2>4. \A j \in DOMAIN f : g[j] = f[j]
        BY <1>2, <1>3, <2>1
    <2>5. g[n] = x.cost
        BY <1>2, <2>1
    <2>6. IsFiniteSet(Units(f))
        BY SpanType
    <2> HIDE DEF f, g, n
    <2>7. Total(g) = Total(f) + g[n]
        BY <1>4, <2>2, <2>3, <2>4, <2>5, <2>6, TotalExtend
    <2> QED BY <1>5, <2>5, <2>7 DEF SpanCost, f, g
<1>6. CASE ~(a <= x.at /\ x.at < b)
    <2>1. Span(M, a, b) = Span(L, a, b)
        BY <1>1, <1>2, <1>6 DEF Span
    <2>2. g = f
        BY <1>2, <1>3, <2>1
    <2>3. SpanCost(M, a, b) = SpanCost(L, a, b)
        BY <2>2 DEF SpanCost
    <2> HIDE DEF M
    <2>4. SpanCost(M, a, b) = SpanCost(L, a, b) + 0
        BY <1>4, <2>3
    <2>5. (IF a <= x.at /\ x.at < b THEN x.cost ELSE 0) = 0
        BY <1>6
    <2>6. SpanCost(M, a, b)
            = SpanCost(L, a, b) + (IF a <= x.at /\ x.at < b THEN x.cost ELSE 0)
        BY ONLY <2>4, <2>5
    <2> QED BY ONLY <2>6 DEF M
<1> QED BY <1>5, <1>6

(* A part of a span costs no more than the span.                           *)
LEMMA SpanMonotone ==
    ASSUME NEW L \in Seq(Trades),
           NEW a \in Int, NEW b \in Int, NEW c \in Int, NEW d \in Int,
           Span(L, a, b) \subseteq Span(L, c, d)
    PROVE  SpanCost(L, a, b) <= SpanCost(L, c, d)
<1> DEFINE f == [j \in Span(L, a, b) |-> L[j].cost]
           g == [j \in Span(L, c, d) |-> L[j].cost]
<1>1. \A j \in DOMAIN L : L[j].cost \in Nat
    <2>1. \A j \in DOMAIN L : L[j] \in Trades
        OBVIOUS
    <2> QED BY <2>1, TradeType
<1>2. f \in [Span(L, a, b) -> Nat] /\ g \in [Span(L, c, d) -> Nat]
    BY <1>1 DEF Span
<1>3. \A j \in Span(L, a, b) : f[j] <= g[j]
    BY <1>1 DEF Span
<1>4. IsFiniteSet(Units(g))
    BY SpanType
<1> HIDE DEF f, g
<1>5. Total(f) <= Total(g)
    BY <1>2, <1>3, <1>4, TotalMonotone
<1> QED BY <1>5 DEF SpanCost, f, g

(* Two spans that cover a third cost at least as much together.            *)
LEMMA SpanCover ==
    ASSUME NEW L \in Seq(Trades), NEW a \in Int, NEW b \in Int,
           NEW c \in Int, NEW d \in Int, NEW p \in Int, NEW q \in Int,
           Span(L, a, b) \subseteq Span(L, c, d) \cup Span(L, p, q)
    PROVE  SpanCost(L, a, b) <= SpanCost(L, c, d) + SpanCost(L, p, q)
<1> DEFINE f == [j \in Span(L, a, b) |-> L[j].cost]
           g == [j \in Span(L, c, d) |-> L[j].cost]
           h == [j \in Span(L, p, q) |-> L[j].cost]
<1>1. IsFiniteSet(Units(f)) /\ IsFiniteSet(Units(g)) /\ IsFiniteSet(Units(h))
    BY SpanType
<1>2. Units(f) \subseteq Units(g) \cup Units(h)
    BY DEF Units
<1> HIDE DEF f, g, h
<1>3. /\ IsFiniteSet(Units(g) \cup Units(h))
      /\ Cardinality(Units(g) \cup Units(h))
           = Cardinality(Units(g)) + Cardinality(Units(h))
               - Cardinality(Units(g) \cap Units(h))
    BY <1>1, FS_Union
<1>4. Cardinality(Units(f)) <= Cardinality(Units(g) \cup Units(h))
    BY <1>2, <1>3, FS_Subset
<1>5. /\ Cardinality(Units(f)) \in Nat /\ Cardinality(Units(g)) \in Nat
      /\ Cardinality(Units(h)) \in Nat
    BY <1>1, FS_CardinalityType
<1>6. IsFiniteSet(Units(g) \cap Units(h))
    BY <1>1, FS_Intersection
<1>7. Cardinality(Units(g) \cap Units(h)) \in Nat
    BY <1>6, FS_CardinalityType
<1>8. Total(f) <= Total(g) + Total(h)
    BY <1>3, <1>4, <1>5, <1>7 DEF Total
<1> QED BY <1>8 DEF SpanCost, f, g, h

(* An empty span costs nothing.                                            *)
LEMMA SpanEmpty ==
    ASSUME NEW L, NEW a, NEW b, Span(L, a, b) = {}
    PROVE  SpanCost(L, a, b) = 0
<1>1. DOMAIN [j \in Span(L, a, b) |-> L[j].cost] = {}
    OBVIOUS
<1> QED BY <1>1, TotalEmpty DEF SpanCost
-----------------------------------------------------------------------------
(* The budget of one key, as a relation between its policy, its log and    *)
(* the time.                                                               *)

(* The count is exact; every trade lies before the end of the running day; *)
(* the Day before the last reset held at most one cap, and so no Day held  *)
(* more than two.                                                          *)
Kept(P, L, t) ==
    /\ \A j \in DOMAIN L : L[j].at <= t /\ L[j].at < P.lastSpendReset + Day
    /\ P.lastSpendReset <= t
    /\ P.spentToday = SpanCost(L, P.lastSpendReset, t + 1)
    /\ P.spentToday <= P.dailyVolumeCap
    /\ SpanCost(L, P.lastSpendReset - Day, P.lastSpendReset) <= P.dailyVolumeCap
    /\ \A u \in Int : SpanCost(L, u, u + Day) <= 2 * P.dailyVolumeCap

Booked(P, L, t) ==
    IF P.dailyVolumeCap < Unlimited
    THEN Kept(P, L, t)
    ELSE P.spentToday = 0

(* A fresh grant has an empty log.                                         *)
LEMMA FreshKept ==
    ASSUME NEW P \in Policies, NEW t \in Nat, P.spentToday = 0, P.lastSpendReset <= t
    PROVE  Booked(P, << >>, t)
<1>1. \A a, b : SpanCost(<< >>, a, b) = 0
    <2> TAKE a, b
    <2>1. Span(<< >>, a, b) = {}
        BY DEF Span
    <2> QED BY <2>1, SpanEmpty
<1>2. P.dailyVolumeCap \in Nat
    BY DEF Policies
<1>3. \A j \in DOMAIN << >> : FALSE
    OBVIOUS
<1> QED BY <1>1, <1>2, <1>3 DEF Booked, Kept

(* Time alone changes no sum.                                              *)
LEMMA TimeKept ==
    ASSUME NEW P \in Policies, NEW L \in Seq(Trades), NEW t \in Nat, Booked(P, L, t)
    PROVE  Booked(P, L, t + 1)
<1>1. CASE P.dailyVolumeCap < Unlimited
    <2>1. Kept(P, L, t)
        BY <1>1 DEF Booked
    <2>2. P.lastSpendReset \in Nat
        BY DEF Policies
    <2>3. \A j \in DOMAIN L : L[j].at \in Nat
        <3>1. \A j \in DOMAIN L : L[j] \in Trades
            OBVIOUS
        <3> QED BY <3>1, TradeType
    <2>4. \A j \in DOMAIN L : L[j].at <= t /\ L[j].at < t + 1 /\ L[j].at < t + 1 + 1
        BY <2>1, <2>3 DEF Kept
    <2>5. Span(L, P.lastSpendReset, t + 1) = Span(L, P.lastSpendReset, t + 1 + 1)
        BY <2>4 DEF Span
    <2>6. SpanCost(L, P.lastSpendReset, t + 1) = SpanCost(L, P.lastSpendReset, t + 1 + 1)
        BY <2>5 DEF SpanCost
    <2>7. /\ P.lastSpendReset <= t + 1
          /\ \A j \in DOMAIN L : L[j].at <= t + 1
        BY <2>1, <2>2, <2>3, <2>4 DEF Kept
    <2> QED BY <1>1, <2>1, <2>6, <2>7 DEF Booked, Kept
<1> QED BY <1>1 DEF Booked

(* The policy after a trade, as executeOrder computes it.                  *)
ChargedAt(P, c, t) ==
    IF P.dailyVolumeCap < Unlimited
    THEN IF t >= P.lastSpendReset + Day
         THEN [P EXCEPT !.spentToday = c, !.lastSpendReset = t]
         ELSE [P EXCEPT !.spentToday = P.spentToday + c]
    ELSE P

(* A trade the gate accepts keeps the budget, on a running day and on a    *)
(* new one.                                                                *)
LEMMA TradeKept ==
    ASSUME NEW P \in Policies, NEW L \in Seq(Trades), NEW t \in Nat, NEW c \in 0..MaxCost,
           Booked(P, L, t),
           P.dailyVolumeCap < Unlimited =>
             (IF t >= P.lastSpendReset + Day THEN 0 ELSE P.spentToday) + c <= P.dailyVolumeCap
    PROVE  Booked(ChargedAt(P, c, t), Append(L, [at |-> t, cost |-> c]), t)
<1> DEFINE x == [at |-> t, cost |-> c]
           M == Append(L, x)
           r == P.lastSpendReset
           cap == P.dailyVolumeCap
           Q == ChargedAt(P, c, t)
<1>1. CASE ~(P.dailyVolumeCap < Unlimited)
    BY <1>1 DEF Booked, ChargedAt
<1>2. CASE P.dailyVolumeCap < Unlimited
    <2>1. r \in Nat /\ cap \in Nat /\ P.spentToday \in Nat /\ c \in Nat
          /\ Day \in Nat /\ Day > 0
        BY AccountAssumption DEF Policies
    <2>2. Kept(P, L, t)
        BY <1>2 DEF Booked
    <2>3. x \in Trades
        BY DEF Trades
    <2>4. M \in Seq(Trades)
        BY <2>3
    <2>5. \A a, b \in Int : SpanCost(M, a, b)
             = SpanCost(L, a, b) + (IF a <= t /\ t < b THEN c ELSE 0)
        <3> TAKE a, b \in Int
        <3>1. SpanCost(M, a, b) = SpanCost(L, a, b) + (IF a <= x.at /\ x.at < b THEN x.cost ELSE 0)
            BY <2>3, SpanAppend
        <3> QED BY <3>1
    <2>6. \A a, b \in Int : SpanCost(L, a, b) \in Nat
        BY SpanType
    <2>7. \A j \in DOMAIN L : L[j].at \in Nat
        <3>1. \A j \in DOMAIN L : L[j] \in Trades
            OBVIOUS
        <3> QED BY <3>1, TradeType
    <2>8. \A j \in DOMAIN M : (j \in DOMAIN L /\ M[j] = L[j]) \/ M[j] = x
        OBVIOUS
    <2>9. r <= t /\ P.spentToday <= cap
        BY <2>2 DEF Kept
    <2>14. P.spentToday = SpanCost(L, r, t + 1)
        BY <2>2 DEF Kept
    <2>15. SpanCost(L, r - Day, r) <= cap
        BY <2>2 DEF Kept
    <2>12. \A u \in Int : SpanCost(L, u, u + Day) <= 2 * cap
        BY <2>2 DEF Kept
    <2>13. \A j \in DOMAIN L : L[j].at <= t /\ L[j].at < r + Day
        BY <2>2 DEF Kept
    <2> HIDE DEF M, Q, r, cap, x
    <2>10. CASE t >= r + Day
        <3>1. Q = [P EXCEPT !.spentToday = c, !.lastSpendReset = t]
            BY <1>2, <2>10 DEF ChargedAt, Q, r
        <3>2. Q.lastSpendReset = t /\ Q.spentToday = c /\ Q.dailyVolumeCap = cap
            BY <3>1 DEF Policies, cap
        <3>3. \A j \in DOMAIN M : M[j].at <= t /\ M[j].at < t + Day
            BY <2>1, <2>7, <2>8, <2>13, <2>10 DEF x
        <3>4. \A a \in Int : a >= r + Day => SpanCost(L, a, t + 1) = 0
            <4> TAKE a \in Int
            <4> HAVE a >= r + Day
            <4>1. Span(L, a, t + 1) = {}
                BY <2>1, <2>7, <2>13 DEF Span
            <4> QED BY <4>1, SpanEmpty
        <3>5. SpanCost(M, t, t + 1) = c
            <4>1. SpanCost(L, t, t + 1) = 0
                BY <2>1, <2>10, <3>4
            <4> QED BY <2>1, <2>5, <4>1
        <3>6. c <= cap
            BY <1>2, <2>1, <2>10 DEF r, cap
        <3>7. SpanCost(L, t - Day, t) <= cap
            <4>1. Span(L, t - Day, t) \subseteq Span(L, r, t + 1)
                BY <2>1, <2>7, <2>10 DEF Span
            <4>2. SpanCost(L, t - Day, t) <= SpanCost(L, r, t + 1)
                BY <2>1, <4>1, SpanMonotone
            <4>4. t - Day \in Int /\ t \in Int
                BY <2>1
            <4>3. SpanCost(L, t - Day, t) \in Nat
                BY <2>6, <4>4
            <4> QED BY <2>1, <2>9, <2>14, <4>2, <4>3
        <3>8. SpanCost(M, t - Day, t) <= cap
            <4>1. t - Day \in Int /\ t \in Int /\ ~(t < t)
                BY <2>1
            <4>2. SpanCost(M, t - Day, t) = SpanCost(L, t - Day, t) + 0
                BY <2>5, <4>1
            <4>3. SpanCost(L, t - Day, t) \in Nat
                BY <2>6, <4>1
            <4> QED BY <3>7, <4>2, <4>3
        <3>9. \A u \in Int : SpanCost(M, u, u + Day) <= 2 * cap
            <4> TAKE u \in Int
            <4>1. u + Day \in Int
                BY <2>1
            <4>2. CASE u <= t /\ t < u + Day
                <5>1. Span(L, u, u + Day) \subseteq Span(L, t - Day, t) \cup Span(L, t, t + 1)
                    BY <2>1, <2>7, <2>13, <4>2 DEF Span
                <5>2. SpanCost(L, t, t + 1) = 0
                    BY <2>1, <2>10, <3>4
                <5>3. SpanCost(L, u, u + Day)
                        <= SpanCost(L, t - Day, t) + SpanCost(L, t, t + 1)
                    BY <2>1, <4>1, <5>1, SpanCover
                <5>6. t - Day \in Int /\ t \in Int
                    BY <2>1
                <5>7. SpanCost(L, t - Day, t) \in Nat
                    BY <2>6, <5>6
                <5>8. SpanCost(L, u, u + Day) \in Nat
                    BY <2>6, <4>1
                <5>4. SpanCost(L, t - Day, t) \in Nat /\ SpanCost(L, u, u + Day) \in Nat
                    BY <5>7, <5>8
                <5>5. SpanCost(M, u, u + Day) = SpanCost(L, u, u + Day) + c
                    BY <2>5, <4>1, <4>2
                <5> QED BY <2>1, <3>6, <3>7, <5>2, <5>3, <5>4, <5>5
            <4>3. CASE ~(u <= t /\ t < u + Day)
                <5>1. SpanCost(M, u, u + Day) = SpanCost(L, u, u + Day) + 0
                    BY <2>5, <4>1, <4>3
                <5>2. SpanCost(L, u, u + Day) \in Nat
                    BY <2>6, <4>1
                <5>3. SpanCost(L, u, u + Day) <= 2 * cap
                    BY <2>12
                <5> QED BY <5>1, <5>2, <5>3
            <4> QED BY <4>2, <4>3
        <3>10. t <= t
            OBVIOUS
        <3>11. Kept(Q, M, t)
            BY <3>2, <3>3, <3>5, <3>6, <3>8, <3>9, <3>10 DEF Kept
        <3> QED BY <1>2, <3>2, <3>11 DEF Booked, Q, M, x, cap
    <2>11. CASE ~(t >= r + Day)
        <3>1. Q = [P EXCEPT !.spentToday = P.spentToday + c]
            BY <1>2, <2>11 DEF ChargedAt, Q, r
        <3>2. Q.lastSpendReset = r /\ Q.spentToday = P.spentToday + c /\ Q.dailyVolumeCap = cap
            BY <3>1 DEF Policies, cap, r
        <3>3. \A j \in DOMAIN M : M[j].at <= t /\ M[j].at < r + Day
            BY <2>1, <2>7, <2>8, <2>13, <2>11 DEF x
        <3>4. P.spentToday + c <= cap
            BY <1>2, <2>1, <2>11 DEF r, cap
        <3>5. SpanCost(M, r, t + 1) = P.spentToday + c
            <4>1. r \in Int /\ t + 1 \in Int /\ r <= t /\ t < t + 1
                BY <2>1, <2>9
            <4>2. SpanCost(M, r, t + 1) = SpanCost(L, r, t + 1) + c
                BY <2>5, <4>1
            <4> QED BY <2>14, <4>2
        <3>6. SpanCost(M, r - Day, r) <= cap
            <4>1. r - Day \in Int /\ r \in Int /\ ~(t < r)
                BY <2>1, <2>9
            <4>2. SpanCost(M, r - Day, r) = SpanCost(L, r - Day, r) + 0
                BY <2>5, <4>1
            <4>3. SpanCost(L, r - Day, r) \in Nat
                BY <2>6, <4>1
            <4> QED BY <2>15, <4>2, <4>3
        <3>7. \A u \in Int : SpanCost(M, u, u + Day) <= 2 * cap
            <4> TAKE u \in Int
            <4>1. u + Day \in Int /\ r - Day \in Int /\ t + 1 \in Int
                BY <2>1
            <4>2. CASE u <= t /\ t < u + Day
                <5>1. Span(L, u, u + Day) \subseteq Span(L, r - Day, r) \cup Span(L, r, t + 1)
                    BY <2>1, <2>7, <2>9, <2>13, <4>2 DEF Span
                <5>2. SpanCost(L, u, u + Day)
                        <= SpanCost(L, r - Day, r) + SpanCost(L, r, t + 1)
                    BY <2>1, <4>1, <5>1, SpanCover
                <5>6. r \in Int
                    BY <2>1
                <5>7. SpanCost(L, r - Day, r) \in Nat
                    BY <2>6, <4>1, <5>6
                <5>8. SpanCost(L, u, u + Day) \in Nat
                    BY <2>6, <4>1
                <5>9. SpanCost(L, r, t + 1) \in Nat
                    BY <2>6, <4>1, <5>6
                <5>3. SpanCost(L, r - Day, r) \in Nat /\ SpanCost(L, u, u + Day) \in Nat
                      /\ SpanCost(L, r, t + 1) \in Nat
                    BY <5>7, <5>8, <5>9
                <5>4. SpanCost(M, u, u + Day) = SpanCost(L, u, u + Day) + c
                    BY <2>5, <4>1, <4>2
                <5>5. SpanCost(L, r, t + 1) + c <= cap
                    BY <2>14, <3>4
                <5> QED BY <2>1, <2>15, <5>2, <5>3, <5>4, <5>5, SMTT(30)
            <4>3. CASE ~(u <= t /\ t < u + Day)
                <5>1. SpanCost(M, u, u + Day) = SpanCost(L, u, u + Day) + 0
                    BY <2>5, <4>1, <4>3
                <5>2. SpanCost(L, u, u + Day) \in Nat
                    BY <2>6, <4>1
                <5>3. SpanCost(L, u, u + Day) <= 2 * cap
                    BY <2>12
                <5> QED BY <5>1, <5>2, <5>3
            <4> QED BY <4>2, <4>3
        <3>8. Kept(Q, M, t)
            BY <2>9, <3>2, <3>3, <3>4, <3>5, <3>6, <3>7 DEF Kept
        <3> QED BY <1>2, <3>2, <3>8 DEF Booked, Q, M, x, cap
    <2> QED BY <2>10, <2>11
<1> QED BY <1>1, <1>2
-----------------------------------------------------------------------------
(* The inductive invariant and its preservation.                           *)

AllBooked == \A k \in Keys : Booked(policy[k], log[k], now)

AccountInv == TypeOK /\ AllBooked /\ NoStandingAllowance

(* The strengthening holds at first: no key has traded.                    *)
LEMMA AccountInit == Init => AccountInv
<1> SUFFICES ASSUME Init PROVE AccountInv
    OBVIOUS
<1>1. Funds \in Nat /\ Unlimited \in Nat
    BY AccountAssumption
<1>2. NoPolicy \in Policies /\ NoPolicy.spentToday = 0 /\ NoPolicy.lastSpendReset = 0
    BY <1>1 DEF NoPolicy, Policies
<1>3. TypeOK
    <2>1. << >> \in Seq(Trades)
        OBVIOUS
    <2> QED BY <1>1, <1>2, <2>1 DEF Init, TypeOK
<1>4. AllBooked
    <2>1. Booked(NoPolicy, << >>, 0)
        BY <1>2, FreshKept
    <2> QED BY <2>1 DEF Init, AllBooked
<1>5. NoStandingAllowance
    BY DEF Init, NoStandingAllowance
<1> QED BY <1>3, <1>4, <1>5 DEF AccountInv

(* A step that changes neither a policy nor a log nor the time.            *)
LEMMA PoliciesUntouched ==
    ASSUME AllBooked, UNCHANGED <<now, policy, log>>
    PROVE  AllBooked'
BY DEF AllBooked

(* authorizeSession starts an empty log and a budget of zero.              *)
LEMMA GrantStep ==
    ASSUME AccountInv, NEW k \in Keys, NEW g \in Grants, authorizeSession(k, g)
    PROVE  AccountInv'
<1> DEFINE P == [maxTradeSize |-> g.maxTradeSize, dailyVolumeCap |-> g.dailyVolumeCap,
                 spentToday |-> 0, lastSpendReset |-> now, expiresAt |-> now + g.durationSec,
                 isActive |-> TRUE]
<1>1. now \in Nat
    BY DEF AccountInv, TypeOK
<1>2. g \in [maxTradeSize : 0..Unlimited, dailyVolumeCap : 0..Unlimited, durationSec : Nat]
    BY AccountAssumption
<1>3. P \in Policies
    BY <1>1, <1>2 DEF Policies
<1>4. policy' = [policy EXCEPT ![k] = P] /\ log' = [log EXCEPT ![k] = << >>]
    BY DEF authorizeSession
<1>5. Booked(P, << >>, now)
    <2>1. P.spentToday = 0 /\ P.lastSpendReset <= now
        BY <1>1
    <2> QED BY <1>1, <1>3, <2>1, FreshKept
<1>6. UNCHANGED <<now, trust, allowance, ledger, call>>
    BY DEF authorizeSession
<1> HIDE DEF P
<1>7. TypeOK'
    <2>1. << >> \in Seq(Trades)
        OBVIOUS
    <2> QED BY <1>3, <1>4, <1>6, <2>1 DEF AccountInv, TypeOK
<1>8. AllBooked'
    BY <1>4, <1>5, <1>6 DEF AccountInv, AllBooked, TypeOK
<1>9. NoStandingAllowance'
    BY <1>6 DEF AccountInv, NoStandingAllowance
<1> QED BY <1>7, <1>8, <1>9 DEF AccountInv

(* revokeSession leaves the count and the log as they are.                 *)
LEMMA RevokeStep ==
    ASSUME AccountInv, NEW k \in Keys, revokeSession(k)
    PROVE  AccountInv'
<1> DEFINE P == [policy[k] EXCEPT !.isActive = FALSE]
<1>1. policy \in [Keys -> Policies]
    BY DEF AccountInv, TypeOK
<1>2. /\ P \in Policies /\ P.spentToday = policy[k].spentToday
      /\ P.dailyVolumeCap = policy[k].dailyVolumeCap
      /\ P.lastSpendReset = policy[k].lastSpendReset
    BY <1>1 DEF Policies
<1>3. policy' = [policy EXCEPT ![k] = P]
    BY DEF revokeSession
<1>4. UNCHANGED <<now, trust, allowance, ledger, call, log>>
    BY DEF revokeSession
<1> HIDE DEF P
<1>5. Booked(P, log[k], now)
    <2>1. Booked(policy[k], log[k], now)
        BY DEF AccountInv, AllBooked
    <2> QED BY <1>2, <2>1 DEF Booked, Kept
<1>6. TypeOK'
    BY <1>2, <1>3, <1>4 DEF AccountInv, TypeOK
<1>7. AllBooked'
    BY <1>1, <1>3, <1>4, <1>5 DEF AccountInv, AllBooked
<1>8. NoStandingAllowance'
    BY <1>4 DEF AccountInv, NoStandingAllowance
<1> QED BY <1>6, <1>7, <1>8 DEF AccountInv

(* The policy after a trade, in the two notations.                         *)
LEMMA ChargedIsChargedAt ==
    ASSUME TypeOK, NEW k \in Keys, NEW c \in 0..MaxCost
    PROVE  Charged(k, c) = ChargedAt(policy[k], c, now) /\ Charged(k, c) \in Policies
<1>1. policy[k] \in Policies /\ now \in Nat /\ c \in Nat
    <2>1. MaxCost \in Nat
        BY AccountAssumption
    <2> QED BY <2>1 DEF TypeOK
<1>2. policy[k].spentToday \in Nat
    BY <1>1 DEF Policies
<1>3. SpentNow(k) + c \in Nat
    BY <1>1, <1>2 DEF SpentNow
<1>4. Charged(k, c) \in Policies
    BY <1>1, <1>3 DEF Charged, Policies
<1>5. CASE ~Capped(k)
    <2>1. ~(policy[k].dailyVolumeCap < Unlimited)
        BY <1>5 DEF Capped
    <2>2. Charged(k, c) = policy[k]
        BY <1>5, Zenon DEF Charged
    <2>3. ChargedAt(policy[k], c, now) = policy[k]
        BY <2>1, Zenon DEF ChargedAt
    <2> QED BY <1>4, <2>2, <2>3
<1>6. CASE Capped(k) /\ DayOver(k)
    <2>1. SpentNow(k) + c = c
        BY <1>1, <1>6 DEF SpentNow
    <2>2. Charged(k, c) = [policy[k] EXCEPT !.spentToday = c, !.lastSpendReset = now]
        BY <1>6, <2>1 DEF Charged
    <2>3. policy[k].dailyVolumeCap < Unlimited /\ now >= policy[k].lastSpendReset + Day
        BY <1>6 DEF Capped, DayOver
    <2>4. ChargedAt(policy[k], c, now)
            = [policy[k] EXCEPT !.spentToday = c, !.lastSpendReset = now]
        BY <2>3, Zenon DEF ChargedAt
    <2> QED BY <1>4, <2>2, <2>4
<1>7. CASE Capped(k) /\ ~DayOver(k)
    <2>1. SpentNow(k) + c = policy[k].spentToday + c
        BY <1>7 DEF SpentNow
    <2>2. Charged(k, c) = [policy[k] EXCEPT !.spentToday = policy[k].spentToday + c,
                                            !.lastSpendReset = policy[k].lastSpendReset]
        BY <1>7, <2>1 DEF Charged
    <2>3. Charged(k, c) = [policy[k] EXCEPT !.spentToday = policy[k].spentToday + c]
        BY <1>1, <2>2 DEF Policies
    <2>4. policy[k].dailyVolumeCap < Unlimited /\ ~(now >= policy[k].lastSpendReset + Day)
        BY <1>7 DEF Capped, DayOver
    <2>5. ChargedAt(policy[k], c, now)
            = [policy[k] EXCEPT !.spentToday = policy[k].spentToday + c]
        BY <2>4, Zenon DEF ChargedAt
    <2> QED BY <1>4, <2>3, <2>5
<1> QED BY <1>4, <1>5, <1>6, <1>7

(* executeOrder books what it logs, and approves its pool only.            *)
LEMMA OrderStep ==
    ASSUME AccountInv, NEW k \in Keys, NEW p \in Pools, NEW c \in 0..MaxCost,
           OpenOrder(k, p, c)
    PROVE  AccountInv'
<1> DEFINE x == [at |-> now, cost |-> c]
           P == Charged(k, c)
<1>1. TypeOK
    BY DEF AccountInv
<1>2. c \in Nat /\ now \in Nat /\ x \in Trades
    <2>1. MaxCost \in Nat
        BY AccountAssumption
    <2> QED BY <1>1, <2>1 DEF TypeOK, Trades
<1>3. /\ policy' = [policy EXCEPT ![k] = P]
      /\ log' = [log EXCEPT ![k] = Append(log[k], x)]
      /\ call' = [pool |-> p, cost |-> c]
      /\ UNCHANGED <<now, trust>>
    BY DEF OpenOrder
<1>4. P \in Policies /\ P = ChargedAt(policy[k], c, now)
    BY <1>1, ChargedIsChargedAt
<1>5. Booked(P, Append(log[k], x), now)
    <2>1. policy[k] \in Policies /\ log[k] \in Seq(Trades) /\ Booked(policy[k], log[k], now)
        BY <1>1 DEF AccountInv, AllBooked, TypeOK
    <2>2. policy[k].dailyVolumeCap < Unlimited =>
            (IF now >= policy[k].lastSpendReset + Day THEN 0 ELSE policy[k].spentToday) + c
                <= policy[k].dailyVolumeCap
        BY DEF OpenOrder, Accepts, Capped, SpentNow, DayOver
    <2>3. Booked(ChargedAt(policy[k], c, now), Append(log[k], [at |-> now, cost |-> c]), now)
        BY <1>2, <2>1, <2>2, TradeKept
    <2> QED BY <1>4, <2>3
<1> HIDE DEF P, x
<1>6. AllBooked'
    BY <1>1, <1>3, <1>5 DEF AccountInv, AllBooked, TypeOK
<1>7. ledger' \in [wallet : Nat, account : Nat, pools : Nat, fees : Nat]
    <2> DEFINE s == IF ledger.account < c THEN c - ledger.account ELSE 0
    <2>1. /\ ledger \in [wallet : Nat, account : Nat, pools : Nat, fees : Nat]
          /\ ledger.account \in Nat /\ ledger.wallet \in Nat
        BY <1>1 DEF TypeOK
    <2>2. s \in Nat
        BY <1>2, <2>1
    <2>3. s <= ledger.wallet
          /\ ledger' = [ledger EXCEPT !.wallet = @ - s, !.account = @ + s]
        BY DEF OpenOrder
    <2> HIDE DEF s
    <2>4. ledger.wallet - s \in Nat /\ ledger.account + s \in Nat
        BY <2>1, <2>2, <2>3
    <2> QED BY <2>1, <2>3, <2>4
<1>8. allowance \in [Pools -> Nat]
      /\ allowance' = [allowance EXCEPT ![p] = IF allowance[p] < c THEN c ELSE allowance[p]]
    BY <1>1 DEF TypeOK, OpenOrder
<1>9. TypeOK'
    <2>1. log' \in [Keys -> Seq(Trades)]
        <3>1. log \in [Keys -> Seq(Trades)]
            BY <1>1 DEF TypeOK
        <3>2. Append(log[k], x) \in Seq(Trades)
            BY <1>2, <3>1
        <3> QED BY <1>3, <3>1, <3>2
    <2>2. policy' \in [Keys -> Policies]
        BY <1>1, <1>3, <1>4 DEF TypeOK
    <2>3. allowance' \in [Pools -> Nat]
        BY <1>2, <1>8
    <2> QED BY <1>1, <1>2, <1>3, <1>7, <2>1, <2>2, <2>3 DEF TypeOK
<1>10. NoStandingAllowance'
    <2>1. \A q \in Pools : ~(allowance[q] > 0)
        BY DEF AccountInv, NoStandingAllowance, OpenOrder
    <2>2. \A q \in Pools : allowance[q] \in Nat
        BY <1>8
    <2>3. \A q \in Pools : allowance'[q] > 0 => q = p /\ allowance'[q] <= c
        BY <1>2, <1>8, <2>1, <2>2
    <2>4. call' # None
        BY <1>2, <1>3, AccountAssumption
    <2>5. call'.pool = p /\ call'.cost = c
        BY <1>3
    <2> QED BY <2>3, <2>4, <2>5 DEF NoStandingAllowance
<1> QED BY <1>6, <1>9, <1>10 DEF AccountInv

(* A pool only ever uses an allowance up.                                  *)
LEMMA DrawStep ==
    ASSUME AccountInv, NEW p \in Pools, NEW a \in 1..MaxCost, PoolDraws(p, a)
    PROVE  AccountInv'
<1>1. UNCHANGED <<now, policy, trust, call, log>>
    BY DEF PoolDraws
<1>2. TypeOK /\ a \in Nat /\ a > 0
    <2>1. MaxCost \in Nat
        BY AccountAssumption
    <2> QED BY <2>1 DEF AccountInv
<1>3. allowance \in [Pools -> Nat] /\ allowance[p] \in Nat /\ allowance[p] - a \in Nat
      /\ allowance' = [allowance EXCEPT ![p] = allowance[p] - a]
    <2>1. allowance \in [Pools -> Nat] /\ a <= allowance[p]
        BY <1>2 DEF TypeOK, PoolDraws
    <2>2. allowance[p] - a \in Nat
        BY <1>2, <2>1
    <2> QED BY <2>1, <2>2 DEF PoolDraws
<1>4. ledger' \in [wallet : Nat, account : Nat, pools : Nat, fees : Nat]
    <2>1. /\ ledger \in [wallet : Nat, account : Nat, pools : Nat, fees : Nat]
          /\ ledger.account \in Nat /\ ledger.pools \in Nat
        BY <1>2 DEF TypeOK
    <2>2. a <= ledger.account
          /\ ledger' = [ledger EXCEPT !.account = @ - a, !.pools = @ + a]
        BY DEF PoolDraws
    <2>3. ledger.account - a \in Nat /\ ledger.pools + a \in Nat
        BY <1>2, <2>1, <2>2
    <2> QED BY <2>1, <2>2, <2>3
<1>5. TypeOK'
    BY <1>1, <1>2, <1>3, <1>4 DEF TypeOK
<1>6. NoStandingAllowance'
    <2>1. \A q \in Pools : allowance'[q] <= allowance[q] /\ allowance[q] \in Nat
                           /\ allowance'[q] \in Nat
        BY <1>2, <1>3
    <2> SUFFICES ASSUME NEW q \in Pools, allowance'[q] > 0
                 PROVE  call # None /\ call.pool = q /\ allowance'[q] <= call.cost
        BY <1>1 DEF NoStandingAllowance
    <2>2. allowance[q] > 0
        BY <2>1
    <2>3. call # None /\ call.pool = q /\ allowance[q] <= call.cost
        BY <2>2 DEF AccountInv, NoStandingAllowance
    <2>4. call.cost \in Nat
        BY <1>2, <2>3 DEF TypeOK
    <2> QED BY <2>1, <2>3, <2>4
<1> QED BY <1>1, <1>5, <1>6, PoliciesUntouched DEF AccountInv

(* The end of executeOrder takes the one allowance there is.               *)
LEMMA CloseStep ==
    ASSUME AccountInv, CloseOrder
    PROVE  AccountInv'
<1>1. UNCHANGED <<now, policy, trust, ledger, log>> /\ call' = None
      /\ allowance' = [allowance EXCEPT ![call.pool] = 0] /\ call # None
    BY DEF CloseOrder
<1>2. TypeOK'
    BY <1>1 DEF AccountInv, TypeOK
<1>3. NoStandingAllowance'
    <2> SUFFICES ASSUME NEW q \in Pools PROVE ~(allowance'[q] > 0)
        BY DEF NoStandingAllowance
    <2>1. allowance \in [Pools -> Nat]
        BY DEF AccountInv, TypeOK
    <2>2. CASE q = call.pool
        BY <1>1, <2>1, <2>2
    <2>3. CASE q # call.pool
        BY <1>1, <2>1, <2>3 DEF AccountInv, NoStandingAllowance
    <2> QED BY <2>2, <2>3
<1> QED BY <1>1, <1>2, <1>3, PoliciesUntouched DEF AccountInv

(* Proceeds touch neither policies nor allowances.                         *)
LEMMA DeliverStep ==
    ASSUME AccountInv, NEW a \in 1..MaxCost, Deliver(a)
    PROVE  AccountInv'
<1>1. UNCHANGED <<now, policy, trust, allowance, call, log>>
    BY DEF Deliver
<1>2. /\ ledger \in [wallet : Nat, account : Nat, pools : Nat, fees : Nat]
      /\ ledger.account \in Nat /\ ledger.pools \in Nat
    BY DEF AccountInv, TypeOK
<1>3. a \in Nat
    <2>1. MaxCost \in Nat
        BY AccountAssumption
    <2> QED BY <2>1
<1>4. a <= ledger.pools /\ ledger' = [ledger EXCEPT !.account = @ + a, !.pools = @ - a]
    BY DEF Deliver
<1>5. ledger.account + a \in Nat /\ ledger.pools - a \in Nat
    BY <1>2, <1>3, <1>4
<1>6. TypeOK'
    <2>1. ledger' \in [wallet : Nat, account : Nat, pools : Nat, fees : Nat]
        BY <1>2, <1>4, <1>5
    <2> QED BY <1>1, <2>1 DEF AccountInv, TypeOK
<1>7. NoStandingAllowance'
    BY <1>1 DEF AccountInv, NoStandingAllowance
<1> QED BY <1>1, <1>6, <1>7, PoliciesUntouched DEF AccountInv

(* A withdrawal touches neither policies nor allowances, and leaves no     *)
(* negative balance.                                                       *)
LEMMA WithdrawStep ==
    ASSUME AccountInv, NEW a \in 1..(Funds + Fee), withdraw(a)
    PROVE  AccountInv'
<1> DEFINE fee == IF FeeRecipient THEN Fee ELSE 0
<1>1. UNCHANGED <<now, policy, trust, allowance, call, log>>
    BY DEF withdraw
<1>2. /\ ledger \in [wallet : Nat, account : Nat, pools : Nat, fees : Nat]
      /\ ledger.account \in Nat /\ ledger.wallet \in Nat /\ ledger.fees \in Nat
    BY DEF AccountInv, TypeOK
<1>3. a \in Nat /\ Fee \in Nat /\ fee \in Nat
    <2>1. Funds \in Nat /\ Fee \in Nat
        BY AccountAssumption
    <2> QED BY <2>1
<1>4. /\ a >= Fee
      /\ fee + (a - Fee) <= ledger.account
      /\ ledger' = [ledger EXCEPT !.account = @ - (fee + (a - Fee)), !.wallet = @ + (a - Fee),
                                  !.fees = @ + fee]
    BY DEF withdraw
<1> HIDE DEF fee
<1>5. /\ ledger.account - (fee + (a - Fee)) \in Nat
      /\ ledger.wallet + (a - Fee) \in Nat
      /\ ledger.fees + fee \in Nat
    BY <1>2, <1>3, <1>4
<1>6. TypeOK'
    <2>1. ledger' \in [wallet : Nat, account : Nat, pools : Nat, fees : Nat]
        BY <1>2, <1>4, <1>5
    <2> QED BY <1>1, <2>1 DEF AccountInv, TypeOK
<1>7. NoStandingAllowance'
    BY <1>1 DEF AccountInv, NoStandingAllowance
<1> QED BY <1>1, <1>6, <1>7, PoliciesUntouched DEF AccountInv

(* Changes of the allow-lists touch neither policies nor allowances.       *)
LEMMA TrustStep ==
    ASSUME AccountInv, ChangeTrust
    PROVE  AccountInv'
<1>1. UNCHANGED <<now, policy, allowance, ledger, call, log>>
    BY DEF ChangeTrust
<1>2. trust' \in [registry : BOOLEAN, approved : SUBSET Pools, authorized : SUBSET Pools]
    <2> DEFINE T == [registry : BOOLEAN, approved : SUBSET Pools, authorized : SUBSET Pools]
    <2>1. trust \in T
        BY DEF AccountInv, TypeOK
    <2>2. ASSUME NEW p \in Pools, trust' = [trust EXCEPT !.authorized = @ \cup {p}]
          PROVE  trust' \in T
        BY <2>1, <2>2
    <2>3. ASSUME NEW p \in Pools, trust' = [trust EXCEPT !.authorized = @ \ {p}]
          PROVE  trust' \in T
        BY <2>1, <2>3
    <2>4. ASSUME NEW p \in Pools, trust' = [trust EXCEPT !.approved = @ \cup {p}]
          PROVE  trust' \in T
        BY <2>1, <2>4
    <2>5. ASSUME NEW p \in Pools, trust' = [trust EXCEPT !.approved = @ \ {p}]
          PROVE  trust' \in T
        BY <2>1, <2>5
    <2>6. ASSUME NEW b \in BOOLEAN, trust' = [trust EXCEPT !.registry = b]
          PROVE  trust' \in T
        BY <2>1, <2>6
    <2> HIDE DEF T
    <2>7. trust' \in T
        BY <2>2, <2>3, <2>4, <2>5, <2>6 DEF ChangeTrust
    <2> QED BY <2>7 DEF T
<1>3. TypeOK'
    BY <1>1, <1>2 DEF AccountInv, TypeOK
<1>4. NoStandingAllowance'
    BY <1>1 DEF AccountInv, NoStandingAllowance
<1> QED BY <1>1, <1>3, <1>4, PoliciesUntouched DEF AccountInv

(* Time passes: no trade is made, and the day of the count only gets       *)
(* longer.                                                                 *)
LEMMA TickStep ==
    ASSUME AccountInv, Tick
    PROVE  AccountInv'
<1>1. UNCHANGED <<policy, trust, allowance, ledger, call, log>> /\ now' = now + 1
    BY DEF Tick
<1>2. TypeOK'
    <2>1. now + 1 \in Nat
        BY DEF AccountInv, TypeOK
    <2> QED BY <1>1, <2>1 DEF AccountInv, TypeOK
<1>3. AllBooked'
    <2> SUFFICES ASSUME NEW k \in Keys PROVE Booked(policy[k], log[k], now + 1)
        BY <1>1 DEF AllBooked
    <2>1. policy[k] \in Policies /\ log[k] \in Seq(Trades) /\ now \in Nat
        BY DEF AccountInv, TypeOK
    <2>2. Booked(policy[k], log[k], now)
        BY DEF AccountInv, AllBooked
    <2> QED BY <2>1, <2>2, TimeKept
<1>4. NoStandingAllowance'
    BY <1>1 DEF AccountInv, NoStandingAllowance
<1> QED BY <1>2, <1>3, <1>4 DEF AccountInv

(* Every step keeps the strengthening.                                     *)
LEMMA AccountStep == AccountInv /\ [Next]_accountVars => AccountInv'
<1> SUFFICES ASSUME AccountInv, [Next]_accountVars PROVE AccountInv'
    OBVIOUS
<1>1. ASSUME NEW k \in Keys, NEW g \in Grants, authorizeSession(k, g) PROVE AccountInv'
    BY <1>1, GrantStep
<1>2. ASSUME NEW k \in Keys, revokeSession(k) PROVE AccountInv'
    BY <1>2, RevokeStep
<1>3. CASE ChangeTrust
    BY <1>3, TrustStep
<1>4. ASSUME NEW k \in Keys, NEW p \in Pools, NEW c \in 0..MaxCost, OpenOrder(k, p, c)
      PROVE  AccountInv'
    BY <1>4, OrderStep
<1>5. ASSUME NEW p \in Pools, NEW a \in 1..MaxCost, PoolDraws(p, a) PROVE AccountInv'
    BY <1>5, DrawStep
<1>6. CASE CloseOrder
    BY <1>6, CloseStep
<1>7. ASSUME NEW a \in 1..MaxCost, Deliver(a) PROVE AccountInv'
    BY <1>7, DeliverStep
<1>8. ASSUME NEW a \in 1..(Funds + Fee), withdraw(a) PROVE AccountInv'
    BY <1>8, WithdrawStep
<1>9. CASE Tick
    BY <1>9, TickStep
<1>10. CASE UNCHANGED accountVars
    BY <1>10 DEF accountVars, AccountInv, TypeOK, AllBooked, NoStandingAllowance
<1> QED BY <1>1, <1>2, <1>3, <1>4, <1>5, <1>6, <1>7, <1>8, <1>9, <1>10 DEF Next

(* The strengthening is an invariant of the account: types, exact counts,  *)
(* the two-budget bound and transient allowances together.                 *)
THEOREM AccountInvariant == Spec => []AccountInv
BY AccountInit, AccountStep, PTL DEF Spec
-----------------------------------------------------------------------------
(* The properties.                                                         *)

(* Every variable keeps its type.                                          *)
THEOREM AccountTypeCorrect == Spec => []TypeOK
<1>1. AccountInv => TypeOK
    BY DEF AccountInv
<1> QED BY <1>1, AccountInvariant, PTL

(* The spend count of a capped key is exact and within its cap.            *)
THEOREM BudgetIsExact == Spec => []BudgetExact
<1>1. AccountInv => BudgetExact
    BY DEF AccountInv, AllBooked, Booked, Kept, BudgetExact, Capped, TradedIn
<1> QED BY <1>1, AccountInvariant, PTL

(* No span of a day holds more than two caps of trades.                    *)
THEOREM AtMostTwoBudgets == Spec => []TwoBudgetsPerDay
<1>1. AccountInv => TwoBudgetsPerDay
    <2> SUFFICES ASSUME AccountInv, NEW k \in Keys, Capped(k), NEW t \in 0..now
                 PROVE  TradedIn(k, t, t + Day) <= 2 * policy[k].dailyVolumeCap
        BY DEF TwoBudgetsPerDay
    <2>1. Kept(policy[k], log[k], now)
        BY DEF AccountInv, AllBooked, Booked, Capped
    <2>2. t \in Int
        OBVIOUS
    <2> QED BY <2>1, <2>2 DEF Kept, TradedIn
<1> QED BY <1>1, AccountInvariant, PTL

(* Outside an order no pool has an allowance over the account.             *)
THEOREM AllowancesAreTransient == Spec => []NoStandingAllowance
<1>1. AccountInv => NoStandingAllowance
    BY DEF AccountInv
<1> QED BY <1>1, AccountInvariant, PTL

(* What getSession shows is what executeOrder accepts.                     *)
THEOREM ViewIsHonest == Spec => []ViewMatchesGate
<1>1. AccountInv => ViewMatchesGate
    <2> SUFFICES ASSUME AccountInv, NEW k \in Keys, NEW c \in 0..MaxCost
                 PROVE  Accepts(k, c) <=> /\ SessionView(k).active
                                          /\ c <= policy[k].maxTradeSize
                                          /\ c <= SessionView(k).remaining
        BY DEF ViewMatchesGate
    <2> DEFINE cap == policy[k].dailyVolumeCap
               size == policy[k].maxTradeSize
    <2>1. MaxCost \in Nat /\ Unlimited \in Nat /\ MaxCost <= Unlimited
        BY AccountAssumption
    <2>2. policy[k] \in Policies
        BY DEF AccountInv, TypeOK
    <2>3. cap \in Nat /\ cap <= Unlimited /\ size \in Nat /\ size <= Unlimited
          /\ policy[k].spentToday \in Nat
        BY <2>1, <2>2 DEF Policies
    <2>4. c \in Nat /\ c <= Unlimited
        BY <2>1
    <2>5. SpentNow(k) \in Nat
        BY <2>3 DEF SpentNow
    <2>6. (size < Unlimited => c <= size) <=> c <= size
        BY <2>1, <2>3, <2>4
    <2>7. SessionView(k).active <=> policy[k].isActive /\ now <= policy[k].expiresAt
        BY DEF SessionView
    <2>8. SessionView(k).remaining = IF cap > SpentNow(k) THEN cap - SpentNow(k) ELSE 0
        BY DEF SessionView
    <2>9. CASE Capped(k)
        <3>1. SpentNow(k) <= cap
            <4>1. Kept(policy[k], log[k], now)
                BY <2>9 DEF AccountInv, AllBooked, Booked, Capped
            <4> QED BY <2>3, <4>1 DEF Kept, SpentNow
        <3>2. SpentNow(k) + c <= cap <=> c <= SessionView(k).remaining
            BY <2>3, <2>4, <2>5, <2>8, <3>1
        <3> QED BY <2>6, <2>7, <2>9, <3>2 DEF Accepts
    <2>10. CASE ~Capped(k)
        <3>1. cap = Unlimited
            BY <2>1, <2>3, <2>10 DEF Capped
        <3>2. policy[k].spentToday = 0
            BY <2>10 DEF AccountInv, AllBooked, Booked, Capped
        <3>3. SpentNow(k) = 0
            BY <3>2 DEF SpentNow
        <3>4. c <= SessionView(k).remaining
            BY <2>1, <2>4, <2>8, <3>1, <3>3
        <3> QED BY <2>6, <2>7, <2>10, <3>4 DEF Accepts
    <2> QED BY <2>9, <2>10
<1> QED BY <1>1, AccountInvariant, PTL

-----------------------------------------------------------------------------
(* Where the owner's funds go.  That a draw is one of a trusted pool needs *)
(* that trust cannot change while an order is calling out.                 *)
CallTrusted == call # None => isPoolAuthorized(call.pool)

(* Trust is checked before the call, and only changed between calls.       *)
LEMMA TrustedStep ==
    ASSUME TypeOK, CallTrusted, [Next]_accountVars
    PROVE  CallTrusted'
<1>1. ASSUME NEW k \in Keys, NEW p \in Pools, NEW c \in 0..MaxCost, OpenOrder(k, p, c)
      PROVE  CallTrusted'
    <2>1. call' = [pool |-> p, cost |-> c] /\ trust' = trust /\ isPoolAuthorized(p)
        BY <1>1 DEF OpenOrder
    <2> QED BY <2>1 DEF CallTrusted, isPoolAuthorized
<1>2. CASE call' = None
    BY <1>2 DEF CallTrusted
<1>3. CASE call' = call /\ trust' = trust
    BY <1>3 DEF CallTrusted, isPoolAuthorized
<1>4. ASSUME call' # None,
             \A k \in Keys, p \in Pools, c \in 0..MaxCost : ~OpenOrder(k, p, c)
      PROVE  call' = call /\ trust' = trust
    <2>1. ASSUME NEW k \in Keys, NEW g \in Grants, authorizeSession(k, g)
          PROVE  UNCHANGED <<call, trust>>
        BY <2>1 DEF authorizeSession
    <2>2. ASSUME NEW k \in Keys, revokeSession(k) PROVE UNCHANGED <<call, trust>>
        BY <2>2 DEF revokeSession
    <2>3. ~ChangeTrust /\ ~CloseOrder
        BY <1>4 DEF ChangeTrust, CloseOrder
    <2>4. ASSUME NEW p \in Pools, NEW a \in 1..MaxCost, PoolDraws(p, a)
          PROVE  UNCHANGED <<call, trust>>
        BY <2>4 DEF PoolDraws
    <2>5. ASSUME NEW a \in 1..MaxCost, Deliver(a) PROVE UNCHANGED <<call, trust>>
        BY <2>5 DEF Deliver
    <2>6. ASSUME NEW a \in 1..(Funds + Fee), withdraw(a) PROVE UNCHANGED <<call, trust>>
        BY <2>6 DEF withdraw
    <2>7. CASE Tick
        BY <2>7 DEF Tick
    <2>8. CASE UNCHANGED accountVars
        BY <2>8 DEF accountVars
    <2> QED BY <1>4, <2>1, <2>2, <2>3, <2>4, <2>5, <2>6, <2>7, <2>8 DEF Next
<1> QED BY <1>1, <1>2, <1>3, <1>4

(* What a step may take from the owner, his wallet and his account         *)
(* together.                                                               *)
Spends ==
    LET own == ledger.wallet + ledger.account IN
    own' < own => \/ ledger'.fees = ledger.fees + (own - own')
                  \/ /\ call # None
                     /\ isPoolAuthorized(call.pool)
                     /\ own - own' <= call.cost

(* An order moves a shortfall from the wallet to the account.              *)
LEMMA ShortfallStep ==
    ASSUME AccountInv, NEW k \in Keys, NEW p \in Pools, NEW c \in 0..MaxCost,
           OpenOrder(k, p, c)
    PROVE  Spends
<1> DEFINE s == IF ledger.account < c THEN c - ledger.account ELSE 0
<1>1. /\ ledger \in [wallet : Nat, account : Nat, pools : Nat, fees : Nat]
      /\ ledger.wallet \in Nat /\ ledger.account \in Nat
    BY DEF AccountInv, TypeOK
<1>2. c \in Nat
    <2>1. MaxCost \in Nat
        BY AccountAssumption
    <2> QED BY <2>1
<1>3. s \in Nat
    BY <1>1, <1>2
<1>4. ledger' = [ledger EXCEPT !.wallet = @ - s, !.account = @ + s]
    BY DEF OpenOrder
<1> HIDE DEF s
<1>5. ledger'.wallet = ledger.wallet - s /\ ledger'.account = ledger.account + s
    BY <1>1, <1>4
<1>6. ~(ledger'.wallet + ledger'.account < ledger.wallet + ledger.account)
    BY <1>1, <1>3, <1>5
<1> QED BY <1>6 DEF Spends

(* A pool that draws is the one of the running order, within its cost.     *)
LEMMA DrawSpends ==
    ASSUME AccountInv, CallTrusted, NEW p \in Pools, NEW a \in 1..MaxCost, PoolDraws(p, a)
    PROVE  Spends
<1>1. /\ ledger \in [wallet : Nat, account : Nat, pools : Nat, fees : Nat]
      /\ ledger.wallet \in Nat /\ ledger.account \in Nat
    BY DEF AccountInv, TypeOK
<1>2. a \in Nat /\ a > 0
    <2>1. MaxCost \in Nat
        BY AccountAssumption
    <2> QED BY <2>1
<1>3. a <= allowance[p] /\ allowance[p] \in Nat
    BY DEF AccountInv, TypeOK, PoolDraws
<1>4. call # None /\ allowance[p] <= call.cost
    BY <1>2, <1>3 DEF AccountInv, NoStandingAllowance
<1>5. call.cost \in Nat
    BY <1>4 DEF AccountInv, TypeOK
<1>6. ledger'.wallet = ledger.wallet /\ ledger'.account = ledger.account - a
    BY <1>1 DEF PoolDraws
<1>7. (ledger.wallet + ledger.account) - (ledger'.wallet + ledger'.account) <= call.cost
    BY <1>1, <1>2, <1>3, <1>4, <1>5, <1>6
<1>8. isPoolAuthorized(call.pool)
    BY <1>4 DEF CallTrusted
<1> QED BY <1>4, <1>7, <1>8 DEF Spends

(* A withdrawal costs its fee.                                             *)
LEMMA WithdrawSpends ==
    ASSUME AccountInv, NEW a \in 1..(Funds + Fee), withdraw(a)
    PROVE  Spends
<1> DEFINE fee == IF FeeRecipient THEN Fee ELSE 0
<1>1. /\ ledger \in [wallet : Nat, account : Nat, pools : Nat, fees : Nat]
      /\ ledger.wallet \in Nat /\ ledger.account \in Nat /\ ledger.fees \in Nat
    BY DEF AccountInv, TypeOK
<1>2. a \in Nat /\ Fee \in Nat /\ fee \in Nat
    <2>1. Funds \in Nat /\ Fee \in Nat
        BY AccountAssumption
    <2> QED BY <2>1
<1>3. ledger' = [ledger EXCEPT !.account = @ - (fee + (a - Fee)), !.wallet = @ + (a - Fee),
                               !.fees = @ + fee]
    BY DEF withdraw
<1> HIDE DEF fee
<1>4. /\ ledger'.wallet = ledger.wallet + (a - Fee)
      /\ ledger'.account = ledger.account - (fee + (a - Fee))
      /\ ledger'.fees = ledger.fees + fee
    BY <1>1, <1>3
<1>5. (ledger.wallet + ledger.account) - (ledger'.wallet + ledger'.account) = fee
    BY <1>1, <1>2, <1>4
<1>6. ledger'.fees
        = ledger.fees + ((ledger.wallet + ledger.account) - (ledger'.wallet + ledger'.account))
    BY <1>4, <1>5
<1> QED BY <1>6 DEF Spends

(* Proceeds only add to what the owner has.                                *)
LEMMA DeliverSpends ==
    ASSUME AccountInv, NEW a \in 1..MaxCost, Deliver(a)
    PROVE  Spends
<1>1. /\ ledger \in [wallet : Nat, account : Nat, pools : Nat, fees : Nat]
      /\ ledger.wallet \in Nat /\ ledger.account \in Nat
    BY DEF AccountInv, TypeOK
<1>2. a \in Nat
    <2>1. MaxCost \in Nat
        BY AccountAssumption
    <2> QED BY <2>1
<1>3. ledger'.wallet = ledger.wallet /\ ledger'.account = ledger.account + a
    BY <1>1 DEF Deliver
<1>4. ~(ledger'.wallet + ledger'.account < ledger.wallet + ledger.account)
    BY <1>1, <1>2, <1>3
<1> QED BY <1>4 DEF Spends

(* The other steps leave the ledger alone.                                 *)
LEMMA SpendsStep ==
    ASSUME AccountInv, CallTrusted, [Next]_accountVars
    PROVE  Spends
<1>1. CASE ledger' = ledger
    <2>1. ledger.wallet + ledger.account \in Nat
        BY DEF AccountInv, TypeOK
    <2>2. ~(ledger'.wallet + ledger'.account < ledger.wallet + ledger.account)
        BY <1>1, <2>1
    <2> QED BY <2>2 DEF Spends
<1>2. ASSUME NEW k \in Keys, NEW g \in Grants, authorizeSession(k, g) PROVE ledger' = ledger
    BY <1>2 DEF authorizeSession
<1>3. ASSUME NEW k \in Keys, revokeSession(k) PROVE ledger' = ledger
    BY <1>3 DEF revokeSession
<1>4. ChangeTrust \/ CloseOrder \/ Tick \/ UNCHANGED accountVars => ledger' = ledger
    BY DEF ChangeTrust, CloseOrder, Tick, accountVars
<1> QED BY <1>1, <1>2, <1>3, <1>4, ShortfallStep, DrawSpends, WithdrawSpends, DeliverSpends
        DEF Next

(* Only the fee of a withdrawal and the draws of a trusted pool, up to the *)
(* cost of its running order, ever leave the owner's wallet and account.   *)
THEOREM FundsAreSafe == Spec => FundsLeaveOnlyByOrders
<1>1. Init => CallTrusted
    BY DEF Init, CallTrusted
<1>2. AccountInv /\ CallTrusted /\ [Next]_accountVars => CallTrusted'
    BY TrustedStep DEF AccountInv
<1>3. Spec => []CallTrusted
    BY <1>1, <1>2, AccountInvariant, PTL DEF Spec
<1>4. AccountInv /\ CallTrusted /\ [Next]_accountVars => [Spends]_accountVars
    BY SpendsStep
<1>5. Spec => [][Spends]_accountVars
    BY <1>3, <1>4, AccountInvariant, PTL DEF Spec
<1> QED BY <1>5 DEF FundsLeaveOnlyByOrders, Spends
=============================================================================
