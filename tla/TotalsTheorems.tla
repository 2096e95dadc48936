----------------------------- MODULE TotalsTheorems -----------------------------
(* What the proofs of the other modules need to know about Total.          *)
EXTENDS Totals, Integers, FiniteSetTheorems, TLAPS

(* One argument's units are as many as its value.                          *)
LEMMA BlockSize ==
    ASSUME NEW x, NEW n \in Nat
    PROVE  IsFiniteSet({x} \X (1..n)) /\ Cardinality({x} \X (1..n)) = n
<1>1. IsFiniteSet(1..n) /\ Cardinality(1..n) = n
    BY FS_Interval
<1>2. IsFiniteSet({x}) /\ Cardinality({x}) = 1
    BY FS_Singleton
<1>3. /\ IsFiniteSet({x} \X (1..n))
      /\ Cardinality({x} \X (1..n)) = Cardinality({x}) * Cardinality(1..n)
    BY <1>1, <1>2, FS_Product
<1>4. 1 * n = n
    OBVIOUS
<1> QED BY <1>1, <1>2, <1>3, <1>4

(* Adding an argument to the domain adds its value to the sum.             *)
LEMMA TotalExtend ==
    ASSUME NEW f, NEW g, NEW e,
           e \notin DOMAIN f,
           DOMAIN g = DOMAIN f \cup {e},
           \A x \in DOMAIN f : g[x] = f[x],
           g[e] \in Nat,
           IsFiniteSet(Units(f))
    PROVE  IsFiniteSet(Units(g)) /\ Total(g) = Total(f) + g[e]
<1> DEFINE B == {e} \X (1..g[e])
<1>1. IsFiniteSet(B) /\ Cardinality(B) = g[e]
    BY BlockSize
<1>2. Units(g) = Units(f) \cup B
    BY DEF Units
<1>3. Units(f) \cap B = {}
    BY DEF Units
<1>4. IsFiniteSet(Units(f) \cup B)
      /\ Cardinality(Units(f) \cup B)
            = Cardinality(Units(f)) + Cardinality(B) - Cardinality({})
    BY <1>1, <1>3, FS_Union
<1>5. Cardinality(Units(f)) \in Nat
    BY FS_CardinalityType
<1> QED BY <1>1, <1>2, <1>4, <1>5, FS_EmptySet DEF Total

(* The sum over a finite domain, with bounded values, is a natural number. *)
LEMMA TotalType ==
    ASSUME NEW S, IsFiniteSet(S), NEW n \in Nat, NEW f \in [S -> 0..n]
    PROVE  IsFiniteSet(Units(f)) /\ Total(f) \in Nat
<1>1. IsFiniteSet(S \X (1..n))
    <2>1. IsFiniteSet(1..n)
        BY FS_Interval
    <2> QED BY <2>1, FS_Product
<1>2. Units(f) \subseteq S \X (1..n)
    BY DEF Units
<1>3. IsFiniteSet(Units(f))
    BY <1>1, <1>2, FS_Subset
<1> QED BY <1>3, FS_CardinalityType DEF Total

(* A larger domain and larger values make a larger sum.                    *)
LEMMA TotalMonotone ==
    ASSUME NEW S, NEW T, S \subseteq T,
           NEW f \in [S -> Nat], NEW g \in [T -> Nat],
           \A x \in S : f[x] =< g[x],
           IsFiniteSet(Units(g))
    PROVE  Total(f) =< Total(g)
<1>1. Units(f) \subseteq Units(g)
    BY DEF Units
<1> QED BY <1>1, FS_Subset DEF Total

(* The sum over a finite domain is a natural number, and no sum of some of *)
(* its parts is more.                                                      *)
LEMMA TotalFinite ==
    ASSUME NEW S, IsFiniteSet(S), NEW f \in [S -> Nat]
    PROVE  IsFiniteSet(Units(f)) /\ Total(f) \in Nat
<1> DEFINE block == [x \in S |-> {x} \X (1..f[x])]
           blocks == {{x} \X (1..f[x]) : x \in S}
<1>1. block \in Surjection(S, blocks)
    BY DEF Surjection
<1>2. IsFiniteSet(blocks)
    BY <1>1, FS_Surjection
<1>3. ASSUME NEW B \in blocks
      PROVE  IsFiniteSet(B)
    <2>1. PICK x \in S : B = {x} \X (1..f[x])
        OBVIOUS
    <2>2. f[x] \in Nat
        OBVIOUS
    <2> QED BY <2>1, <2>2, BlockSize
<1>4. IsFiniteSet(UNION blocks)
    BY <1>2, <1>3, FS_UNION
<1>5. Units(f) = UNION blocks
    BY DEF Units
<1> QED BY <1>4, <1>5, FS_CardinalityType DEF Total

(* A sum whose arguments all grow, except perhaps one, grows by at least   *)
(* as much as that one.                                                    *)
LEMMA TotalChange ==
    ASSUME NEW S, IsFiniteSet(S), NEW f \in [S -> Nat], NEW g \in [S -> Nat], NEW e \in S,
           \A x \in S \ {e} : f[x] =< g[x]
    PROVE  Total(f) + g[e] =< Total(g) + f[e]
<1> DEFINE R == S \ {e}
           fr == [x \in R |-> f[x]]
           gr == [x \in R |-> g[x]]
<1>1. IsFiniteSet(R)
    BY FS_Difference
<1>2. fr \in [R -> Nat] /\ gr \in [R -> Nat]
    OBVIOUS
<1>3. /\ IsFiniteSet(Units(fr)) /\ Total(fr) \in Nat
      /\ IsFiniteSet(Units(gr)) /\ Total(gr) \in Nat
    BY <1>1, <1>2, TotalFinite
<1>4. Total(fr) =< Total(gr)
    BY <1>2, <1>3, TotalMonotone
<1>5. /\ DOMAIN fr = R /\ DOMAIN gr = R /\ e \notin R
      /\ DOMAIN f = R \cup {e} /\ DOMAIN g = R \cup {e}
      /\ \A x \in R : f[x] = fr[x] /\ g[x] = gr[x]
    OBVIOUS
<1> HIDE DEF fr, gr, R
<1>6. Total(f) = Total(fr) + f[e]
    BY <1>3, <1>5, TotalExtend
<1>7. Total(g) = Total(gr) + g[e]
    BY <1>3, <1>5, TotalExtend
<1>8. f[e] \in Nat /\ g[e] \in Nat
    OBVIOUS
<1> QED BY <1>3, <1>4, <1>6, <1>7, <1>8

(* Nothing sums to zero.                                                   *)
LEMMA TotalEmpty ==
    ASSUME NEW f, DOMAIN f = {}
    PROVE  Total(f) = 0
<1>1. Units(f) = {}
    BY DEF Units
<1> QED BY <1>1, FS_EmptySet DEF Total
=============================================================================
