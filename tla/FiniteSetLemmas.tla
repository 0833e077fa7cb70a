--------------------------- MODULE FiniteSetLemmas ---------------------------
(***************************************************************************)
(* What the proofs need of finite sets beyond FiniteSetTheorems: extremes, *)
(* which exclude circles among sessions that wait for one another in a     *)
(* fixed order, and strictly decreasing counts.                            *)
(***************************************************************************)
EXTENDS FiniteSetTheorems, TLAPS

\* Of the sets of things with a larger number, one is minimal.
LEMMA MaximumExists ==
    ASSUME NEW W, IsFiniteSet(W), W # {}, NEW f \in [W -> Nat]
    PROVE  \E w \in W : \A v \in W : f[v] <= f[w]
<1> DEFINE Above(w) == {v \in W : f[w] < f[v]}
           T == {Above(w) : w \in W}
           R == StrictSubsetOrdering(W)
           S == FiniteSubsetsOf(W)
<1>1. IsWellFoundedOn(R, S)
    BY FS_StrictSubsetOrderingWellFounded
<1>2. T \subseteq S /\ T # {}
    <2>1. \A w \in W : Above(w) \in SUBSET W /\ IsFiniteSet(Above(w))
        BY FS_Subset
    <2>2. \A w \in W : Above(w) \in S
        BY <2>1 DEF FiniteSubsetsOf
    <2> HIDE DEF S, Above
    <2> QED BY <2>2
<1>3. PICK x \in T : \A y \in T : <<y, x>> \notin R
    <2> HIDE DEF T, R, S
    <2> QED BY <1>1, <1>2, WFMin
<1>4. PICK w \in W : x = Above(w)
    BY <1>3
<1>5. ASSUME NEW v \in W, f[w] < f[v] PROVE FALSE
    <2>1. Above(v) \subseteq Above(w)
        BY <1>5
    <2>2. v \in Above(w) /\ v \notin Above(v)
        BY <1>5
    <2>3. <<Above(v), Above(w)>> \in R
        <3>1. Above(v) \in SUBSET W /\ Above(w) \in SUBSET W
            OBVIOUS
        <3>2. Above(v) # Above(w)
            BY <2>2
        <3> QED BY <2>1, <3>1, <3>2 DEF StrictSubsetOrdering
    <2> QED BY <1>3, <1>4, <2>3
<1> QED BY <1>5

\* A set of naturals has a least element.
LEMMA LeastExists ==
    ASSUME NEW S, S \subseteq Nat, S # {}
    PROVE  \E n \in S : \A m \in S : n <= m
<1>1. PICK s \in S : TRUE
    OBVIOUS
<1> DEFINE W == S \intersect (0 .. s)
           f == [n \in W |-> s - n]
<1>2. IsFiniteSet(W) /\ W # {} /\ f \in [W -> Nat]
    <2>1. IsFiniteSet(0 .. s) /\ W \in SUBSET (0 .. s) /\ s \in W
        BY <1>1, FS_Interval
    <2>2. IsFiniteSet(W)
        BY <2>1, FS_Subset
    <2> QED BY <1>1, <2>1, <2>2
<1>3. PICK n \in W : \A m \in W : f[m] <= f[n]
    <2> HIDE DEF W, f
    <2> QED BY <1>2, MaximumExists
<1>4. \A m \in S : n <= m
    BY <1>1, <1>3
<1> QED BY <1>4

\* A proper part of a finite set has fewer elements.
LEMMA FewerInPart ==
    ASSUME NEW S, IsFiniteSet(S), NEW R, R \subseteq S, NEW x \in S, x \notin R
    PROVE  Cardinality(R) < Cardinality(S)
<1>1. Cardinality(R) <= Cardinality(S) /\ Cardinality(R) # Cardinality(S) /\ IsFiniteSet(R)
    BY FS_Subset
<1>2. Cardinality(R) \in Nat /\ Cardinality(S) \in Nat
    BY <1>1, FS_CardinalityType
<1> QED BY <1>1, <1>2
=============================================================================
