--------------------------- MODULE MinMaxTheorems ---------------------------
(***************************************************************************)
(* What Min and Max of FiniteSetsExt return: lemmas about sets of numbers  *)
(* that the proofs of the metrics and of the RFQ transactions cite.        *)
(***************************************************************************)
EXTENDS FiniteSetsExt, FiniteSetTheorems, WellFoundedInduction, TLAPS

\* Every nonempty set of natural numbers has a least element.
LEMMA LeastNat ==
  ASSUME NEW S \in SUBSET Nat, S # {}
  PROVE  \E m \in S : \A x \in S : m <= x
  <1>1. PICK m \in S : \A x \in S : <<x, m>> \notin OpToRel(<, Nat)
    BY WFMin, NatLessThanWellFounded
  <1>2. OpToRel(<, Nat) = {pair \in Nat \X Nat : pair[1] < pair[2]}
    BY Zenon DEF OpToRel
  <1>3. ASSUME NEW x \in S, x < m PROVE FALSE
    <2>1. <<x, m>> \in {pair \in Nat \X Nat : pair[1] < pair[2]}
      BY <1>3
    <2> QED
      BY <1>1, <1>2, <2>1, Zenon
  <1> QED
    BY <1>3

IsGreatest(m, S) == m \in S /\ \A x \in S : x <= m

IsLeast(m, S) == m \in S /\ \A x \in S : m <= x

\* A smallest set without a greatest element would have one.
LEMMA FiniteHasGreatest ==
  ASSUME NEW S \in SUBSET Int, IsFiniteSet(S), S # {}
  PROVE  \E m : IsGreatest(m, S)
  <1> DEFINE Bad(T) == T # {} /\ ~\E m : IsGreatest(m, T)
             Sizes == {n \in Nat : \E T \in SUBSET S : Bad(T) /\ Cardinality(T) = n}
  <1> SUFFICES ASSUME Bad(S) PROVE FALSE
    OBVIOUS
  <1>1. Cardinality(S) \in Sizes
    BY FS_CardinalityType
  <1>2. PICK n \in Sizes : \A k \in Sizes : n <= k
    <2> HIDE DEF Sizes
    <2>1. Sizes \in SUBSET Nat
      BY DEF Sizes
    <2> QED
      BY <1>1, <2>1, LeastNat
  <1>3. PICK T \in SUBSET S : Bad(T) /\ Cardinality(T) = n
    OBVIOUS
  <1>4. PICK x \in T : TRUE
    BY <1>3
  <1> DEFINE U == T \ {x}
  <1>5. IsFiniteSet(T) /\ IsFiniteSet(U) /\ Cardinality(U) = n - 1 /\ Cardinality(U) \in Nat
    BY <1>3, <1>4, FS_Subset, FS_RemoveElement, FS_CardinalityType
  <1>6. ~Bad(U)
    <2>1. n - 1 \notin Sizes
      BY <1>2
    <2> QED
      BY <1>5, <2>1
  <1>7. CASE U = {}
    <2>1. IsGreatest(x, T)
      BY <1>4, <1>7 DEF IsGreatest
    <2> QED
      BY <1>3, <2>1
  <1>8. CASE U # {}
    <2>1. PICK m : IsGreatest(m, U)
      BY <1>6, <1>8
    <2>2. IsGreatest(m, T) \/ IsGreatest(x, T)
      BY <1>4, <2>1 DEF IsGreatest
    <2> QED
      BY <1>3, <2>2
  <1> QED
    BY <1>7, <1>8

LEMMA FiniteHasLeast ==
  ASSUME NEW S \in SUBSET Int, IsFiniteSet(S), S # {}
  PROVE  \E m : IsLeast(m, S)
  <1> DEFINE N == {-x : x \in S}
  <1>1. IsFiniteSet(N)
    <2>1. [x \in S |-> -x] \in Surjection(S, N)
      BY DEF Surjection
    <2> QED
      BY <2>1, FS_Surjection
  <1>2. N \in SUBSET Int /\ N # {}
    <2>1. \A x \in S : -x \in Int
      OBVIOUS
    <2>2. PICK y \in S : TRUE
      OBVIOUS
    <2>3. -y \in N
      OBVIOUS
    <2> QED
      BY <2>1, <2>3
  <1>3. PICK m : IsGreatest(m, N)
    <2> HIDE DEF N
    <2> QED
      BY <1>1, <1>2, FiniteHasGreatest
  <1>4. IsLeast(-m, S)
    BY <1>3 DEF IsGreatest, IsLeast
  <1> QED
    BY <1>4

LEMMA GreatestIsMax ==
  ASSUME NEW S \in SUBSET Int, NEW m, IsGreatest(m, S)
  PROVE  Max(S) = m
  <1>1. \E x \in S : \A y \in S : x >= y
    <2>1. m \in S /\ \A y \in S : m >= y
      BY DEF IsGreatest
    <2> QED
      BY <2>1
  <1>2. Max(S) \in S /\ \A y \in S : Max(S) >= y
    BY <1>1, Zenon DEF Max
  <1>3. m \in S /\ \A y \in S : m >= y
    BY DEF IsGreatest
  <1>4. \A x \in S : (\A y \in S : x >= y) => x = m
    BY <1>3
  <1> QED
    BY <1>2, <1>4

LEMMA LeastIsMin ==
  ASSUME NEW S \in SUBSET Int, NEW m, IsLeast(m, S)
  PROVE  Min(S) = m
  <1>1. \E x \in S : \A y \in S : x =< y
    <2>1. m \in S /\ \A y \in S : m =< y
      BY DEF IsLeast
    <2> QED
      BY <2>1
  <1>2. Min(S) \in S /\ \A y \in S : Min(S) =< y
    BY <1>1, Zenon DEF Min
  <1>3. m \in S /\ \A y \in S : m =< y
    BY DEF IsLeast
  <1>4. \A x \in S : (\A y \in S : x =< y) => x = m
    BY <1>3
  <1> QED
    BY <1>2, <1>4

=============================================================================
