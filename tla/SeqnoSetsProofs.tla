-------------------------- MODULE SeqnoSetsProofs ---------------------------
(***************************************************************************)
(* What begin(), std::next and std::prev of a list of SyncWrites return.   *)
(***************************************************************************)
EXTENDS SeqnoSets, WellFoundedInduction, TLAPS

Less == { p \in Nat \X Nat : p[1] < p[2] }

\* Every non-empty set of naturals has a least element, and MinOf is it.
LEMMA MinOfNat ==
    ASSUME NEW S \in SUBSET Nat, S # {}
    PROVE  MinOf(S) \in S /\ \A y \in S : MinOf(S) <= y
<1>1. IsWellFoundedOn(Less, Nat)
  BY NatLessThanWellFounded, Zenon DEF OpToRel, Less
<1>2. PICK x \in S : \A y \in S : ~(<< y, x >> \in Less)
  BY <1>1, WFMin
<1>3. ASSUME NEW y \in S
      PROVE  x <= y
  <2>1. y < x => << y, x >> \in Less
    BY SMT DEF Less
  <2> QED
    BY <1>2, <2>1
<1> QED
  BY <1>3 DEF MinOf

\* Every non-empty set of naturals up to a bound has a greatest element, and
\* MaxOf is it.
LEMMA MaxOfBounded ==
    ASSUME NEW N \in Nat, NEW S \in SUBSET (0 .. N), S # {}
    PROVE  MaxOf(S) \in S /\ \A y \in S : y <= MaxOf(S)
<1> DEFINE D == { N - x : x \in S }
<1>1. D \in SUBSET Nat /\ D # {}
  <2>1. \A x \in S : N - x \in Nat
    OBVIOUS
  <2> QED
    BY <2>1
<1>2. MinOf(D) \in D /\ \A y \in D : MinOf(D) <= y
  <2> HIDE DEF D
  <2> QED
    BY <1>1, MinOfNat
<1>3. PICK x \in S : MinOf(D) = N - x
  BY <1>2
<1>4. ASSUME NEW y \in S
      PROVE  y <= x
  <2>1. N - y \in D
    OBVIOUS
  <2>2. N - x <= N - y
    BY <2>1, <1>2, <1>3
  <2> QED
    BY <2>2
<1> QED
  BY <1>4 DEF MaxOf

\* begin() is the first element, or end() if there is none.
LEMMA FrontIsFirst ==
    ASSUME NEW T \in SUBSET (Nat \ {0})
    PROVE  /\ Front(T) \in T \cup {0}
           /\ Front(T) = 0 <=> T = {}
           /\ \A s \in T : Front(T) <= s
<1>1. CASE T = {}
  BY <1>1 DEF Front
<1>2. CASE T # {}
  <2>1. MinOf(T) \in T /\ \A y \in T : MinOf(T) <= y
    BY <1>2, MinOfNat
  <2> QED
    BY <1>2, <2>1 DEF Front
<1> QED
  BY <1>1, <1>2

\* std::next is the first element after the iterator, or end().
LEMMA NextInIsNext ==
    ASSUME NEW T \in SUBSET (Nat \ {0}), NEW it \in Nat
    PROVE  /\ NextIn(T, it) \in T \cup {0}
           /\ NextIn(T, it) # 0 => NextIn(T, it) > it
           /\ \A s \in T : s > it => NextIn(T, it) # 0 /\ NextIn(T, it) <= s
<1> DEFINE U == { s \in T : s > it }
<1>1. U \in SUBSET (Nat \ {0})
  OBVIOUS
<1>2. /\ Front(U) \in U \cup {0}
      /\ Front(U) = 0 <=> U = {}
      /\ \A s \in U : Front(U) <= s
  <2> HIDE DEF U
  <2> QED
    BY <1>1, FrontIsFirst
<1> QED
  BY <1>2 DEF NextIn

\* std::prev is the last element before the iterator, or 0.
LEMMA PrevInIsPrev ==
    ASSUME NEW N \in Nat, NEW T \in SUBSET (1 .. N), NEW it \in Nat
    PROVE  /\ PrevIn(T, it) \in T \cup {0}
           /\ PrevIn(T, it) <= it
           /\ \A s \in T : s < it => s <= PrevIn(T, it)
<1> DEFINE U == { s \in T : s < it } \cup {0}
<1>1. U \in SUBSET (0 .. N) /\ U # {}
  <2>1. T \subseteq 0 .. N /\ 0 \in 0 .. N
    OBVIOUS
  <2> QED
    BY <2>1, Zenon
<1>2. MaxOf(U) \in U /\ \A y \in U : y <= MaxOf(U)
  <2> HIDE DEF U
  <2> QED
    BY <1>1, MaxOfBounded
<1>3. PrevIn(T, it) = MaxOf(U)
  BY DEF PrevIn
<1>4. \A s \in U : s <= it
  OBVIOUS
<1>5. \A s \in T : s < it => s \in U
  OBVIOUS
<1> QED
  BY <1>2, <1>3, <1>4, <1>5, Zenon

=============================================================================
