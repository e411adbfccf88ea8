------------------------- MODULE StepwiseRecursion -------------------------
(***************************************************************************)
(* What the proofs need in place of induction.  The definition of a         *)
(* recursive function is a choice of some solution of its recursion: that   *)
(* there is one, and of which type, is proved by looking at the first       *)
(* argument at which there is none.                                         *)
(***************************************************************************)
EXTENDS Integers, WellFoundedInduction, TLAPS

\* A set of naturals has a least element.
LEMMA LeastElement ==
  ASSUME NEW T, T \subseteq Nat, T # {}
  PROVE  \E m \in T : \A k \in T : m <= k
<1>1. \E m \in T : \A k \in T : ~(<<k, m>> \in OpToRel(<, Nat))
  BY NatLessThanWellFounded, WFMin
<1>2. PICK m \in T : \A k \in T : ~(<<k, m>> \in OpToRel(<, Nat))
  BY <1>1
<1>3. \A k \in T : ~(k < m)
  BY <1>2 DEF OpToRel
<1> QED
  BY <1>3

\* A set with 0 that goes on from each number up to n.
LEMMA Upwards ==
  ASSUME NEW n \in Nat, NEW T, 0 \in T,
         \A i \in 1..n : i - 1 \in T => i \in T
  PROVE  \A i \in 0..n : i \in T
<1> DEFINE R == {i \in 0..n : i \notin T}
<1>1. SUFFICES ASSUME R # {}
               PROVE  FALSE
  OBVIOUS
<1>2. PICK m \in R : \A k \in R : m <= k
  <2>1. R \subseteq Nat
    OBVIOUS
  <2> HIDE DEF R
  <2> QED
    BY <1>1, <2>1, LeastElement
<1>3. m \in 0..n /\ m \notin T
  BY <1>2
<1>4. m \in 1..n /\ m - 1 \in 0..n /\ ~(m <= m - 1)
  BY <1>3
<1>5. m - 1 \in T
  BY <1>2, <1>4
<1> QED
  BY <1>3, <1>4, <1>5

\* Every recursion from a value to the next has a solution.
Steps(n, S) == [1..n -> [S -> S]]
Solved(n, S, z, F) ==
  \E b \in [0..n -> S] : \A i \in 0..n : b[i] = IF i = 0 THEN z ELSE F[i][b[i - 1]]

LEMMA Solution ==
  ASSUME NEW n \in Nat, NEW S, NEW z \in S, NEW F, F \in Steps(n, S)
  PROVE  Solved(n, S, z, F)
<1> USE DEF Steps, Solved
<1> DEFINE Solves(b, m) == \A i \in 0..m : b[i] = IF i = 0 THEN z ELSE F[i][b[i - 1]]
           T == {m \in 0..n : \E b \in [0..m -> S] : Solves(b, m)}
<1>1. 0 \in T
  <2> DEFINE b == [i \in 0..0 |-> z]
  <2>1. b \in [0..0 -> S] /\ Solves(b, 0)
    OBVIOUS
  <2> HIDE DEF b, Solves
  <2> QED
    BY <2>1
<1>2. ASSUME NEW m \in 1..n, m - 1 \in T
      PROVE  m \in T
  <2>1. PICK b \in [0..(m - 1) -> S] : Solves(b, m - 1)
    BY <1>2
  <2> DEFINE c == [i \in 0..m |-> IF i = m THEN F[m][b[m - 1]] ELSE b[i]]
  <2>2. c \in [0..m -> S]
    <3>1. b[m - 1] \in S
      OBVIOUS
    <3>2. F[m] \in [S -> S]
      OBVIOUS
    <3>3. \A i \in 0..m : i = m \/ i \in 0..(m - 1)
      OBVIOUS
    <3> QED
      BY <3>1, <3>2, <3>3
  <2>3. Solves(c, m)
    <3>1. \A i \in 0..(m - 1) : c[i] = b[i]
      OBVIOUS
    <3>2. c[m] = F[m][b[m - 1]]
      OBVIOUS
    <3>3. \A i \in 0..m : i = m \/ i \in 0..(m - 1)
      OBVIOUS
    <3>4. \A i \in 0..m : i # 0 => i - 1 \in 0..(m - 1)
      OBVIOUS
    <3> HIDE DEF c
    <3> QED
      BY <2>1, <3>1, <3>2, <3>3, <3>4
  <2> HIDE DEF Solves
  <2> QED
    BY <2>2, <2>3
<1>3. n \in T
  <2> HIDE DEF T
  <2>1. \A m \in 0..n : m \in T
    BY <1>1, <1>2, Upwards
  <2> QED
    BY <2>1
<1> QED
  BY <1>3

\* A set of naturals with an upper bound has a greatest element.
LEMMA GreatestElement ==
  ASSUME NEW n \in Nat, NEW T \in SUBSET (0..n), T # {}
  PROVE  \E m \in T : \A k \in T : k <= m
<1> DEFINE U == {i \in 0..n : n - i \in T}
<1>1. U \subseteq Nat
  OBVIOUS
<1>2. U # {}
  <2>1. PICK k \in T : TRUE
    OBVIOUS
  <2>2. n - k \in 0..n /\ n - (n - k) = k
    OBVIOUS
  <2> QED
    BY <2>1, <2>2
<1>3. PICK i \in U : \A j \in U : i <= j
  <2> HIDE DEF U
  <2> QED
    BY <1>1, <1>2, LeastElement
<1>4. n - i \in T
  BY <1>3
<1>5. ASSUME NEW k \in T
      PROVE  k <= n - i
  <2>1. n - k \in 0..n /\ n - (n - k) = k
    OBVIOUS
  <2>2. n - k \in U
    BY <2>1
  <2>3. i <= n - k
    BY <1>3, <2>2
  <2>4. i \in 0..n
    BY <1>3
  <2> QED
    BY <2>3, <2>4
<1> QED
  BY <1>4, <1>5
=============================================================================
