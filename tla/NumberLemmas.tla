---------------------------- MODULE NumberLemmas ----------------------------
(***************************************************************************)
(* Facts about numbers: the arithmetic of what wraps (the LONG counters of *)
(* TraceRing, incremented with InterlockedIncrement, and the low part of   *)
(* the system time), and least elements, which stand in for an induction   *)
(* over the length of a record or a path.                                  *)
(***************************************************************************)
EXTENDS Integers, WellFoundedInduction, TLAPS

\* A set of numbers that is not empty has a least element. Applied to the
\* lengths for which a statement fails, this is an induction.
LEMMA LeastNumber ==
  ASSUME NEW T, T \subseteq Nat, T # {}
  PROVE  \E m \in T : \A n \in T : m <= n
<1>1. PICK m \in T : \A n \in T : <<n, m>> \notin OpToRel(<, Nat)
  BY WFMin, NatLessThanWellFounded, Zenon
<1>2. \A n \in T : ~(n < m)
  BY <1>1, Zenon DEF OpToRel
<1> QED
  BY <1>2, SMT

\* An induction over the turns of a loop: what holds before the first and is
\* kept by each holds after the last.
LEMMA Iteration ==
  ASSUME NEW n \in Nat, NEW P, P \subseteq 0 .. n, 0 \in P,
         \A i \in 1 .. n : i - 1 \in P => i \in P
  PROVE  P = 0 .. n /\ n \in P
<1> DEFINE Missing == (0 .. n) \ P
<1>1. ASSUME Missing # {} PROVE FALSE
  <2>1. PICK m \in Missing : \A k \in Missing : m <= k
    <3>1. Missing \subseteq Nat
      OBVIOUS
    <3> QED
      BY <1>1, <3>1, LeastNumber
  <2>2. m \in 1 .. n /\ m - 1 \in 0 .. n /\ ~(m <= m - 1)
    BY <2>1
  <2> QED
    BY <2>1, <2>2
<1>2. Missing = {}
  BY <1>1
<1>3. P = 0 .. n
  BY <1>2, Zenon
<1> QED
  BY <1>3

\* A number in parts, and what the high part tells about the order.
LEMMA Parts ==
  ASSUME NEW M \in Nat \ {0}, NEW a \in Nat
  PROVE  a = M * (a \div M) + (a % M) /\ a \div M \in Nat /\ a % M \in 0 .. (M - 1)
BY SMT

LEMMA HighPartMonotonic ==
  ASSUME NEW M \in Nat \ {0}, NEW a \in Nat, NEW b \in Nat, a <= b
  PROVE  a \div M <= b \div M
<1> DEFINE p == a \div M
           q == b \div M
<1>1. a = M * p + (a % M) /\ p \in Nat /\ a % M \in 0 .. (M - 1)
  BY Parts
<1>2. b = M * q + (b % M) /\ q \in Nat /\ b % M \in 0 .. (M - 1)
  BY Parts
<1> HIDE DEF p, q
<1>3. p \in Nat /\ M * p <= a
  <2>1. M * p \in Nat /\ p \in Nat
    BY <1>1, SMT
  <2> QED
    BY <2>1, <1>1, SMT
<1>4. q \in Nat /\ b < M * (q + 1)
  BY <1>2
<1>5. ~(q < p)
  <2> SUFFICES ASSUME q < p PROVE FALSE
    OBVIOUS
  <2> DEFINE d == p - (q + 1)
  <2>1. d \in Nat /\ p = q + 1 + d
    BY <1>3, <1>4
  <2> HIDE DEF d
  <2>2. M * d \in Nat /\ M * p = M * (q + 1) + M * d
    BY <2>1, <1>4, SMT
  <2>3. M * (q + 1) \in Nat /\ M * p \in Nat
    BY <1>3, <1>4, SMT
  <2> QED
    BY <2>2, <2>3, <1>3, <1>4
<1>6. p <= q
  BY <1>3, <1>4, <1>5
<1> QED
  BY <1>6 DEF p, q

\* A number below the modulus is the remainder of its sum with any multiple.
LEMMA RemainderUnique ==
  ASSUME NEW M \in Nat \ {0}, NEW k \in Nat, NEW y \in 0 .. (M - 1)
  PROVE  M * k + y \in Nat /\ (M * k + y) % M = y
<1> DEFINE n == M * k + y
           j == n \div M
           z == n % M
<1>1. n \in Nat
  BY SMT
<1> HIDE DEF n
<1>2. n = M * j + z /\ j \in Nat /\ z \in 0 .. (M - 1)
  BY <1>1, SMT
<1> HIDE DEF j, z
<1>3. M * (k - j) = z - y /\ M * (j - k) = y - z
  BY <1>1, <1>2, SMT DEF n
<1>m. ASSUME NEW d \in Nat \ {0} PROVE M * d >= M
  BY SMT
<1>4. CASE k - j >= 1
  <2>1. k - j \in Nat \ {0}
    BY <1>2, <1>4
  <2> QED
    BY <2>1, <1>m, <1>2, <1>3
<1>5. CASE j - k >= 1
  <2>1. j - k \in Nat \ {0}
    BY <1>2, <1>5
  <2> QED
    BY <2>1, <1>m, <1>2, <1>3
<1>6. CASE j = k
  <2>1. y = z
    BY <1>2, <1>3, <1>6, SMT
  <2> QED
    BY <2>1, <1>1 DEF n, z
<1> QED
  BY <1>2, <1>4, <1>5, <1>6

\* Taking the remainder of one summand first does not change the remainder of
\* the sum: counters that wrap still add up.
LEMMA RemainderOfSum ==
  ASSUME NEW M \in Nat \ {0}, NEW a \in Nat, NEW b \in Nat
  PROVE  ((a % M) + b) % M = (a + b) % M
<1> DEFINE x == (a % M) + b
           k == a \div M
           j == x \div M
           y == x % M
<1>1. a = M * k + (a % M) /\ k \in Nat /\ a % M \in Nat
  BY SMT
<1>2. x \in Nat /\ a + b = M * k + x
  BY <1>1, SMT
<1> HIDE DEF x, k
<1>3. x = M * j + y /\ j \in Nat /\ y \in 0 .. (M - 1)
  BY <1>2, SMT
<1> HIDE DEF j, y
<1>4. a + b = M * (k + j) + y /\ k + j \in Nat
  BY <1>1, <1>2, <1>3, SMT
<1>5. (M * (k + j) + y) % M = y
  BY <1>3, <1>4, RemainderUnique
<1>6. (a + b) % M = y
  BY <1>4, <1>5
<1> QED
  BY <1>6 DEF x, y
=============================================================================
