-------------------------- MODULE ModularArithmetic --------------------------
(***************************************************************************)
(* Lemmas about division with remainder, for the ring buffers' pointers    *)
(* and for the sequence numbers and timestamps that wrap.  The provers     *)
(* know the remainder only for constant divisors, so each is derived from  *)
(* the definition of the two operators.  And the least element of a set of *)
(* naturals, for searches and for facts about recursive functions.         *)
(***************************************************************************)
EXTENDS Integers, WellFoundedInduction, TLAPS

\* Division with remainder.
LEMMA DivMod ==
  ASSUME NEW a \in Int, NEW m \in Nat \ {0}
  PROVE  /\ a \div m \in Int /\ a % m \in 0..m - 1
         /\ a = m * (a \div m) + (a % m)
  OBVIOUS

\* A remainder is less than the divisor.
LEMMA ModRange ==
  ASSUME NEW a \in Int, NEW m \in Nat \ {0}
  PROVE  a % m \in 0..m - 1 /\ a % m \in Int
  BY DivMod

\* The quotient of a number that is not negative is not negative.
LEMMA DivNat ==
  ASSUME NEW a \in Nat, NEW m \in Nat \ {0}
  PROVE  a \div m \in Nat
  <1> DEFINE q == a \div m
             r == a % m
  <1>1. q \in Int /\ r \in 0..m - 1 /\ a = m * q + r
    BY DivMod
  <1> HIDE DEF q, r
  <1>2. CASE q <= -1
    <2>1. m * q <= -m
      BY <1>1, <1>2
    <2> QED
      BY <1>1, <2>1
  <1>3. q \in Nat
    BY <1>1, <1>2
  <1> QED
    BY <1>3 DEF q

\* The only multiple of m strictly between -m and m is zero.
LEMMA NoMultiple ==
  ASSUME NEW m \in Nat \ {0}, NEW q \in Int, NEW r \in Int, m * q = r, -m < r, r < m
  PROVE  q = 0
  <1>1. CASE q >= 1
    <2>1. m * q >= m
      BY <1>1
    <2> QED
      BY <2>1
  <1>2. CASE q <= -1
    <2>1. m * q <= -m
      BY <1>2
    <2> QED
      BY <2>1
  <1> QED
    BY <1>1, <1>2

\* The remainder is unique.
LEMMA ModUnique ==
  ASSUME NEW m \in Nat \ {0}, NEW q \in Int, NEW r \in 0..m - 1
  PROVE  (m * q + r) % m = r
  <1> DEFINE a == m * q + r
             e == a \div m - q
  <1>1. a \in Int /\ e \in Int /\ a % m \in 0..m - 1 /\ a = m * (a \div m) + (a % m)
    BY DivMod
  <1>2. m * e = r - (a % m)
    BY <1>1
  <1>3. e = 0
    BY <1>1, <1>2, NoMultiple
  <1> QED
    BY <1>1, <1>2, <1>3

\* A pointer that is moved and wrapped is the moved count, wrapped.
LEMMA ModAdd ==
  ASSUME NEW m \in Nat \ {0}, NEW a \in Int, NEW k \in Int
  PROVE  ((a % m) + k) % m = (a + k) % m
  <1> DEFINE b == (a % m) + k
  <1>1. /\ a \div m \in Int /\ a % m \in 0..m - 1
        /\ a = m * (a \div m) + (a % m)
    BY DivMod
  <1>2. b \in Int
    BY <1>1
  <1>3. /\ b \div m \in Int /\ b % m \in 0..m - 1
        /\ b = m * (b \div m) + (b % m)
    BY <1>2, DivMod
  <1> DEFINE q == (a \div m) + (b \div m)
  <1>4. q \in Int
    BY <1>1, <1>3
  <1>5. a + k = m * q + (b % m)
    BY <1>1, <1>3, <1>4
  <1>6. (m * q + (b % m)) % m = b % m
    BY <1>3, <1>4, ModUnique
  <1> QED
    BY <1>5, <1>6

\* The distance of the pointers is at most the true distance.
LEMMA ModDistance ==
  ASSUME NEW m \in Nat \ {0}, NEW w \in Nat, NEW t \in Nat, t <= w
  PROVE  ((w % m) - (t % m)) % m <= w - t
  <1> DEFINE d == w - t
             e == (w % m) - (t % m)
  <1>1. /\ t \div m \in Int /\ t % m \in 0..m - 1 /\ t = m * (t \div m) + (t % m)
        /\ w \div m \in Int /\ w % m \in 0..m - 1 /\ w = m * (w \div m) + (w % m)
    BY DivMod
  <1>2. e \in Int /\ d \in Nat
    BY <1>1
  <1>3. e \div m \in Int /\ e % m \in 0..m - 1 /\ e = m * (e \div m) + (e % m)
    BY <1>2, DivMod
  <1> DEFINE q == (w \div m) - (t \div m) + (e \div m)
  <1>4. q \in Int
    BY <1>1, <1>3
  <1>5. d = m * q + (e % m)
    BY <1>1, <1>3, <1>4
  <1>6. q >= 0
    <2>1. SUFFICES ASSUME q <= -1 PROVE FALSE
      BY <1>4
    <2>2. m * q <= -m
      BY <1>4, <2>1
    <2> QED
      BY <1>2, <1>3, <1>5, <2>2
  <1>7. m * q >= 0
    BY <1>4, <1>6
  <1> QED
    BY <1>2, <1>3, <1>4, <1>5, <1>7

\* Two samples less than a ring apart have different slots.
LEMMA ModDistinct ==
  ASSUME NEW m \in Nat \ {0}, NEW a \in Int, NEW b \in Int, a < b, b - a < m
  PROVE  a % m # b % m
  <1>1. SUFFICES ASSUME a % m = b % m PROVE FALSE
    OBVIOUS
  <1>2. /\ a \div m \in Int /\ a % m \in 0..m - 1 /\ a = m * (a \div m) + (a % m)
        /\ b \div m \in Int /\ b % m \in 0..m - 1 /\ b = m * (b \div m) + (b % m)
    BY DivMod
  <1> DEFINE q == (b \div m) - (a \div m)
  <1>3. q \in Int /\ m * q = b - a
    BY <1>1, <1>2
  <1>4. q = 0
    BY <1>3, NoMultiple
  <1> QED
    BY <1>3, <1>4

\* Slots follow each other up to the ring's end.
LEMMA ModWithin ==
  ASSUME NEW m \in Nat \ {0}, NEW a \in Int, NEW i \in Nat, (a % m) + i < m
  PROVE  (a + i) % m = (a % m) + i
  <1>1. a \div m \in Int /\ a % m \in 0..m - 1 /\ a = m * (a \div m) + (a % m)
    BY DivMod
  <1> DEFINE r == (a % m) + i
  <1>2. r \in 0..m - 1 /\ a + i = m * (a \div m) + r
    BY <1>1
  <1>3. (m * (a \div m) + r) % m = r
    BY <1>1, <1>2, ModUnique
  <1> QED
    BY <1>2, <1>3

\* A multiple divides exactly.
LEMMA DivExact ==
  ASSUME NEW m \in Nat \ {0}, NEW k \in Int
  PROVE  (k * m) \div m = k
  <1> DEFINE p == k * m
  <1>1. p \in Int
    OBVIOUS
  <1>2. p \div m \in Int /\ p % m \in 0..m - 1 /\ p = m * (p \div m) + (p % m)
    BY <1>1, DivMod
  <1>3. p = m * k + 0
    OBVIOUS
  <1>4. p % m = 0
    BY <1>3, ModUnique
  <1> DEFINE q == k - (p \div m)
  <1>5. q \in Int /\ m * q = 0
    BY <1>2, <1>3, <1>4
  <1>6. q = 0
    BY <1>5, NoMultiple
  <1> QED
    BY <1>2, <1>6

\* The remainder of a number in range is the number.
LEMMA ModSmall ==
  ASSUME NEW m \in Nat \ {0}, NEW r \in 0..m - 1
  PROVE  r % m = r
  <1>1. (m * 0 + r) % m = r
    BY ModUnique
  <1> QED
    BY <1>1

\* The distance of two wrapped counts is the distance of the counts, wrapped.
LEMMA ModSubtract ==
  ASSUME NEW m \in Nat \ {0}, NEW a \in Int, NEW b \in Int
  PROVE  ((a % m) - (b % m)) % m = (a - b) % m
  <1> DEFINE e == (a % m) - (b % m)
  <1>1. /\ a \div m \in Int /\ a % m \in 0..m - 1 /\ a = m * (a \div m) + (a % m)
        /\ b \div m \in Int /\ b % m \in 0..m - 1 /\ b = m * (b \div m) + (b % m)
    BY DivMod
  <1>2. e \in Int
    BY <1>1
  <1>3. e \div m \in Int /\ e % m \in 0..m - 1 /\ e = m * (e \div m) + (e % m)
    BY <1>2, DivMod
  <1> DEFINE q == (a \div m) - (b \div m) + (e \div m)
  <1>4. q \in Int /\ a - b = m * q + (e % m)
    BY <1>1, <1>3
  <1>5. (m * q + (e % m)) % m = e % m
    BY <1>3, <1>4, ModUnique
  <1> QED
    BY <1>4, <1>5

\* A negative number less than m below zero wraps to its distance from -m.
LEMMA ModNegative ==
  ASSUME NEW m \in Nat \ {0}, NEW x \in Int, x < 0, x + m >= 0
  PROVE  x % m = x + m
  <1>1. x + m \in 0..m - 1
    OBVIOUS
  <1>2. (m * (-1) + (x + m)) % m = x + m
    BY <1>1, ModUnique
  <1>3. m * (-1) + (x + m) = x
    OBVIOUS
  <1> QED
    BY <1>2, <1>3

\* The wrapped number w taken as a signed integer of m values.
SignedOf(w, m) == IF w < m - w THEN w ELSE w - m

\* Taken as a signed integer, a number of less than half the modulus is itself.
LEMMA SignedExact ==
  ASSUME NEW m \in Nat \ {0}, NEW x \in Int, -m <= 2 * x, 2 * x < m
  PROVE  SignedOf(x % m, m) = x
  <1>1. CASE x >= 0
    <2>1. x % m = x
      BY <1>1, ModSmall
    <2> QED
      BY <1>1, <2>1 DEF SignedOf
  <1>2. CASE x < 0
    <2>1. x % m = x + m
      BY <1>2, ModNegative
    <2> QED
      BY <1>2, <2>1 DEF SignedOf
  <1> QED
    BY <1>1, <1>2

\* A number that is too large for that is never taken for a smaller one that is
\* not negative, as long as it is less than the modulus.
LEMMA SignedNotFooled ==
  ASSUME NEW m \in Nat \ {0}, NEW x \in Int, -m <= 2 * x, x < m, SignedOf(x % m, m) >= 0
  PROVE  SignedOf(x % m, m) = x /\ 2 * x < m
  <1>1. CASE x >= 0
    <2>1. x % m = x
      BY <1>1, ModSmall
    <2> QED
      BY <1>1, <2>1 DEF SignedOf
  <1>2. CASE x < 0
    <2>1. x % m = x + m
      BY <1>2, ModNegative
    <2> QED
      BY <1>2, <2>1 DEF SignedOf
  <1> QED
    BY <1>1, <1>2
-----------------------------------------------------------------------------
\* The order of the naturals.
Below == {pair \in Nat \X Nat : pair[1] < pair[2]}

\* A set of naturals that is not empty has a least element.
LEMMA LeastNatural ==
  ASSUME NEW S \in SUBSET Nat, S # {}
  PROVE  \E m \in S : \A n \in S : m <= n
  <1>1. IsWellFoundedOn(Below, Nat)
    BY NatLessThanWellFounded DEF OpToRel, Below
  <1>2. PICK m \in S : \A n \in S : <<n, m>> \notin Below
    BY <1>1, WFMin
  <1>3. m \in Nat /\ \A n \in S : n \in Nat /\ ~ (n < m)
    BY <1>2 DEF Below
  <1> QED
    BY <1>3
=============================================================================
