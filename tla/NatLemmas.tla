------------------------------ MODULE NatLemmas ------------------------------
(***************************************************************************)
(* Facts about natural numbers that the proofs of several components need: *)
(* induction over a set of numbers, division with remainder, and powers of *)
(* two.                                                                    *)
(***************************************************************************)
EXTENDS Integers, FiniteSets, FiniteSetTheorems, WellFoundedInduction, TLAPS

\* The backends of a leaf that names none, in the order they are tried.
USE SMTT(20), ZenonT(10), SMTT(30), SMTT(40), SMTT(50)

-----------------------------------------------------------------------------
(***************************************************************************)
(* Division.                                                               *)
(***************************************************************************)

\* Division with remainder.
LEMMA DivMod ==
    ASSUME NEW v \in Int, NEW a \in Nat \ {0}
    PROVE  /\ v = (v \div a) * a + (v % a)
           /\ 0 <= v % a /\ v % a < a
           /\ v \div a \in Int /\ v % a \in Int
OBVIOUS

\* A multiple of a leaves no remainder.
LEMMA MultipleMod ==
    ASSUME NEW k \in Int, NEW a \in Nat \ {0}
    PROVE  (k * a) % a = 0
<1> DEFINE m == k * a
           q == m \div a
<1>1. m = q * a + (m % a) /\ 0 <= m % a /\ m % a < a /\ q \in Int
  BY DivMod
<1>2. (k - q) * a = m % a
  BY <1>1
<1>3. CASE k > q
  <2>1. (k - q - 1) * a >= 0
    BY <1>3, <1>1
  <2> QED BY <2>1, <1>1, <1>2
<1>4. CASE k < q
  <2>1. (q - k - 1) * a >= 0
    BY <1>4, <1>1
  <2> QED BY <2>1, <1>1, <1>2
<1>5. CASE k = q
  BY <1>5, <1>1
<1> QED BY <1>1, <1>3, <1>4, <1>5

\* Sums and differences of multiples are multiples.
LEMMA SumMod ==
    ASSUME NEW x \in Int, NEW y \in Int, NEW a \in Nat \ {0}, x % a = 0, y % a = 0
    PROVE  (x + y) % a = 0 /\ (x - y) % a = 0
<1> DEFINE p == x \div a
           q == y \div a
<1>1. x = p * a /\ y = q * a /\ p \in Int /\ q \in Int
  BY DivMod
<1>2. x + y = (p + q) * a /\ x - y = (p - q) * a
  BY <1>1
<1>3. ((p + q) * a) % a = 0 /\ ((p - q) * a) % a = 0
  BY <1>1, MultipleMod
<1> QED BY <1>2, <1>3

\* A multiple of a multiple is a multiple.
LEMMA ProductMod ==
    ASSUME NEW k \in Int, NEW x \in Int, NEW a \in Nat \ {0}, x % a = 0
    PROVE  (k * x) % a = 0
<1> DEFINE q == x \div a
<1>1. x = q * a /\ q \in Int
  BY DivMod
<1>2. k * x = (k * q) * a /\ k * q \in Int
  BY <1>1
<1>3. ((k * q) * a) % a = 0
  BY <1>2, MultipleMod
<1> QED BY <1>2, <1>3

\* A remainder is no larger than the number, and equal to a small one.
LEMMA ModBound ==
    ASSUME NEW x \in Nat, NEW m \in Nat \ {0}
    PROVE  x % m <= x /\ (x < m => x % m = x)
<1> DEFINE q == x \div m
<1>1. x = q * m + (x % m) /\ 0 <= x % m /\ x % m < m /\ q \in Int
  BY DivMod
<1>2. q >= 0
  <2> SUFFICES ASSUME q <= -1 PROVE FALSE
    BY <1>1
  <2>1. (-1 - q) * m >= 0
    BY <1>1
  <2> QED BY <2>1, <1>1
<1>3. q * m >= 0
  BY <1>1, <1>2
<1>4. ASSUME x < m PROVE q = 0
  <2> SUFFICES ASSUME q >= 1 PROVE FALSE
    BY <1>1, <1>2
  <2>1. (q - 1) * m >= 0
    BY <1>1
  <2> QED BY <2>1, <1>1, <1>4
<1> QED BY <1>1, <1>3, <1>4

\* Quotient and remainder are the only ones.
LEMMA DivUnique ==
    ASSUME NEW v \in Int, NEW a \in Nat \ {0}, NEW q \in Int, NEW r \in 0..(a - 1),
           v = q * a + r
    PROVE  v \div a = q /\ v % a = r
<1> DEFINE p == v \div a
           s == v % a
<1>1. v = p * a + s /\ 0 <= s /\ s < a /\ p \in Int /\ s \in Int
  BY DivMod
<1>2. (p - q) * a = r - s
  BY <1>1
<1>3. CASE p > q
  <2>1. (p - q - 1) * a >= 0
    BY <1>3, <1>1
  <2> QED BY <2>1, <1>1, <1>2
<1>4. CASE p < q
  <2>1. (q - p - 1) * a >= 0
    BY <1>4, <1>1
  <2> QED BY <2>1, <1>1, <1>2
<1>5. CASE p = q
  BY <1>5, <1>1
<1> QED BY <1>1, <1>3, <1>4, <1>5

\* The quotient of a natural number is one.
LEMMA DivNat ==
    ASSUME NEW y \in Nat, NEW a \in Nat \ {0}
    PROVE  y \div a \in Nat
<1> DEFINE q == y \div a
<1>1. y = q * a + (y % a) /\ 0 <= y % a /\ y % a < a /\ q \in Int
  BY DivMod
<1>2. q >= 0
  <2> SUFFICES ASSUME q <= -1 PROVE FALSE
    BY <1>1
  <2>1. (-1 - q) * a >= 0
    BY <1>1
  <2> QED BY <2>1, <1>1
<1> QED BY <1>1, <1>2

\* Dividing twice is dividing by the product.
LEMMA DivDiv ==
    ASSUME NEW y \in Nat, NEW a \in Nat \ {0}, NEW b \in Nat \ {0}
    PROVE  y \div (a * b) = (y \div a) \div b
<1> DEFINE p == y \div a
           q == p \div b
           r == y % a
           s == p % b
<1>1. y = p * a + r /\ 0 <= r /\ r < a /\ p \in Int /\ r \in Int
  BY DivMod
<1>2. p = q * b + s /\ 0 <= s /\ s < b /\ q \in Int /\ s \in Int
  BY <1>1, DivMod
<1> HIDE DEF p, q, r, s
<1>3. y = q * (a * b) + (s * a + r)
  BY <1>1, <1>2
<1>4. s * a >= 0 /\ (b - 1 - s) * a >= 0 /\ s * a \in Int /\ a * b \in Nat \ {0}
  BY <1>2
<1>5. s * a + r \in 0..(a * b - 1)
  BY <1>1, <1>2, <1>4
<1>6. y \div (a * b) = q
  BY <1>2, <1>3, <1>4, <1>5, DivUnique
<1> QED BY <1>6 DEF p, q

-----------------------------------------------------------------------------
(***************************************************************************)
(* Induction and powers of two.                                            *)
(***************************************************************************)

\* Every set of natural numbers that is not empty has a least element.
LEMMA LeastNumber ==
    ASSUME NEW T, T \subseteq Nat, T # {}
    PROVE  \E x \in T : \A y \in T : x <= y
<1>. DEFINE less == {p \in Nat \X Nat : p[1] < p[2]}
<1>1. IsWellFoundedOn(less, Nat)
  BY NatLessThanWellFounded, Zenon DEF OpToRel
<1>2. PICK x \in T : \A y \in T : <<y, x>> \notin less
  <2>. HIDE DEF less
  <2>. QED  BY Zenon, <1>1, WFMin
<1>3. \A y \in T : ~(y < x)
  BY Zenon, <1>2
<1>. QED  BY <1>3

\* Induction, over a set: what holds of 0 and goes over from n to n + 1 holds of all.
LEMMA SetInduction ==
    ASSUME NEW S, 0 \in S, \A n \in Nat : n \in S => n + 1 \in S
    PROVE  Nat \subseteq S
<1>. SUFFICES ASSUME Nat \ S # {} PROVE FALSE
  OBVIOUS
<1>1. PICK x \in Nat \ S : \A y \in Nat \ S : x <= y
  BY Zenon, LeastNumber
<1>2. x # 0 /\ x - 1 \in Nat
  OBVIOUS
<1>3. x - 1 \in S
  BY <1>1, <1>2
<1>. QED  BY <1>2, <1>3

\* There are n numbers below n.
LEMMA CardinalityBelow ==
    ASSUME NEW n \in Nat
    PROVE  IsFiniteSet(0..(n - 1)) /\ Cardinality(0..(n - 1)) = n
<1>1. 0 \in Int /\ n - 1 \in Int
  OBVIOUS
<1>. QED  BY <1>1, FS_Interval

\* Powers of two are natural numbers and not 0: they count the subsets of a set.
LEMMA PowerOfTwo ==
    ASSUME NEW n \in Nat
    PROVE  2^n \in Nat \ {0}
<1>1. IsFiniteSet(1..n) /\ Cardinality(1..n) = n
  BY FS_Interval
<1>2. IsFiniteSet(SUBSET (1..n)) /\ Cardinality(SUBSET (1..n)) = 2^n
  BY Zenon, <1>1, FS_SUBSET
<1>3. Cardinality(SUBSET (1..n)) \in Nat
  BY <1>2, FS_CardinalityType
<1>4. Cardinality(SUBSET (1..n)) # 0
  BY <1>2, FS_EmptySet
<1>. QED  BY <1>2, <1>3, <1>4

\* The power of a sum: a subset of a union is a pair of subsets.
LEMMA PowerSum ==
    ASSUME NEW m \in Nat, NEW n \in Nat
    PROVE  2^(m + n) = 2^m * 2^n
<1>. DEFINE A == 1..m
            B == (m + 1)..(m + n)
            C == 1..(m + n)
            f == [p \in (SUBSET A) \X (SUBSET B) |-> p[1] \cup p[2]]
<1>1. IsFiniteSet(A) /\ Cardinality(A) = m
  BY FS_Interval
<1>2. IsFiniteSet(B) /\ Cardinality(B) = n
  <2>1. m + 1 \in Int /\ m + n \in Int
    OBVIOUS
  <2>. QED  BY <2>1, FS_Interval
<1>3. IsFiniteSet(C) /\ Cardinality(C) = m + n
  <2>. DEFINE k == m + n
  <2>1. k \in Nat
    OBVIOUS
  <2>. HIDE DEF k
  <2>2. IsFiniteSet(1..k) /\ Cardinality(1..k) = k
    BY <2>1, FS_Interval
  <2>. QED  BY <2>2 DEF k
<1>4. C = A \cup B /\ A \cap B = {}
  OBVIOUS
<1>. HIDE DEF A, B, C
<1>5. f \in Bijection((SUBSET A) \X (SUBSET B), SUBSET C)
  <2>1. f \in [(SUBSET A) \X (SUBSET B) -> SUBSET C]
    BY <1>4
  <2>2. ASSUME NEW p \in (SUBSET A) \X (SUBSET B), NEW q \in (SUBSET A) \X (SUBSET B), f[p] = f[q]
        PROVE  p = q
    <3>1. p[1] = f[p] \cap A /\ p[2] = f[p] \cap B /\ q[1] = f[q] \cap A /\ q[2] = f[q] \cap B
      BY <1>4
    <3>2. p[1] = q[1] /\ p[2] = q[2]
      BY <2>2, <3>1
    <3>. QED  BY <3>2
  <2>3. ASSUME NEW c \in SUBSET C PROVE \E p \in (SUBSET A) \X (SUBSET B) : f[p] = c
    <3>. DEFINE p == <<c \cap A, c \cap B>>
    <3>1. p \in (SUBSET A) \X (SUBSET B) /\ f[p] = c
      BY <1>4
    <3>. QED  BY Zenon, <3>1
  <2>. DEFINE D == (SUBSET A) \X (SUBSET B)
              R == SUBSET C
  <2>4. /\ f \in [D -> R] /\ (\A c \in R : \E p \in D : f[p] = c)
        /\ \A p, q \in D : f[p] = f[q] => p = q
    BY Zenon, <2>1, <2>2, <2>3
  <2>. HIDE DEF f, D, R
  <2>5. f \in Bijection(D, R)
    BY ZenonT(40), <2>4 DEF Bijection, Injection, Surjection, IsInjective
  <2>. QED  BY <2>5 DEF D, R
<1>6. IsFiniteSet(SUBSET A) /\ Cardinality(SUBSET A) = 2^m
  BY <1>1, FS_SUBSET
<1>7. IsFiniteSet(SUBSET B) /\ Cardinality(SUBSET B) = 2^n
  BY <1>2, FS_SUBSET
<1>8. Cardinality(SUBSET C) = 2^(m + n)
  BY Zenon, <1>3, FS_SUBSET
<1>. HIDE DEF f
<1>9. ExistsBijection((SUBSET A) \X (SUBSET B), SUBSET C)
  BY Zenon, <1>5 DEF ExistsBijection
<1>10. /\ IsFiniteSet((SUBSET A) \X (SUBSET B))
       /\ Cardinality((SUBSET A) \X (SUBSET B)) = 2^m * 2^n
  <2>. DEFINE P == SUBSET A
              Q == SUBSET B
  <2>1. IsFiniteSet(P) /\ IsFiniteSet(Q) /\ Cardinality(P) = 2^m /\ Cardinality(Q) = 2^n
    BY <1>6, <1>7
  <2>. HIDE DEF P, Q
  <2>2. IsFiniteSet(P \X Q) /\ Cardinality(P \X Q) = Cardinality(P) * Cardinality(Q)
    BY ZenonT(40), <2>1, FS_Product
  <2>. QED  BY <2>1, <2>2 DEF P, Q
<1>. QED  BY <1>8, <1>9, <1>10, FS_Bijection

\* The next power is twice as large.
LEMMA PowerSucc ==
    ASSUME NEW n \in Nat
    PROVE  2^(n + 1) = 2 * 2^n
<1>1. 2^1 = 2
  <2>1. SUBSET (1..1) = {{}} \cup {{1}} /\ {1} \notin {{}}
    OBVIOUS
  <2>2. IsFiniteSet({{}}) /\ Cardinality({{}}) = 1
    BY Zenon, FS_Singleton
  <2>3. Cardinality({{}} \cup {{1}}) = Cardinality({{}}) + 1
    BY <2>1, <2>2, FS_AddElement, Zenon
  <2>5. Cardinality(SUBSET (1..1)) = Cardinality({{}}) + 1
    BY <2>1, <2>3, Zenon
  <2>4. IsFiniteSet(1..1) /\ Cardinality(1..1) = 1
    BY FS_Interval
  <2>6. Cardinality(SUBSET (1..1)) = 2^1
    BY <2>4, FS_SUBSET, Zenon
  <2>. QED  BY <2>2, <2>5, <2>6
<1>2. 2^(n + 1) = 2^n * 2^1
  BY Zenon, PowerSum
<1>3. 2^n \in Nat
  BY PowerOfTwo
<1>. QED  BY <1>1, <1>2, <1>3

=============================================================================
