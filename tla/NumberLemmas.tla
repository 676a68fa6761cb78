------------------------------ MODULE NumberLemmas ------------------------------
(***************************************************************************)
(* Facts about numbers that the proofs of several components need.         *)
(***************************************************************************)
EXTENDS Integers, WellFoundedInduction, TLAPS

\* A nonempty set of numbers has a least one, so that what a search finds first is
\* well defined (the loops of tick(), translate(), tlb_lookup and schedule()).
LEMMA LeastElement ==
    ASSUME NEW T, T \subseteq Nat, T # {}
    PROVE  \E x \in T : \A y \in T : x <= y
<1> DEFINE R == OpToRel(<, Nat)
<1>1. IsWellFoundedOn(R, Nat)
  BY NatLessThanWellFounded
<1>2. PICK x \in T : \A y \in T : ~(<<y, x>> \in R)
  <2> HIDE DEF R
  <2> QED BY <1>1, WFMin
<1>3. \A y \in T : ~(y < x)
  BY <1>2 DEF OpToRel
<1> QED
  BY <1>3

\* Induction over the natural numbers, for the set of the exceptions.
LEMMA NoException ==
    ASSUME NEW T, T \subseteq Nat, 0 \notin T, \A m \in Nat : m \notin T => m + 1 \notin T
    PROVE  T = {}
<1> SUFFICES ASSUME T # {} PROVE FALSE
  OBVIOUS
<1>1. PICK m \in T : \A k \in T : m <= k
  BY LeastElement
<1>2. m \in Nat /\ m # 0
  BY <1>1
<1>3. m - 1 \in Nat /\ m - 1 \notin T /\ (m - 1) + 1 = m
  BY <1>1, <1>2
<1> QED
  BY <1>1, <1>3

\* Products grow with their second factor.
LEMMA ProductMonotonic ==
    ASSUME NEW a \in Nat, NEW b \in Nat, NEW l \in Nat, a < b
    PROVE  l * a + l <= l * b
<1>1. PICK d \in Nat : b = a + 1 + d
  <2>1. b - a - 1 \in Nat /\ b = a + 1 + (b - a - 1)
    OBVIOUS
  <2> QED
    BY <2>1
<1>2. l * (a + 1 + d) = l * a + l + l * d
  OBVIOUS
<1>3. l * d \in Nat /\ l * a \in Nat
  OBVIOUS
<1> QED
  BY <1>1, <1>2, <1>3

\* Quotient and remainder are what they add up from.
LEMMA DivisionUnique ==
    ASSUME NEW l \in Nat, NEW e \in Nat, NEW c \in Nat, c < l
    PROVE  (l * e + c) % l = c /\ (l * e + c) \div l = e
<1> DEFINE n == l * e + c
           q == n \div l
           r == n % l
<1>1. l * e \in Nat /\ n \in Nat
  OBVIOUS
<1>2. q \in Nat /\ r \in 0 .. l - 1 /\ n = l * q + r
  <2> HIDE DEF n
  <2> QED
    BY <1>1
<1> HIDE DEF q, r
<1>3. ~(q < e)
  <2>1. q < e => l * q + l <= l * e
    BY <1>2, ProductMonotonic
  <2>2. l * q \in Nat
    BY <1>2
  <2> QED
    BY <1>1, <1>2, <2>1, <2>2
<1>4. ~(e < q)
  <2>1. e < q => l * e + l <= l * q
    BY <1>2, ProductMonotonic
  <2>2. l * q \in Nat
    BY <1>2
  <2> QED
    BY <1>1, <1>2, <2>1, <2>2
<1>5. q = e
  BY <1>2, <1>3, <1>4
<1>6. r = c
  BY <1>1, <1>2, <1>5
<1> QED
  BY <1>5, <1>6 DEF q, r

\* Reducing on the way does not change a sum's remainder.
LEMMA SumModulo ==
    ASSUME NEW a \in Nat, NEW b \in Nat, NEW l \in Nat \ {0}
    PROVE  ((a % l) + b) % l = (a + b) % l
<1> DEFINE r == a % l
           e == a \div l
           q == (r + b) % l
           f == (r + b) \div l
<1>1. r \in Nat /\ e \in Nat /\ a = l * e + r
  OBVIOUS
<1> HIDE DEF r, e
<1>2. q \in Nat /\ f \in Nat /\ q < l /\ r + b = l * f + q
  BY <1>1
<1> HIDE DEF q, f
<1>3. l * e \in Nat /\ l * f \in Nat /\ l * (e + f) = l * e + l * f
  BY <1>1, <1>2
<1>4. a + b = l * (e + f) + q
  BY <1>1, <1>2, <1>3
<1>5. (l * (e + f) + q) % l = q
  <2> DEFINE h == e + f
  <2>1. h \in Nat
    BY <1>1, <1>2
  <2> HIDE DEF h
  <2>2. (l * h + q) % l = q
    BY <1>2, <2>1, DivisionUnique
  <2> QED
    BY <2>2 DEF h
<1> QED
  BY <1>4, <1>5 DEF q, r

\* Multiples of the divisor do not change a remainder, of integers of either sign (the
\* arithmetic of registers that wrap).
LEMMA ModuloShift ==
    ASSUME NEW x \in Int, NEW k \in Int, NEW l \in Nat \ {0}
    PROVE  (x + l * k) % l = x % l
<1> DEFINE r == x % l
           e == x \div l
           n == x + l * k
           s == n % l
           f == n \div l
<1>1. r \in 0 .. l - 1 /\ e \in Int /\ x = l * e + r
  OBVIOUS
<1>2. l * k \in Int /\ n \in Int
  OBVIOUS
<1>3. s \in 0 .. l - 1 /\ f \in Int /\ n = l * f + s
  <2> HIDE DEF n
  <2> QED
    BY <1>2
<1>4. n = l * (e + k) + r
  <2>1. l * (e + k) = l * e + l * k
    BY <1>1
  <2> HIDE DEF r, e
  <2> QED
    BY <1>1, <2>1
<1> HIDE DEF r, e, n, s, f
<1> DEFINE d == (e + k) - f
<1>5. d \in Int /\ s - r = l * d
  <2>1. l * ((e + k) - f) = l * (e + k) - l * f
    BY <1>1, <1>3
  <2>2. l * (e + k) \in Int /\ l * f \in Int
    BY <1>1, <1>3
  <2> QED
    BY <1>1, <1>3, <1>4, <2>1, <2>2
<1> HIDE DEF d
<1>6. d = 0
  <2>1. CASE d >= 1
    <3>1. d - 1 \in Nat
      BY <1>5, <2>1
    <3>2. l * d = l + l * (d - 1) /\ l * (d - 1) >= 0
      BY <1>5, <3>1
    <3> QED
      BY <1>1, <1>3, <1>5, <3>2
  <2>2. CASE d <= -1
    <3>1. -d - 1 \in Nat
      BY <1>5, <2>2
    <3>2. l * d = -(l + l * (-d - 1)) /\ l * (-d - 1) >= 0
      BY <1>5, <3>1
    <3> QED
      BY <1>1, <1>3, <1>5, <3>2
  <2> QED
    BY <1>5, <2>1, <2>2
<1>7. s = r
  BY <1>1, <1>3, <1>5, <1>6
<1> QED
  BY <1>7 DEF s, r, n

\* The remainder of a sum, a difference and a product is that of the remainders'.
LEMMA ModuloArithmetic ==
    ASSUME NEW a \in Int, NEW b \in Int, NEW l \in Nat \ {0}
    PROVE  /\ (a + b) % l = ((a % l) + (b % l)) % l
           /\ (a - b) % l = ((a % l) - (b % l)) % l
           /\ (a * b) % l = ((a % l) * (b % l)) % l
<1> DEFINE c == a % l
           d == b % l
           e == a \div l
           f == b \div l
<1>1. c \in Int /\ d \in Int /\ e \in Int /\ f \in Int /\ a = l * e + c /\ b = l * f + d
  OBVIOUS
<1> HIDE DEF c, d, e, f
<1>2. (a + b) % l = (c + d) % l
  <2> DEFINE x == c + d
             k == e + f
  <2>1. x \in Int /\ k \in Int /\ a + b = x + l * k
    BY <1>1
  <2> HIDE DEF x, k
  <2>2. (x + l * k) % l = x % l
    BY <2>1, ModuloShift
  <2> QED
    BY <2>1, <2>2 DEF x
<1>3. (a - b) % l = (c - d) % l
  <2> DEFINE x == c - d
             k == e - f
  <2>1. x \in Int /\ k \in Int /\ a - b = x + l * k
    BY <1>1
  <2> HIDE DEF x, k
  <2>2. (x + l * k) % l = x % l
    BY <2>1, ModuloShift
  <2> QED
    BY <2>1, <2>2 DEF x
<1>4. (a * b) % l = (c * d) % l
  <2> DEFINE x == c * d
             k == e * (l * f) + (e * d + c * f)
  <2>1. x \in Int /\ k \in Int
    BY <1>1
  <2>2. a * b = x + l * k
    BY <1>1
  <2> HIDE DEF x, k
  <2>3. (x + l * k) % l = x % l
    BY <2>1, ModuloShift
  <2> QED
    BY <2>2, <2>3 DEF x
<1> QED
  BY <1>2, <1>3, <1>4 DEF c, d

\* The low half of a value of double width.
LEMMA LowHalf ==
    ASSUME NEW x \in Int, NEW l \in Nat \ {0}
    PROVE  (x % (l * l)) % l = x % l
<1> DEFINE w == l * l
           r == x % w
           e == x \div w
<1>1. w \in Nat \ {0}
  OBVIOUS
<1>2. r \in Int /\ e \in Int /\ x = w * e + r
  <2> HIDE DEF w
  <2> QED
    BY <1>1
<1> HIDE DEF r, e
<1>3. x = r + l * (l * e) /\ l * e \in Int
  BY <1>2
<1>4. (r + l * (l * e)) % l = r % l
  <2> DEFINE k == l * e
  <2>1. k \in Int
    BY <1>3
  <2> HIDE DEF k
  <2>2. (r + l * k) % l = r % l
    BY <1>2, <2>1, ModuloShift
  <2> QED
    BY <2>2 DEF k
<1> QED
  BY <1>3, <1>4 DEF r
================================================================================
