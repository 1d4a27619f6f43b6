----------------------------- MODULE Remainders -----------------------------
(***************************************************************************)
(* What follows from a quotient and a remainder, which the prover needs to *)
(* be told when the divisor is not a number: the offsets of a ring modulo  *)
(* its size, and the conversions of C++ modulo a power of two.             *)
(***************************************************************************)
EXTENDS Integers, TLAPS

\* A remainder is below the divisor.
LEMMA ModRange ==
  ASSUME NEW n \in Nat \ {0}, NEW a \in Int
  PROVE  a % n \in 0..(n - 1)
BY SMT

\* A number below the divisor is its own remainder.
LEMMA ModSmall ==
  ASSUME NEW n \in Nat \ {0}, NEW a \in 0..(n - 1)
  PROVE  a % n = a
BY SMT

\* A number is a multiple of the divisor and its remainder.
LEMMA ModQuot ==
  ASSUME NEW n \in Nat \ {0}, NEW a \in Int
  PROVE  \E q \in Int : a = n * q + (a % n)
<1>1. a = n * (a \div n) + (a % n)
  BY SMT
<1>2. a \div n \in Int
  BY SMT
<1> QED BY <1>1, <1>2, Zenon

\* There is only one remainder.
LEMMA ModUnique ==
  ASSUME NEW n \in Nat \ {0}, NEW q \in Int, NEW r \in 0..(n - 1)
  PROVE  (n * q + r) % n = r
BY SMT

\* Adding the modulus changes nothing.
LEMMA ModShift ==
  ASSUME NEW n \in Nat \ {0}, NEW a \in Int
  PROVE  (a + n) % n = a % n
<1> DEFINE r == a % n
<1>1. PICK q \in Int : a = n * q + r
  BY ModQuot
<1>2. r \in 0..(n - 1)
  BY ModRange
<1>3. a + n = n * (q + 1) + r
  BY <1>1, <1>2
<1> HIDE DEF r
<1>4. (n * (q + 1) + r) % n = r
  BY ModUnique, <1>2
<1> QED BY <1>3, <1>4 DEF r

\* Congruent numbers stay so when the same is added to both.
LEMMA ModCong ==
  ASSUME NEW n \in Nat \ {0}, NEW a \in Int, NEW b \in Int, NEW c \in Int,
         a % n = b % n
  PROVE  (a + c) % n = (b + c) % n
<1> DEFINE m == a % n
<1>0. m \in Int
  BY ModRange
<1>1. PICK q \in Int : a = n * q + m
  BY ModQuot
<1>2. PICK p \in Int : b = n * p + m
  BY ModQuot
<1> HIDE DEF m
<1> DEFINE x == m + c
           r == x % n
<1>3. x \in Int
  BY <1>0
<1>4. x = m + c
  OBVIOUS
<1> HIDE DEF x
<1>5. PICK k \in Int : x = n * k + r
  BY ModQuot, <1>3
<1>6. r \in 0..(n - 1)
  BY ModRange, <1>3
<1> HIDE DEF r
<1>7. a + c = n * (q + k) + r
  BY <1>0, <1>1, <1>4, <1>5, <1>6
<1>8. b + c = n * (p + k) + r
  BY <1>0, <1>2, <1>4, <1>5, <1>6
<1>9. (n * (q + k) + r) % n = r /\ (n * (p + k) + r) % n = r
  BY <1>6, ModUnique
<1> QED BY <1>7, <1>8, <1>9

\* a and b are congruent modulo n.
Cong(n, a, b) == a % n = b % n

\* ModCong again, for numbers whose remainders the prover need not see.
LEMMA CongAdd ==
  ASSUME NEW n \in Nat \ {0}, NEW a \in Int, NEW b \in Int, NEW c \in Int,
         Cong(n, a, b)
  PROVE  Cong(n, a + c, b + c)
<1>1. a % n = b % n
  BY DEF Cong
<1>2. (a + c) % n = (b + c) % n
  BY <1>1, ModCong
<1> QED BY <1>2 DEF Cong

\* The differences of congruent numbers are congruent.
LEMMA CongDiff ==
  ASSUME NEW n \in Nat \ {0}, NEW a \in Int, NEW b \in Int,
         NEW c \in Int, NEW d \in Int, Cong(n, a, b), Cong(n, c, d)
  PROVE  Cong(n, a - c, b - d)
<1>0. a % n = b % n /\ c % n = d % n
  BY DEF Cong
<1> DEFINE x == 0 - c
           y == b - c - d
<1>1. /\ x \in Int /\ y \in Int
      /\ a + x = a - c /\ b + x = b - c
      /\ c + y = b - d /\ d + y = b - c
  OBVIOUS
<1> HIDE DEF x, y
<1>2. (a + x) % n = (b + x) % n
  BY <1>0, <1>1, ModCong
<1>3. (c + y) % n = (d + y) % n
  BY <1>0, <1>1, ModCong
<1> QED BY <1>1, <1>2, <1>3 DEF Cong

\* Congruent numbers that are closer than the modulus are equal.
LEMMA ModClose ==
  ASSUME NEW n \in Nat \ {0}, NEW a \in Int, NEW b \in Int,
         a % n = b % n, 0 <= a - b, a - b < n
  PROVE  a = b
<1>1. PICK q \in Int : a = n * q + (a % n)
  BY ModQuot
<1>2. PICK p \in Int : b = n * p + (b % n)
  BY ModQuot
<1>3. a - b = n * (q - p)
  BY <1>1, <1>2
<1>4. ASSUME NEW d \in Int, 0 <= n * d, n * d < n PROVE d = 0
  BY <1>4
<1>5. q - p = 0
  BY <1>3, <1>4
<1> QED BY <1>3, <1>5

\* The quotient of a natural number is no larger.
LEMMA DivRange ==
  ASSUME NEW n \in Nat \ {0}, NEW a \in Nat
  PROVE  a \div n \in 0..a
<1>1. PICK q \in Int : q = a \div n
  BY SMT
<1>2. PICK r \in 0..(n - 1) : a = n * q + r
  BY <1>1, SMT
<1>3. q >= 0
  <2> SUFFICES ASSUME q <= -1 PROVE FALSE
    BY SMT
  <2>1. n * q <= n * (-1)
    BY SMT
  <2>2. n * (-1) = -n
    BY SMT
  <2>3. n * q \in Int
    BY SMT
  <2> QED BY <1>2, <2>1, <2>2, <2>3, SMT
<1>4. n * q >= q
  BY <1>3, SMT
<1>5. n * q \in Int
  BY SMT
<1>6. q <= a
  BY <1>2, <1>4, <1>5, SMT
<1> QED BY <1>1, <1>3, <1>6, SMT

\* A multiple of the divisor has an exact quotient.
LEMMA DivExact ==
  ASSUME NEW n \in Nat \ {0}, NEW q \in Nat
  PROVE  (q * n) \div n = q /\ (q * n) % n = 0
<1>1. q * n = n * q + 0 /\ q * n \in Int
  BY SMT
<1>2. (q * n) % n = 0
  <2>1. 0 \in 0..(n - 1)
    BY SMT
  <2>2. (n * q + 0) % n = 0
    BY <2>1, ModUnique
  <2> QED BY <1>1, <2>2
<1>3. PICK p \in Int : p = (q * n) \div n
  BY <1>1, SMT
<1>4. q * n = n * p + 0
  BY <1>1, <1>2, <1>3, SMT
<1>5. n * (q - p) = 0
  BY <1>1, <1>4, SMT
<1>6. q - p = 0
  BY <1>5, SMT
<1> QED BY <1>2, <1>3, <1>6, SMT
=============================================================================
