------------------------- MODULE ModularArithmetic -------------------------
(***************************************************************************)
(* Facts about %, proved from the arithmetic of the SMT solver, for a      *)
(* modulus that is a parameter.  They are what the power-of-two capacity   *)
(* and the unsigned wrap-around of the ring indices rely on.               *)
(***************************************************************************)
EXTENDS Integers, TLAPS

\* The only multiple of c strictly between -c and c is zero.
LEMMA MulSmall ==
  ASSUME NEW c \in Nat \ {0}, NEW k \in Int, -c < c * k, c * k < c
  PROVE  k = 0
  <1>1. CASE k >= 1
    <2>1. c * k >= c BY <1>1
    <2> QED BY <2>1
  <1>2. CASE k <= -1
    <2>1. c * k <= -c BY <1>2
    <2> QED BY <2>1
  <1> QED BY <1>1, <1>2

\* What \div and % mean for a positive divisor.
LEMMA DivMod ==
  ASSUME NEW c \in Nat \ {0}, NEW a \in Int
  PROVE  /\ a = c * (a \div c) + (a % c)
         /\ a % c \in 0..c-1
         /\ a \div c \in Int
  OBVIOUS

\* A remainder is determined by any quotient that leaves it in range.
LEMMA ModUnique ==
  ASSUME NEW c \in Nat \ {0}, NEW q \in Int, NEW r \in 0..c-1
  PROVE  (c * q + r) % c = r
  <1> DEFINE a == c * q + r
             d == a \div c
             k == q - d
  <1>1. a \in Int /\ a = c * q + r
    OBVIOUS
  <1>2. a = c * d + (a % c) /\ a % c \in 0..c-1 /\ d \in Int
    BY <1>1, DivMod
  <1>3. k \in Int /\ c * k = c * q - c * d /\ c * q \in Int /\ c * d \in Int
    BY <1>2
  <1>4. c * k = (a % c) - r
    <2> DEFINE u == c * q
               v == c * d
               w == a % c
    <2>1. a = u + r /\ a = v + w /\ c * k = u - v
      BY <1>1, <1>2, <1>3
    <2>2. u \in Int /\ v \in Int /\ w \in Int /\ c * k \in Int
      BY <1>2, <1>3
    <2> HIDE DEF a, d, k, u, v, w
    <2>3. u - v = w - r
      BY <2>1, <2>2
    <2> QED BY <2>1, <2>3 DEF w
  <1>5. k = 0
    <2> HIDE DEF k
    <2> QED BY <1>2, <1>3, <1>4, MulSmall
  <1>6. c * k = 0
    BY <1>5
  <1> QED BY <1>2, <1>4, <1>6

\* Masking with (capacity - 1) sends two indices less than a capacity apart
\* to two different slots.
LEMMA NearbySlotsDiffer ==
  ASSUME NEW c \in Nat \ {0}, NEW x \in Int, NEW a \in Int, NEW b \in Int,
         b < a, a - b < c
  PROVE  (x + a) % c # (x + b) % c
  <1> SUFFICES ASSUME (x + a) % c = (x + b) % c
               PROVE  FALSE
    OBVIOUS
  <1> DEFINE p == (x + a) \div c
             q == (x + b) \div c
             r == (x + a) % c
             k == p - q
  <1>1. x + a = c * p + r /\ p \in Int /\ r \in Int
    BY DivMod
  <1>2. x + b = c * q + ((x + b) % c) /\ q \in Int
    BY DivMod
  <1>3. k \in Int /\ c * k = c * p - c * q /\ c * p \in Int /\ c * q \in Int
    BY <1>1, <1>2
  <1>4. (x + b) % c = r
    OBVIOUS
  <1> HIDE DEF p, q, r, k
  <1>5. c * k = a - b
    BY <1>1, <1>2, <1>3, <1>4
  <1>6. k = 0
    BY <1>3, <1>5, MulSmall
  <1> QED BY <1>5, <1>6

\* A capacity that divides the range of the index type loses nothing when the
\* index wraps: masking the wrapped index gives the slot of the unwrapped one.
LEMMA ModOfMod ==
  ASSUME NEW c \in Nat \ {0}, NEW M \in Nat \ {0}, NEW x \in Int, M % c = 0
  PROVE  (x % M) % c = x % c
  <1> DEFINE d == x \div M
             m == M \div c
             y == x % M
             q == y \div c
             r == y % c
  <1>1. x = M * d + y /\ d \in Int /\ y \in Int
    BY DivMod
  <1>2. M = c * m /\ m \in Int
    BY DivMod
  <1>3. y = c * q + r /\ q \in Int /\ r \in 0..c-1
    BY <1>1, DivMod
  <1> HIDE DEF d, m, y, q, r
  <1>4. x = c * (m * d + q) + r /\ m * d + q \in Int
    BY <1>1, <1>2, <1>3
  <1>5. x % c = r
    BY <1>3, <1>4, ModUnique
  <1> QED BY <1>5 DEF y, r

\* The two together: two wrapped indices less than a capacity apart have
\* different slots.
LEMMA WrappedSlotsDiffer ==
  ASSUME NEW c \in Nat \ {0}, NEW M \in Nat \ {0}, NEW x \in Int,
         NEW a \in Int, NEW b \in Int, b < a, a - b < c, M % c = 0
  PROVE  ((x + a) % M) % c # ((x + b) % M) % c
  <1>1. (x + a) % c # (x + b) % c
    BY NearbySlotsDiffer
  <1> DEFINE xa == x + a
             xb == x + b
  <1>2. xa \in Int /\ xb \in Int
    OBVIOUS
  <1> HIDE DEF xa, xb
  <1>3. (xa % M) % c = xa % c /\ (xb % M) % c = xb % c
    BY <1>2, ModOfMod
  <1> QED BY <1>1, <1>3 DEF xa, xb

\* Congruent numbers stay congruent when the same amount is added to both.
LEMMA AddToCongruent ==
  ASSUME NEW M \in Nat \ {0}, NEW x \in Int, NEW y \in Int, NEW k \in Int,
         x % M = y % M
  PROVE  (x + k) % M = (y + k) % M
  <1> DEFINE a == x \div M
             b == y \div M
             r == x % M
             u == x + k
             d == u \div M
             s == u % M
             q == d + b - a
  <1>1. x = M * a + r /\ y = M * b + r /\ a \in Int /\ b \in Int /\ r \in Int
    <2>1. x = M * a + r /\ a \in Int /\ r \in 0..M-1
      BY DivMod
    <2>2. y = M * b + (y % M) /\ b \in Int
      BY DivMod
    <2> QED BY <2>1, <2>2
  <1>2. u \in Int /\ u = x + k
    OBVIOUS
  <1>3. u = M * d + s /\ d \in Int /\ s \in 0..M-1
    BY <1>2, DivMod
  <1>4. M * q = M * d + M * b - M * a /\ q \in Int
    BY <1>1, <1>3
  <1>5. /\ M * a \in Int /\ M * b \in Int /\ M * d \in Int /\ M * q \in Int
        /\ s \in Int
    BY <1>1, <1>3, <1>4
  <1>6. y + k = M * q + s
    <2> DEFINE ma == M * a
               mb == M * b
               md == M * d
               mq == M * q
    <2>1. /\ x = ma + r /\ y = mb + r /\ u = x + k /\ u = md + s
          /\ mq = md + mb - ma
          /\ ma \in Int /\ mb \in Int /\ md \in Int /\ mq \in Int /\ s \in Int
          /\ r \in Int
      BY <1>1, <1>2, <1>3, <1>4, <1>5
    <2> HIDE DEF ma, mb, md, mq, a, b, r, u, d, s, q
    <2>2. y + k = mq + s
      BY <2>1
    <2> QED BY <2>2 DEF mq
  <1>7. (M * q + s) % M = s
    <2> HIDE DEF q, s
    <2> QED BY <1>3, <1>4, ModUnique
  <1> QED BY <1>6, <1>7

\* A counter of M values may be reduced before or after an addition.
LEMMA ModOfSum ==
  ASSUME NEW M \in Nat \ {0}, NEW x \in Int, NEW k \in Int
  PROVE  ((x % M) + k) % M = (x + k) % M
  <1> DEFINE r == x % M
  <1>1. r \in 0..M-1
    BY DivMod
  <1>2. r % M = r
    <2> HIDE DEF r
    <2> QED BY <1>1
  <1>3. r \in Int
    BY <1>1
  <1>4. r % M = x % M
    BY <1>2
  <1> HIDE DEF r
  <1>5. (r + k) % M = (x + k) % M
    BY <1>3, <1>4, AddToCongruent
  <1> QED BY <1>5 DEF r
============================================================================
