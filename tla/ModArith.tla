------------------------------ MODULE ModArith ------------------------------
(***************************************************************************)
(* Facts about remainders that the ring buffers of the server rest on: the *)
(* SPSC ring (counters wrap at the word size, slots at the capacity), the  *)
(* canvas pool (slots at the pool size), the timing wheel (buckets at the  *)
(* number of ticks) and the cooldown bitset (chunk and bit of a user id).  *)
(***************************************************************************)
EXTENDS Integers, TLAPS

(* A remainder is below its modulus. *)
LEMMA ModRange ==
  ASSUME NEW n \in Nat \ {0}, NEW a \in Int
  PROVE  a % n \in 0 .. n - 1
OBVIOUS

(* Division with remainder. *)
LEMMA DivMod ==
  ASSUME NEW n \in Nat \ {0}, NEW a \in Int
  PROVE  a \div n \in Int /\ a = n * (a \div n) + (a % n)
OBVIOUS

(* Quotient and remainder are unique. *)
LEMMA DivModUnique ==
  ASSUME NEW n \in Nat \ {0}, NEW p \in Int, NEW q \in Int,
         NEW r \in 0 .. n - 1, NEW s \in 0 .. n - 1,
         n * p + r = n * q + s
  PROVE  p = q /\ r = s
<1>1. ASSUME p > q PROVE FALSE
  <2>1. n * (p - q) >= n
    BY <1>1
  <2>2. QED
    BY <1>1, <2>1
<1>2. ASSUME p < q PROVE FALSE
  <2>1. n * (q - p) >= n
    BY <1>2
  <2>2. QED
    BY <1>2, <2>1
<1>3. QED
  BY <1>1, <1>2

(* The remainder of a number written as quotient and remainder. *)
LEMMA ModIs ==
  ASSUME NEW n \in Nat \ {0}, NEW q \in Int, NEW r \in 0 .. n - 1
  PROVE  (n * q + r) % n = r
<1>1. n * q + r \in Int
  OBVIOUS
<1>2. QED
  BY <1>1, DivMod, ModRange, DivModUnique

(* A number below the modulus is its own remainder. *)
LEMMA ModSmall ==
  ASSUME NEW n \in Nat \ {0}, NEW r \in 0 .. n - 1
  PROVE  r % n = r
<1>1. (n * 0 + r) % n = r
  BY ModIs
<1>2. QED
  BY <1>1

(* Numbers less than a modulus apart have different remainders. *)
LEMMA ModApart ==
  ASSUME NEW n \in Nat \ {0}, NEW a \in Int, NEW b \in Int,
         a <= b, b - a < n, a % n = b % n
  PROVE  a = b
<1> DEFINE k == (b \div n) - (a \div n)
<1>1. k \in Int /\ b - a = n * k
  BY DivMod
<1> HIDE DEF k
<1>2. ~ (k >= 1)
  <2>1. k >= 1 => n * k >= n
    BY <1>1
  <2>2. QED
    BY <1>1, <2>1
<1>3. ~ (k <= -1)
  <2>1. k <= -1 => n * k <= - n
    BY <1>1
  <2>2. QED
    BY <1>1, <2>1
<1>4. QED
  BY <1>1, <1>2, <1>3

(* A remainder commutes with a coarser one whose modulus it divides. *)
LEMMA ModMod ==
  ASSUME NEW n \in Nat \ {0}, NEW m \in Nat \ {0}, m % n = 0, NEW a \in Int
  PROVE  (a % m) % n = a % n
<1> DEFINE k == m \div n
           p == a \div m
           q == (a % m) \div n
           r == (a % m) % n
<1>1. k \in Int /\ m = n * k
  BY DivMod
<1>2. p \in Int /\ a = m * p + (a % m) /\ a % m \in Int
  BY DivMod, ModRange
<1>3. q \in Int /\ a % m = n * q + r /\ r \in 0 .. n - 1
  BY <1>2, DivMod, ModRange
<1> HIDE DEF k, p, q, r
<1>4. a = n * (k * p + q) + r
  <2>1. a = (n * k) * p + (n * q + r)
    BY <1>1, <1>2, <1>3
  <2>2. QED
    BY <1>1, <1>2, <1>3, <2>1
<1>5. k * p + q \in Int
  BY <1>1, <1>2, <1>3
<1>6. a % n = r
  BY <1>3, <1>4, <1>5, ModIs
<1>7. QED
  BY <1>6 DEF r

(* Taking the remainder early does not change the remainder of a successor. *)
LEMMA ModSucc ==
  ASSUME NEW n \in Nat \ {0}, NEW a \in Int
  PROVE  ((a % n) + 1) % n = (a + 1) % n
<1> DEFINE p == a \div n
           q == ((a % n) + 1) \div n
           r == ((a % n) + 1) % n
<1>1. p \in Int /\ a = n * p + (a % n) /\ a % n \in Int
  BY DivMod, ModRange
<1>2. q \in Int /\ (a % n) + 1 = n * q + r /\ r \in 0 .. n - 1
  BY <1>1, DivMod, ModRange
<1> HIDE DEF p, q, r
<1>3. a + 1 = n * (p + q) + r /\ p + q \in Int
  BY <1>1, <1>2
<1>4. (a + 1) % n = r
  BY <1>2, <1>3, ModIs
<1>5. QED
  BY <1>4 DEF r

(* Wrapping subtraction recovers the distance between two counters. *)
LEMMA ModDistance ==
  ASSUME NEW n \in Nat \ {0}, NEW a \in Int, NEW b \in Int,
         b <= a, a - b < n
  PROVE  ((a % n) - (b % n)) % n = a - b
<1> DEFINE q == (b \div n) - (a \div n)
<1>1. q \in Int /\ (a % n) - (b % n) = n * q + (a - b)
  BY DivMod
<1> HIDE DEF q
<1>2. a - b \in 0 .. n - 1
  OBVIOUS
<1>3. QED
  BY <1>1, <1>2, ModIs

(* Remainders move with their numbers. *)
LEMMA ModShift ==
  ASSUME NEW n \in Nat \ {0}, NEW a \in Int, NEW k \in Int,
         (a % n) + k \in 0 .. n - 1
  PROVE  (a + k) % n = (a % n) + k
<1>1. a \div n \in Int /\ a = n * (a \div n) + (a % n) /\ a % n \in Int
  BY DivMod, ModRange
<1> DEFINE q == a \div n
           r == (a % n) + k
<1>2. q \in Int /\ r \in 0 .. n - 1 /\ a + k = n * q + r
  BY <1>1
<1> HIDE DEF q, r
<1>3. (n * q + r) % n = r
  BY <1>2, ModIs, Zenon
<1>4. QED
  BY <1>2, <1>3 DEF r

(* A full turn changes no remainder. *)
LEMMA ModTurn ==
  ASSUME NEW n \in Nat \ {0}, NEW a \in Int
  PROVE  (a + n) % n = a % n
<1> DEFINE q == a \div n
           r == a % n
<1>1. q \in Int /\ a = n * q + r
  BY DivMod, Zenon
<1>2. r \in 0 .. n - 1
  BY ModRange, Zenon
<1> HIDE DEF q, r
<1>3. n * (q + 1) = n * q + n /\ q + 1 \in Int
  BY <1>1
<1>4. a + n = n * (q + 1) + r
  BY <1>1, <1>2, <1>3
<1>5. (n * (q + 1) + r) % n = r
  BY <1>2, <1>3, ModIs, Zenon
<1>6. QED
  BY <1>4, <1>5 DEF r
=============================================================================
