---------------------------- MODULE Clock_proofs ----------------------------
(***************************************************************************)
(* ClockInv is inductive: whatever the system clock is set to, the timers  *)
(* of master and worker fire no more often than real time and the changes  *)
(* of the clock pay for.                                                   *)
(***************************************************************************)
EXTENDS Clock, ModArith, TLAPS

USE ClockAssumption

(* The readings and counters with their types, one by one. *)
LEMMA Types ==
  ASSUME TypeOK
  PROVE  /\ system_ms \in Nat /\ system_ms <= MAX_MS
         /\ time_ms \in Nat /\ time_ms <= MAX_MS
         /\ last_broadcast_time \in Nat /\ last_broadcast_time <= MAX_MS
         /\ last_timeout_ms \in Nat /\ last_tick_sec \in Nat
         /\ elapsed \in Nat /\ jumps \in Nat /\ published \in Nat /\ ticks \in Nat
BY DEF TypeOK

(* Second and remainder of a reading. *)
LEMMA Seconds ==
  ASSUME NEW b \in Nat
  PROVE  /\ b \div MS_PER_SEC \in Nat
         /\ b % MS_PER_SEC \in 0 .. MS_PER_SEC - 1
         /\ b \div MS_PER_SEC <= b
<1> DEFINE n == MS_PER_SEC
           q == b \div n
           r == b % n
<1>1. n \in Nat \ {0}
  OBVIOUS
<1>2. q \in Int /\ b = n * q + r
  BY <1>1, DivMod
<1>3. r \in 0 .. n - 1
  BY <1>1
<1> HIDE DEF n, q, r
<1>4. q >= 0
  <2>1. SUFFICES ASSUME q <= -1 PROVE FALSE
    BY <1>2
  <2>2. n * q <= n * (-1)
    BY <2>1, <1>1, <1>2
  <2>3. QED
    BY <2>2, <1>1, <1>2, <1>3
<1>5. q <= n * q
  BY <1>1, <1>2, <1>4
<1>6. q <= b
  BY <1>1, <1>2, <1>3, <1>5
<1>7. QED
  BY <1>2, <1>3, <1>4, <1>6 DEF n, q, r

(* A millisecond later: the same second, or the start of the next. *)
LEMMA NextSecond ==
  ASSUME NEW b \in Nat
  PROVE  \/ /\ (b + 1) \div MS_PER_SEC = b \div MS_PER_SEC
            /\ (b + 1) % MS_PER_SEC = (b % MS_PER_SEC) + 1
         \/ /\ (b + 1) \div MS_PER_SEC = b \div MS_PER_SEC + 1
            /\ (b + 1) % MS_PER_SEC = 0
            /\ b % MS_PER_SEC = MS_PER_SEC - 1
<1> DEFINE n == MS_PER_SEC
           q == b \div n
           r == b % n
           p == (b + 1) \div n
           s == (b + 1) % n
<1>1. n \in Nat \ {0}
  OBVIOUS
<1>2. q \in Int /\ b = n * q + r /\ p \in Int /\ b + 1 = n * p + s
  BY <1>1, DivMod
<1>3. r \in 0 .. n - 1 /\ s \in 0 .. n - 1
  BY <1>1
<1> HIDE DEF n, q, r, p, s
<1>4. CASE r < n - 1
  <2>1. r + 1 \in 0 .. n - 1 /\ n * q + (r + 1) = n * p + s
    BY <1>1, <1>2, <1>3, <1>4
  <2>2. q = p /\ r + 1 = s
    BY <2>1, <1>1, <1>2, <1>3, DivModUnique
  <2>3. QED
    BY <2>2 DEF n, q, r, p, s
<1>5. CASE r = n - 1
  <2>1. n * (q + 1) = n * q + n
    BY <1>1, <1>2
  <2>2. n * (q + 1) + 0 = n * p + s /\ q + 1 \in Int /\ 0 \in 0 .. n - 1
    BY <2>1, <1>1, <1>2, <1>3, <1>5
  <2>3. q + 1 = p /\ 0 = s
    BY <2>2, <1>1, <1>2, <1>3, DivModUnique
  <2>4. QED
    BY <2>3, <1>5 DEF n, q, r, p, s
<1>6. QED
  BY <1>1, <1>3, <1>4, <1>5

-----------------------------------------------------------------------------
(* Credit of the publication timer: bounded, empty at once, and growing at  *)
(* most as fast as the clock.                                               *)
LEMMA CreditFacts ==
  ASSUME NEW a \in Nat, NEW b \in Nat
  PROVE  /\ Credit(a, b) \in Nat /\ Credit(a, b) <= BROADCAST_INTERVAL_MS
         /\ Credit(a, a) = 0
         /\ Credit(a, b + 1) <= Credit(a, b) + 1
BY DEF Credit

(* When the master publishes, a whole interval is to its credit: the        *)
(* wrapping subtraction is exact where it matters.                          *)
LEMMA DueIsPaid ==
  ASSUME TypeOK, BroadcastDue(time_ms)
  PROVE  Credit(last_broadcast_time, time_ms) = BROADCAST_INTERVAL_MS
<1> DEFINE d == time_ms - last_broadcast_time
<1>1. d \in Int /\ d % WORD >= BROADCAST_INTERVAL_MS
  BY Types DEF BroadcastDue
<1>2. SUFFICES ASSUME d \in 0 .. BROADCAST_INTERVAL_MS - 1 PROVE FALSE
  BY DEF Credit
<1>3. WORD \in Nat \ {0} /\ d \in 0 .. WORD - 1
  BY <1>2
<1>4. d % WORD = d
  BY <1>3, ModSmall
<1>5. QED
  BY <1>1, <1>2, <1>4

(* Credit of the wheel: less than two seconds, growing at most as fast as   *)
(* the clock.                                                               *)
LEMMA TickCreditFacts ==
  ASSUME NEW a \in Nat, NEW b \in Nat
  PROVE  /\ TickCredit(a, b) \in Nat /\ TickCredit(a, b) < 2 * MS_PER_SEC
         /\ TickCredit(a, b + 1) <= TickCredit(a, b) + 1
         /\ TickCredit(b \div MS_PER_SEC, b) = b % MS_PER_SEC
         /\ b \div MS_PER_SEC > a => TickCredit(a, b) = MS_PER_SEC + (b % MS_PER_SEC)
<1> DEFINE n == MS_PER_SEC
           q == b \div n
           r == b % n
           p == (b + 1) \div n
           t == (b + 1) % n
<1>1. n \in Nat \ {0} /\ q \in Nat /\ r \in 0 .. n - 1
  BY Seconds
<1>2. b + 1 \in Nat
  OBVIOUS
<1>3. p \in Nat /\ t \in 0 .. n - 1
  BY <1>2, Seconds
<1>4. (p = q /\ t = r + 1) \/ (p = q + 1 /\ t = 0 /\ r = n - 1)
  BY NextSecond
<1>5. TickCredit(a, b) = IF q < a THEN 0 ELSE IF q = a THEN r ELSE n + r
  BY DEF TickCredit
<1>6. TickCredit(a, b + 1) = IF p < a THEN 0 ELSE IF p = a THEN t ELSE n + t
  BY DEF TickCredit
<1>7. TickCredit(q, b) = r
  BY <1>1 DEF TickCredit
<1> HIDE DEF n, q, r, p, t
<1>8. TickCredit(a, b) \in Nat /\ TickCredit(a, b) < 2 * n
  BY <1>1, <1>5
<1>9. TickCredit(a, b + 1) <= TickCredit(a, b) + 1
  BY <1>1, <1>3, <1>4, <1>5, <1>6
<1>10. q > a => TickCredit(a, b) = n + r
  BY <1>1, <1>5
<1>11. QED
  BY <1>7, <1>8, <1>9, <1>10 DEF n, q, r

(* What the copy is behind: at least what a tick now would leave to the     *)
(* system clock.                                                            *)
LEMMA CopyCreditFacts ==
  ASSUME NEW a \in Nat, NEW b \in Nat
  PROVE  /\ CopyCredit(a, b) \in Nat /\ CopyCredit(a, b) < 2 * MS_PER_SEC
         /\ CopyCredit(a, a) = 0
         /\ CopyCredit(a, b + 1) <= CopyCredit(a, b) + 1
         /\ TickCredit(a \div MS_PER_SEC, b) <= (a % MS_PER_SEC) + CopyCredit(a, b)
<1> DEFINE s == a \div MS_PER_SEC
<1>1. s \in Nat /\ a % MS_PER_SEC \in 0 .. MS_PER_SEC - 1
  BY Seconds
<1>2. TickCredit(s, a) = a % MS_PER_SEC
  BY TickCreditFacts
<1> HIDE DEF s
<1>3. /\ TickCredit(s, b) \in Nat /\ TickCredit(s, b) < 2 * MS_PER_SEC
      /\ TickCredit(s, b + 1) <= TickCredit(s, b) + 1
  BY <1>1, TickCreditFacts
<1>5. b + 1 \in Nat
  OBVIOUS
<1>6. TickCredit(s, b + 1) \in Nat /\ TickCredit(s, b + 1) < 2 * MS_PER_SEC
  BY <1>1, <1>5, TickCreditFacts
<1>4. QED
  BY <1>1, <1>2, <1>3, <1>6 DEF CopyCredit, s

(* Products with a counter that goes up by one. *)
LEMMA OneMore ==
  ASSUME NEW n \in Nat, NEW k \in Nat
  PROVE  /\ n * k \in Nat
         /\ (n + 1) * k = n * k + k
         /\ (2 * n + 1) * k \in Nat
         /\ (2 * (n + 1) + 1) * k = (2 * n + 1) * k + 2 * k
OBVIOUS

-----------------------------------------------------------------------------
(* The budgets with the products named, as each action needs them. *)
Paid == elapsed + jumps * BROADCAST_INTERVAL_MS
Spent == published * BROADCAST_INTERVAL_MS
TickPaid == elapsed + (2 * jumps + 1) * MS_PER_SEC
TickSpent == ticks * MS_PER_SEC

Covered(spent, paid, fired, copy, clock) ==
  /\ spent + Credit(fired, copy) + Credit(copy, clock) <= paid
  /\ spent + Credit(fired, clock) <= paid
TickCovered(spent, paid, fired, copy, clock) ==
  /\ spent + TickCredit(fired, copy) + CopyCredit(copy, clock) < paid
  /\ spent + TickCredit(fired, clock) < paid

(* The two rates in these terms, before and after a step. *)
LEMMA Budgets ==
  /\ PublicationRate <=> Covered(Spent, Paid, last_broadcast_time, time_ms, system_ms)
  /\ PublicationRate' <=> Covered(Spent', Paid', last_broadcast_time', time_ms', system_ms')
  /\ TickBudget <=> TickCovered(TickSpent, TickPaid, last_tick_sec, time_ms, system_ms)
  /\ TickBudget' <=> TickCovered(TickSpent', TickPaid', last_tick_sec', time_ms', system_ms')
BY DEF PublicationRate, TickBudget, Covered, TickCovered, Paid, Spent, TickPaid, TickSpent

(* The products are natural numbers. *)
LEMMA BudgetTypes ==
  ASSUME TypeOK
  PROVE  /\ Paid \in Nat /\ Spent \in Nat
         /\ TickPaid \in Nat /\ TickSpent \in Nat
BY Types, OneMore DEF Paid, Spent, TickPaid, TickSpent

(* What the actions do to a budget, whatever the readings: time passes, ... *)
LEMMA CoveredPass ==
  ASSUME NEW x \in Nat, NEW y \in Nat, NEW a \in Nat, NEW b \in Nat, NEW c \in Nat
  PROVE  /\ Covered(x, y, a, b, c) => Covered(x, y + 1, a, b, c + 1)
         /\ TickCovered(x, y, a, b, c) => TickCovered(x, y + 1, a, b, c + 1)
<1>1. c + 1 \in Nat
  OBVIOUS
<1>2. Covered(x, y, a, b, c) => Covered(x, y + 1, a, b, c + 1)
  <2>1. /\ Credit(a, b) \in Nat
        /\ Credit(b, c) \in Nat /\ Credit(b, c + 1) \in Nat
        /\ Credit(a, c) \in Nat /\ Credit(a, c + 1) \in Nat
    BY <1>1, CreditFacts
  <2>2. Credit(b, c + 1) <= Credit(b, c) + 1 /\ Credit(a, c + 1) <= Credit(a, c) + 1
    BY CreditFacts
  <2>3. QED
    BY <2>1, <2>2 DEF Covered
<1>3. TickCovered(x, y, a, b, c) => TickCovered(x, y + 1, a, b, c + 1)
  <2>1. /\ TickCredit(a, b) \in Nat
        /\ CopyCredit(b, c) \in Nat /\ CopyCredit(b, c + 1) \in Nat
        /\ TickCredit(a, c) \in Nat /\ TickCredit(a, c + 1) \in Nat
    BY <1>1, TickCreditFacts, CopyCreditFacts
  <2>2. CopyCredit(b, c + 1) <= CopyCredit(b, c) + 1 /\ TickCredit(a, c + 1) <= TickCredit(a, c) + 1
    BY TickCreditFacts, CopyCreditFacts
  <2>3. QED
    BY <2>1, <2>2 DEF TickCovered
<1>4. QED
  BY <1>2, <1>3

(* ... the clock is set, ... *)
LEMMA CoveredSet ==
  ASSUME NEW x \in Nat, NEW y \in Nat, NEW a \in Nat, NEW b \in Nat, NEW c \in Nat,
         NEW d \in Nat
  PROVE  /\ Covered(x, y, a, b, c) => Covered(x, y + BROADCAST_INTERVAL_MS, a, b, d)
         /\ TickCovered(x, y, a, b, c) => TickCovered(x, y + 2 * MS_PER_SEC, a, b, d)
<1>1. Covered(x, y, a, b, c) => Covered(x, y + BROADCAST_INTERVAL_MS, a, b, d)
  <2>1. /\ Credit(a, b) \in Nat /\ Credit(b, c) \in Nat /\ Credit(a, c) \in Nat
        /\ Credit(b, d) \in Nat /\ Credit(b, d) <= BROADCAST_INTERVAL_MS
        /\ Credit(a, d) \in Nat /\ Credit(a, d) <= BROADCAST_INTERVAL_MS
    BY CreditFacts
  <2>2. QED
    BY <2>1 DEF Covered
<1>2. TickCovered(x, y, a, b, c) => TickCovered(x, y + 2 * MS_PER_SEC, a, b, d)
  <2>1. /\ TickCredit(a, b) \in Nat /\ CopyCredit(b, c) \in Nat /\ TickCredit(a, c) \in Nat
        /\ CopyCredit(b, d) \in Nat /\ CopyCredit(b, d) < 2 * MS_PER_SEC
        /\ TickCredit(a, d) \in Nat /\ TickCredit(a, d) < 2 * MS_PER_SEC
    BY TickCreditFacts, CopyCreditFacts
  <2>2. QED
    BY <2>1 DEF TickCovered
<1>3. QED
  BY <1>1, <1>2

(* ... the copy is refreshed, ... *)
LEMMA CoveredUpdate ==
  ASSUME NEW x \in Nat, NEW y \in Nat, NEW a \in Nat, NEW b \in Nat, NEW c \in Nat
  PROVE  /\ Covered(x, y, a, b, c) => Covered(x, y, a, c, c)
         /\ TickCovered(x, y, a, b, c) => TickCovered(x, y, a, c, c)
<1>1. Credit(c, c) = 0 /\ Credit(a, c) \in Nat
  BY CreditFacts
<1>2. CopyCredit(c, c) = 0 /\ TickCredit(a, c) \in Nat
  BY CopyCreditFacts, TickCreditFacts
<1>3. QED
  BY <1>1, <1>2 DEF Covered, TickCovered

(* ... and a timer fires that is due. *)
LEMMA CoveredFire ==
  ASSUME NEW x \in Nat, NEW y \in Nat, NEW a \in Nat, NEW b \in Nat, NEW c \in Nat
  PROVE  /\ Covered(x, y, a, b, c) /\ Credit(a, b) = BROADCAST_INTERVAL_MS
              => Covered(x + BROADCAST_INTERVAL_MS, y, b, b, c)
         /\ TickCovered(x, y, a, b, c) /\ b \div MS_PER_SEC > a
              => TickCovered(x + MS_PER_SEC, y, b \div MS_PER_SEC, b, c)
<1>1. Covered(x, y, a, b, c) /\ Credit(a, b) = BROADCAST_INTERVAL_MS
        => Covered(x + BROADCAST_INTERVAL_MS, y, b, b, c)
  <2>1. Credit(b, b) = 0 /\ Credit(b, c) \in Nat
    BY CreditFacts
  <2>2. QED
    BY <2>1 DEF Covered
<1>2. ASSUME TickCovered(x, y, a, b, c), b \div MS_PER_SEC > a
      PROVE  TickCovered(x + MS_PER_SEC, y, b \div MS_PER_SEC, b, c)
  <2> DEFINE s == b \div MS_PER_SEC
             r == b % MS_PER_SEC
  <2>1. s \in Nat /\ r \in Nat
    BY Seconds
  <2>2. TickCredit(a, b) = MS_PER_SEC + r /\ TickCredit(s, b) = r
    BY <1>2, TickCreditFacts
  <2>3. CopyCredit(b, c) \in Nat /\ TickCredit(s, c) <= r + CopyCredit(b, c)
    BY CopyCreditFacts
  <2> HIDE DEF s, r
  <2>4. TickCredit(s, c) \in Nat
    BY <2>1, TickCreditFacts
  <2>5. x + (MS_PER_SEC + r) + CopyCredit(b, c) < y
    BY <1>2, <2>2 DEF TickCovered
  <2>6. TickCovered(x + MS_PER_SEC, y, s, b, c)
    BY <2>1, <2>2, <2>3, <2>4, <2>5 DEF TickCovered
  <2>7. QED
    BY <2>6 DEF s
<1>3. QED
  BY <1>1, <1>2

(* The invariant holds at first. *)
LEMMA InitInv == Init => ClockInv
<1> SUFFICES ASSUME Init PROVE ClockInv
  OBVIOUS
<1>1. system_ms \in Nat /\ system_ms <= MAX_MS
  BY DEF Init
<1>2. now_sec \in 0 .. MAX_MS /\ system_ms % MS_PER_SEC \in 0 .. MS_PER_SEC - 1
  BY <1>1, Seconds DEF Init, now_sec
<1>3. TypeOK
  BY <1>1, <1>2 DEF Init, TypeOK
<1>4. PublicationRate
  <2>1. Credit(system_ms, system_ms) = 0
    BY <1>1, CreditFacts
  <2>2. QED
    BY <2>1 DEF Init, PublicationRate
<1>5. TickBudget
  <2>1. TickCredit(system_ms \div MS_PER_SEC, system_ms) = system_ms % MS_PER_SEC
    BY <1>1, TickCreditFacts
  <2>2. CopyCredit(system_ms, system_ms) = 0
    BY <1>1, CopyCreditFacts
  <2>3. QED
    BY <1>2, <2>1, <2>2 DEF Init, TickBudget, now_sec
<1>6. QED
  BY <1>3, <1>4, <1>5 DEF ClockInv

(* Every step keeps the types. *)
LEMMA NextTypes ==
  ASSUME TypeOK, [Next]_vars
  PROVE  TypeOK'
<1>1. CASE Pass
  BY <1>1 DEF TypeOK, Pass
<1>2. CASE SetClock
  BY <1>2 DEF TypeOK, SetClock
<1>3. CASE Update
  BY <1>3 DEF TypeOK, Update
<1>4. CASE MasterCheck
  BY <1>4 DEF TypeOK, MasterCheck
<1>5. CASE ThrottleSweep
  BY <1>5 DEF TypeOK, ThrottleSweep
<1>6. CASE HandleTick
  <2>1. now_sec \in 0 .. MAX_MS
    BY Types, Seconds DEF now_sec
  <2>2. QED
    BY <1>6, <2>1 DEF TypeOK, HandleTick
<1>7. CASE UNCHANGED vars
  BY <1>7 DEF TypeOK, vars
<1>8. QED
  BY <1>1, <1>2, <1>3, <1>4, <1>5, <1>6, <1>7 DEF Next

-----------------------------------------------------------------------------
(* Every step keeps both budgets. *)
LEMMA NextBudgets ==
  ASSUME ClockInv, [Next]_vars
  PROVE  PublicationRate' /\ TickBudget'
<1> DEFINE P == Covered(Spent, Paid, last_broadcast_time, time_ms, system_ms)
           T == TickCovered(TickSpent, TickPaid, last_tick_sec, time_ms, system_ms)
<1>1. TypeOK /\ P /\ T
  BY Budgets DEF ClockInv
<1>2. /\ system_ms \in Nat /\ time_ms \in Nat
      /\ last_broadcast_time \in Nat /\ last_tick_sec \in Nat
      /\ elapsed \in Nat /\ jumps \in Nat /\ published \in Nat /\ ticks \in Nat
  BY <1>1, Types
<1>3. /\ Paid \in Nat /\ Spent \in Nat
      /\ TickPaid \in Nat /\ TickSpent \in Nat
  BY <1>1, BudgetTypes
<1> HIDE DEF P, T
<1>4. SUFFICES P' /\ T'
  BY Budgets DEF P, T
<1>5. CASE Pass
  <2>1. /\ UNCHANGED <<Spent, TickSpent, last_broadcast_time, last_tick_sec, time_ms>>
        /\ system_ms' = system_ms + 1
    BY <1>5 DEF Pass, Spent, TickSpent
  <2>2. Paid' = Paid + 1 /\ TickPaid' = TickPaid + 1
    BY <1>5, <1>2, OneMore DEF Pass, Paid, TickPaid
  <2>3. QED
    BY <1>1, <1>2, <1>3, <2>1, <2>2, CoveredPass DEF P, T
<1>6. CASE SetClock
  <2>1. /\ UNCHANGED <<Spent, TickSpent, last_broadcast_time, last_tick_sec, time_ms>>
        /\ system_ms' \in Nat
    BY <1>6 DEF SetClock, Spent, TickSpent
  <2>2. Paid' = Paid + BROADCAST_INTERVAL_MS /\ TickPaid' = TickPaid + 2 * MS_PER_SEC
    BY <1>6, <1>2, OneMore DEF SetClock, Paid, TickPaid
  <2>3. QED
    BY <1>1, <1>2, <1>3, <2>1, <2>2, CoveredSet DEF P, T
<1>7. CASE Update
  <2>1. /\ UNCHANGED <<Spent, TickSpent, Paid, TickPaid>>
        /\ UNCHANGED <<last_broadcast_time, last_tick_sec, system_ms>>
        /\ time_ms' = system_ms
    BY <1>7 DEF Update, Spent, TickSpent, Paid, TickPaid
  <2>2. QED
    BY <1>1, <1>2, <1>3, <2>1, CoveredUpdate DEF P, T
<1>8. CASE MasterCheck
  <2>1. UNCHANGED <<TickSpent, Paid, TickPaid, last_tick_sec, time_ms, system_ms>>
    BY <1>8 DEF MasterCheck, TickSpent, Paid, TickPaid
  <2>2. T'
    BY <1>1, <2>1 DEF T
  <2>3. CASE BroadcastDue(time_ms)
    <3>1. Credit(last_broadcast_time, time_ms) = BROADCAST_INTERVAL_MS
      BY <1>1, <2>3, DueIsPaid
    <3>2. last_broadcast_time' = time_ms /\ Spent' = Spent + BROADCAST_INTERVAL_MS
      BY <1>8, <1>2, <2>3, OneMore DEF MasterCheck, Spent
    <3>3. QED
      BY <1>1, <1>2, <1>3, <2>1, <2>2, <3>1, <3>2, CoveredFire DEF P
  <2>4. CASE ~ BroadcastDue(time_ms)
    <3>1. UNCHANGED <<Spent, last_broadcast_time>>
      BY <1>8, <2>4 DEF MasterCheck, Spent
    <3>2. QED
      BY <1>1, <2>1, <2>2, <3>1 DEF P
  <2>5. QED
    BY <2>3, <2>4
<1>9. CASE HandleTick
  <2>1. UNCHANGED <<Spent, Paid, TickPaid, last_broadcast_time, time_ms, system_ms>>
    BY <1>9 DEF HandleTick, Spent, Paid, TickPaid
  <2>2. /\ time_ms \div MS_PER_SEC > last_tick_sec
        /\ last_tick_sec' = time_ms \div MS_PER_SEC
        /\ TickSpent' = TickSpent + MS_PER_SEC
    BY <1>9, <1>2, OneMore DEF HandleTick, now_sec, TickSpent
  <2>3. P'
    BY <1>1, <2>1 DEF P
  <2>4. T'
    BY <1>1, <1>2, <1>3, <2>1, <2>2, CoveredFire DEF T
  <2>5. QED
    BY <2>3, <2>4
<1>10. CASE ThrottleSweep \/ UNCHANGED vars
  <2>1. /\ UNCHANGED <<Spent, TickSpent, Paid, TickPaid>>
        /\ UNCHANGED <<last_broadcast_time, last_tick_sec, time_ms, system_ms>>
    BY <1>10 DEF ThrottleSweep, vars, Spent, TickSpent, Paid, TickPaid
  <2>2. QED
    BY <1>1, <2>1 DEF P, T
<1>11. QED
  BY <1>5, <1>6, <1>7, <1>8, <1>9, <1>10 DEF Next

(* The timers under any clock: publications (master.rs:115) and ticks       *)
(* (worker.rs:263) are paid for by real time and a bounded amount for each  *)
(* change of the clock.                                                     *)
THEOREM ClockInvariant == Spec => []ClockInv
<1>1. Init => ClockInv
  BY InitInv
<1>2. ClockInv /\ [Next]_vars => ClockInv'
  BY NextTypes, NextBudgets DEF ClockInv
<1>3. QED
  BY <1>1, <1>2, PTL DEF Spec
=============================================================================
