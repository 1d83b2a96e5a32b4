-------------------------- MODULE Cooldown_proofs --------------------------
(***************************************************************************)
(* The wheel and the bitset implement one countdown per user, and enforce  *)
(* the rate limit, for every number of users, chunk width, wheel length    *)
(* and behaviour of the clock.                                             *)
(***************************************************************************)
EXTENDS Cooldown, ModArith

-----------------------------------------------------------------------------
(* The bitset.                                                              *)

(* The chunk and the bit of a user id lie inside the bitset. *)
LEMMA IndexInBounds ==
  ASSUME NEW u \in User
  PROVE  ChunkIdx(u) \in Chunk /\ BitOf(u) \in Bit
<1> DEFINE n == BITS_PER_COOLDOWN_CHUNK
           k == MAX_CONNECTIONS_PER_WORKER \div n
           q == u \div n
           r == u % n
<1>1. n \in Nat \ {0} /\ u \in Int /\ MAX_CONNECTIONS_PER_WORKER \in Int
  BY BitsAssumption, UsersAssumption, ConnectionsAssumption DEF User
<1>2. k \in Int /\ MAX_CONNECTIONS_PER_WORKER = n * k + (MAX_CONNECTIONS_PER_WORKER % n)
  BY <1>1, DivMod, Zenon
<1>3. q \in Int /\ u = n * q + r
  BY <1>1, DivMod, Zenon
<1>4. r \in 0 .. n - 1
  BY <1>1, ModRange, Zenon
<1>5. MAX_CONNECTIONS_PER_WORKER = n * k /\ u >= 0 /\ u < MAX_CONNECTIONS_PER_WORKER
  BY <1>1, <1>2, UsersAssumption, ConnectionsAssumption DEF User
<1> HIDE DEF n, k, q, r
<1>6. ~ (q < 0)
  <2>1. q < 0 => n * q <= - n
    BY <1>1, <1>3
  <2>2. QED
    BY <1>1, <1>3, <1>4, <1>5, <2>1
<1>7. ~ (q >= k)
  <2>1. q >= k => n * q >= n * k
    BY <1>1, <1>2, <1>3
  <2>2. QED
    BY <1>1, <1>2, <1>3, <1>4, <1>5, <2>1
<1>8. q \in 0 .. k - 1
  BY <1>2, <1>3, <1>6, <1>7
<1>9. QED
  BY <1>4, <1>8 DEF ChunkIdx, BitOf, Chunk, Bit, COOLDOWN_ARRAY_LEN, n, k, q, r

(* Two user ids share their chunk and their bit only if they are equal. *)
LEMMA IndexInjective ==
  ASSUME NEW u \in User, NEW v \in User,
         ChunkIdx(u) = ChunkIdx(v), BitOf(u) = BitOf(v)
  PROVE  u = v
<1>1. BITS_PER_COOLDOWN_CHUNK \in Nat \ {0} /\ u \in Int /\ v \in Int
  BY BitsAssumption DEF User
<1>2. u = BITS_PER_COOLDOWN_CHUNK * ChunkIdx(u) + BitOf(u)
  BY <1>1, DivMod, Zenon DEF ChunkIdx, BitOf
<1>3. v = BITS_PER_COOLDOWN_CHUNK * ChunkIdx(v) + BitOf(v)
  BY <1>1, DivMod, Zenon DEF ChunkIdx, BitOf
<1>4. QED
  BY <1>2, <1>3

(* set_cooldown sets the bit of its user and no other. *)
LEMMA SetThenTest ==
  ASSUME NEW array \in CooldownArray, NEW u \in User
  PROVE  /\ set_cooldown(array, u) \in CooldownArray
         /\ \A v \in User :
              is_on_cooldown(set_cooldown(array, u), v)
                <=> v = u \/ is_on_cooldown(array, v)
<1>1. ChunkIdx(u) \in Chunk /\ BitOf(u) \in Bit
  BY IndexInBounds
<1>2. set_cooldown(array, u) \in CooldownArray
  BY <1>1 DEF set_cooldown, CooldownArray
<1>3. ASSUME NEW v \in User
      PROVE  is_on_cooldown(set_cooldown(array, u), v)
               <=> v = u \/ is_on_cooldown(array, v)
  <2>1. ChunkIdx(v) \in Chunk
    BY IndexInBounds
  <2>2. ChunkIdx(u) = ChunkIdx(v) /\ BitOf(u) = BitOf(v) => v = u
    BY IndexInjective
  <2>3. QED
    BY <1>1, <2>1, <2>2 DEF is_on_cooldown, set_cooldown, CooldownArray
<1>4. QED
  BY <1>2, <1>3

(* The mass eviction takes out the expiring users and no other. *)
LEMMA EvictThenTest ==
  ASSUME NEW master \in CooldownArray, NEW expiring \in CooldownArray
  PROVE  /\ Evict(master, expiring) \in CooldownArray
         /\ \A v \in User :
              is_on_cooldown(Evict(master, expiring), v)
                <=> is_on_cooldown(master, v) /\ ~ is_on_cooldown(expiring, v)
<1>1. Evict(master, expiring) \in CooldownArray
  BY DEF Evict, CooldownArray
<1>2. ASSUME NEW v \in User
      PROVE  is_on_cooldown(Evict(master, expiring), v)
               <=> is_on_cooldown(master, v) /\ ~ is_on_cooldown(expiring, v)
  <2>1. ChunkIdx(v) \in Chunk
    BY IndexInBounds
  <2>2. QED
    BY <2>1 DEF is_on_cooldown, Evict
<1>3. QED
  BY <1>1, <1>2

(* Nobody is in an empty bitset. *)
LEMMA NewThenTest ==
  NewArray \in CooldownArray /\ \A v \in User : ~ is_on_cooldown(NewArray, v)
<1>1. ASSUME NEW v \in User PROVE ~ is_on_cooldown(NewArray, v)
  <2>1. ChunkIdx(v) \in Chunk
    BY IndexInBounds
  <2>2. QED
    BY <2>1 DEF is_on_cooldown, NewArray
<1>2. QED
  BY <1>1 DEF NewArray, CooldownArray

-----------------------------------------------------------------------------
(* The wheel.                                                               *)

(* The distance from the current bucket to bucket b, without remainders. *)
LEMMA TicksToIs ==
  ASSUME NEW t \in Bucket, NEW b \in Bucket
  PROVE  ((b - t - 1) % TIMING_WHEEL_TICKS) + 1
           = IF b > t THEN b - t ELSE b - t + TIMING_WHEEL_TICKS
<1> DEFINE n == TIMING_WHEEL_TICKS
<1>1. n \in Nat \ {0} /\ t \in 0 .. n - 1 /\ b \in 0 .. n - 1
  BY TicksAssumption DEF Bucket
<1> HIDE DEF n
<1>2. CASE b > t
  <2>1. b - t - 1 \in 0 .. n - 1
    BY <1>1, <1>2
  <2>2. (b - t - 1) % n = b - t - 1
    BY <1>1, <2>1, ModSmall, Zenon
  <2>3. QED
    BY <1>1, <1>2, <2>2 DEF n
<1>3. CASE ~ (b > t)
  <2> DEFINE r == b - t - 1 + n
  <2>1. r \in 0 .. n - 1 /\ -1 \in Int
    BY <1>1, <1>3
  <2>2. (n * (-1) + r) % n = r
    BY <1>1, <2>1, ModIs, Zenon
  <2>3. n * (-1) + r = b - t - 1
    BY <1>1
  <2>4. QED
    BY <1>1, <1>3, <2>2, <2>3 DEF n
<1>4. QED
  BY <1>2, <1>3

(* The next bucket, without remainders. *)
LEMMA NextTickIs ==
  ASSUME NEW t \in Bucket
  PROVE  NextTick(t) = IF t = TIMING_WHEEL_TICKS - 1 THEN 0 ELSE t + 1
<1> DEFINE n == TIMING_WHEEL_TICKS
<1>1. n \in Nat \ {0} /\ t \in 0 .. n - 1
  BY TicksAssumption DEF Bucket
<1> HIDE DEF n
<1>2. CASE t = n - 1
  <2>1. 1 \in Int /\ 0 \in 0 .. n - 1
    BY <1>1
  <2>2. (n * 1 + 0) % n = 0
    BY <1>1, <2>1, ModIs, Zenon
  <2>3. t + 1 = n * 1 + 0
    BY <1>1, <1>2
  <2>4. QED
    BY <1>2, <2>2, <2>3 DEF NextTick, n
<1>3. CASE t # n - 1
  <2>1. t + 1 \in 0 .. n - 1
    BY <1>1, <1>3
  <2>2. (t + 1) % n = t + 1
    BY <1>1, <2>1, ModSmall, Zenon
  <2>3. QED
    BY <1>3, <2>2 DEF NextTick, n
<1>4. QED
  BY <1>2, <1>3 DEF n

(* A tick brings every bucket but the one it empties one tick nearer; the   *)
(* one it empties was one tick away, the current one is a full turn away.   *)
LEMMA TickDistances ==
  ASSUME NEW t \in Bucket, NEW b \in Bucket
  PROVE  LET Dist(s) == ((b - s - 1) % TIMING_WHEEL_TICKS) + 1
         IN  /\ NextTick(t) \in Bucket
             /\ Dist(t) \in 1 .. TIMING_WHEEL_TICKS
             /\ b = t => Dist(t) = TIMING_WHEEL_TICKS
             /\ b = NextTick(t) => Dist(t) = 1
             /\ b # NextTick(t) => Dist(NextTick(t)) = Dist(t) - 1 /\ Dist(t) > 1
<1> DEFINE n == TIMING_WHEEL_TICKS
           s == NextTick(t)
<1>1. n \in Nat \ {0} /\ t \in 0 .. n - 1 /\ b \in 0 .. n - 1
  BY TicksAssumption DEF Bucket
<1>2. s = IF t = n - 1 THEN 0 ELSE t + 1
  BY NextTickIs
<1>3. s \in Bucket
  BY <1>1, <1>2 DEF Bucket
<1>4. ((b - t - 1) % n) + 1 = IF b > t THEN b - t ELSE b - t + n
  BY TicksToIs
<1>5. ((b - s - 1) % n) + 1 = IF b > s THEN b - s ELSE b - s + n
  BY <1>3, TicksToIs
<1> HIDE DEF s
<1>6. QED
  BY <1>1, <1>2, <1>3, <1>4, <1>5 DEF s

-----------------------------------------------------------------------------
(* The inductive invariant.                                                 *)

(* Initially nobody owes anything. *)
LEMMA InitWheelInv == Init => WheelInv
<1> SUFFICES ASSUME Init PROVE WheelInv
  OBVIOUS
<1> USE DEF Init
<1>1. NewArray \in CooldownArray /\ \A v \in User : ~ is_on_cooldown(NewArray, v)
  BY NewThenTest
<1>2. TypeOK
  BY <1>1, TicksAssumption, SecAssumption DEF TypeOK, Bucket
<1>3. \A b \in Bucket : wheel[b] = NewArray
  OBVIOUS
<1>4. OneReleasePerUser
  BY <1>1, <1>3 DEF OneReleasePerUser
<1>5. NotReleasedEarly
  BY <1>1, <1>3 DEF NotReleasedEarly
<1>6. ReleasedNotOwing
  <2>1. \A u \in User : charged[u] = last_tick_sec - TIMING_WHEEL_TICKS
    OBVIOUS
  <2>2. QED
    BY <2>1, TicksAssumption, SecAssumption DEF ReleasedNotOwing
<1>7. QED
  BY <1>2, <1>4, <1>5, <1>6 DEF WheelInv

(* What a tick does to the bitsets, in terms of who is in them. *)
LEMMA TickEffect ==
  ASSUME TypeOK, NEW now_sec \in 0 .. MAX_SEC, HandleTick(now_sec)
  PROVE  /\ cooldown_master' \in CooldownArray
         /\ wheel' \in [Bucket -> CooldownArray]
         /\ NextTick(current_tick) \in Bucket
         /\ \A u \in User :
              is_on_cooldown(cooldown_master', u)
                <=> /\ is_on_cooldown(cooldown_master, u)
                    /\ ~ is_on_cooldown(wheel[NextTick(current_tick)], u)
         /\ \A u \in User : \A b \in Bucket :
              is_on_cooldown(wheel'[b], u)
                <=> b # NextTick(current_tick) /\ is_on_cooldown(wheel[b], u)
<1> DEFINE tick == NextTick(current_tick)
<1>1. tick \in Bucket
  BY TickDistances DEF TypeOK
<1>2. wheel[tick] \in CooldownArray /\ cooldown_master \in CooldownArray
  BY <1>1 DEF TypeOK
<1>3. cooldown_master' = Evict(cooldown_master, wheel[tick])
  BY DEF HandleTick
<1>4. wheel' = [wheel EXCEPT ![tick] = NewArray]
  BY DEF HandleTick, Wiped
<1> HIDE DEF tick
<1>5. NewArray \in CooldownArray /\ \A v \in User : ~ is_on_cooldown(NewArray, v)
  BY NewThenTest
<1>6. /\ cooldown_master' \in CooldownArray
      /\ \A u \in User :
           is_on_cooldown(cooldown_master', u)
             <=> is_on_cooldown(cooldown_master, u) /\ ~ is_on_cooldown(wheel[tick], u)
  BY <1>2, <1>3, EvictThenTest
<1>7. wheel' \in [Bucket -> CooldownArray]
  BY <1>1, <1>4, <1>5 DEF TypeOK
<1>8. \A b \in Bucket : wheel'[b] = IF b = tick THEN NewArray ELSE wheel[b]
  BY <1>1, <1>4 DEF TypeOK
<1>9. \A u \in User : \A b \in Bucket :
        is_on_cooldown(wheel'[b], u) <=> b # tick /\ is_on_cooldown(wheel[b], u)
  BY <1>5, <1>8
<1>10. QED
  BY <1>1, <1>6, <1>7, <1>9 DEF tick

(* What letting a pixel through does to the bitsets. *)
LEMMA AdmitEffect ==
  ASSUME TypeOK, NEW w \in User, AdmitPixel(w)
  PROVE  /\ cooldown_master' \in CooldownArray
         /\ wheel' \in [Bucket -> CooldownArray]
         /\ \A u \in User :
              is_on_cooldown(cooldown_master', u)
                <=> u = w \/ is_on_cooldown(cooldown_master, u)
         /\ \A u \in User : \A b \in Bucket :
              is_on_cooldown(wheel'[b], u)
                <=> (b = current_tick /\ u = w) \/ is_on_cooldown(wheel[b], u)
<1>1. current_tick \in Bucket /\ wheel[current_tick] \in CooldownArray
      /\ cooldown_master \in CooldownArray
  BY DEF TypeOK
<1>2. cooldown_master' = set_cooldown(cooldown_master, w)
  BY DEF AdmitPixel
<1> DEFINE filled == set_cooldown(wheel[current_tick], w)
<1>3. wheel' = [wheel EXCEPT ![current_tick] = filled]
  BY DEF AdmitPixel, ExpiryBucket
<1>4. /\ filled \in CooldownArray
      /\ \A u \in User : is_on_cooldown(filled, u)
                           <=> u = w \/ is_on_cooldown(wheel[current_tick], u)
  BY <1>1, SetThenTest
<1> HIDE DEF filled
<1>5. /\ cooldown_master' \in CooldownArray
      /\ \A u \in User : is_on_cooldown(cooldown_master', u)
                           <=> u = w \/ is_on_cooldown(cooldown_master, u)
  BY <1>1, <1>2, SetThenTest
<1>6. wheel' \in [Bucket -> CooldownArray]
  BY <1>1, <1>3, <1>4 DEF TypeOK
<1>7. \A b \in Bucket : wheel'[b] = IF b = current_tick THEN filled ELSE wheel[b]
  BY <1>1, <1>3 DEF TypeOK
<1>8. QED
  BY <1>4, <1>5, <1>6, <1>7

(* A tick preserves the invariant. *)
LEMMA TickPreserves ==
  ASSUME WheelInv, NEW now_sec \in 0 .. MAX_SEC, HandleTick(now_sec)
  PROVE  WheelInv'
<1> DEFINE tick == NextTick(current_tick)
<1>1. TypeOK /\ OneReleasePerUser /\ NotReleasedEarly /\ ReleasedNotOwing
  BY DEF WheelInv
<1>2. current_tick' = tick /\ last_tick_sec' = now_sec /\ charged' = charged
      /\ now_sec > last_tick_sec
  BY DEF HandleTick
<1>3. /\ cooldown_master' \in CooldownArray
      /\ wheel' \in [Bucket -> CooldownArray]
      /\ tick \in Bucket
      /\ \A u \in User :
           is_on_cooldown(cooldown_master', u)
             <=> is_on_cooldown(cooldown_master, u) /\ ~ is_on_cooldown(wheel[tick], u)
      /\ \A u \in User : \A b \in Bucket :
           is_on_cooldown(wheel'[b], u) <=> b # tick /\ is_on_cooldown(wheel[b], u)
  BY <1>1, TickEffect
<1>4. \A b \in Bucket :
        /\ TicksTo(b) \in Int
        /\ b = tick => TicksTo(b) = 1
        /\ b # tick => TicksTo(b)' = TicksTo(b) - 1
  BY <1>1, <1>2, TickDistances DEF TicksTo, TypeOK
<1>5. now_sec \in Int /\ last_tick_sec \in Int /\ \A u \in User : charged[u] \in Int
  BY <1>1, SecAssumption DEF TypeOK
<1> HIDE DEF tick
<1>6. TypeOK'
  BY <1>1, <1>2, <1>3, SecAssumption DEF TypeOK
<1>7. OneReleasePerUser'
  BY <1>1, <1>3 DEF OneReleasePerUser
<1>8. NotReleasedEarly'
  <2> SUFFICES ASSUME NEW u \in User, NEW b \in Bucket, is_on_cooldown(wheel'[b], u)
               PROVE  last_tick_sec' + TicksTo(b)' >= charged'[u] + TIMING_WHEEL_TICKS
    BY DEF NotReleasedEarly
  <2>1. b # tick /\ is_on_cooldown(wheel[b], u)
    BY <1>3
  <2>2. last_tick_sec + TicksTo(b) >= charged[u] + TIMING_WHEEL_TICKS
    BY <1>1, <2>1 DEF NotReleasedEarly
  <2>3. QED
    BY <1>2, <1>4, <1>5, <2>1, <2>2, TicksAssumption
<1>9. ReleasedNotOwing'
  <2> SUFFICES ASSUME NEW u \in User, ~ is_on_cooldown(cooldown_master', u)
               PROVE  last_tick_sec' >= charged'[u] + TIMING_WHEEL_TICKS
    BY DEF ReleasedNotOwing
  <2>1. CASE ~ is_on_cooldown(cooldown_master, u)
    <3>1. last_tick_sec >= charged[u] + TIMING_WHEEL_TICKS
      BY <1>1, <2>1 DEF ReleasedNotOwing
    <3>2. QED
      BY <1>2, <1>5, <3>1, TicksAssumption
  <2>2. CASE is_on_cooldown(wheel[tick], u)
    <3>1. last_tick_sec + TicksTo(tick) >= charged[u] + TIMING_WHEEL_TICKS
      BY <1>1, <1>3, <2>2 DEF NotReleasedEarly
    <3>2. QED
      BY <1>2, <1>3, <1>4, <1>5, <3>1, TicksAssumption
  <2>3. QED
    BY <1>3, <2>1, <2>2
<1>10. QED
  BY <1>6, <1>7, <1>8, <1>9 DEF WheelInv

(* Letting a pixel through preserves the invariant. *)
LEMMA AdmitPreserves ==
  ASSUME WheelInv, NEW w \in User, AdmitPixel(w)
  PROVE  WheelInv'
<1>1. TypeOK /\ OneReleasePerUser /\ NotReleasedEarly /\ ReleasedNotOwing
  BY DEF WheelInv
<1>2. /\ current_tick' = current_tick /\ last_tick_sec' = last_tick_sec
      /\ charged' = [charged EXCEPT ![w] = last_tick_sec]
      /\ ~ is_on_cooldown(cooldown_master, w)
  BY DEF AdmitPixel
<1>3. /\ cooldown_master' \in CooldownArray
      /\ wheel' \in [Bucket -> CooldownArray]
      /\ \A u \in User :
           is_on_cooldown(cooldown_master', u)
             <=> u = w \/ is_on_cooldown(cooldown_master, u)
      /\ \A u \in User : \A b \in Bucket :
           is_on_cooldown(wheel'[b], u)
             <=> (b = current_tick /\ u = w) \/ is_on_cooldown(wheel[b], u)
  BY <1>1, AdmitEffect
<1>4. current_tick \in Bucket /\ TicksTo(current_tick) = TIMING_WHEEL_TICKS
  BY <1>1, TickDistances DEF TicksTo, TypeOK
<1>5. \A b \in Bucket : TicksTo(b)' = TicksTo(b)
  BY <1>2 DEF TicksTo
<1>6. \A u \in User : charged'[u] = IF u = w THEN last_tick_sec ELSE charged[u]
  BY <1>1, <1>2 DEF TypeOK
<1>7. TypeOK'
  BY <1>1, <1>2, <1>3 DEF TypeOK
<1>8. \A b \in Bucket : ~ is_on_cooldown(wheel[b], w)
  BY <1>1, <1>2 DEF OneReleasePerUser
<1>9. OneReleasePerUser'
  BY <1>1, <1>3, <1>4, <1>8 DEF OneReleasePerUser
<1>10. NotReleasedEarly'
  <2> SUFFICES ASSUME NEW u \in User, NEW b \in Bucket, is_on_cooldown(wheel'[b], u)
               PROVE  last_tick_sec' + TicksTo(b)' >= charged'[u] + TIMING_WHEEL_TICKS
    BY DEF NotReleasedEarly
  <2>1. CASE u = w
    <3>1. b = current_tick
      BY <1>3, <1>8, <2>1
    <3>2. QED
      BY <1>1, <1>2, <1>4, <1>5, <1>6, <2>1, <3>1, TicksAssumption DEF TypeOK
  <2>2. CASE u # w
    <3>1. is_on_cooldown(wheel[b], u)
      BY <1>3, <2>2
    <3>2. last_tick_sec + TicksTo(b) >= charged[u] + TIMING_WHEEL_TICKS
      BY <1>1, <3>1 DEF NotReleasedEarly
    <3>3. QED
      BY <1>2, <1>5, <1>6, <2>2, <3>2
  <2>3. QED
    BY <2>1, <2>2
<1>11. ReleasedNotOwing'
  BY <1>1, <1>2, <1>3, <1>6 DEF ReleasedNotOwing
<1>12. QED
  BY <1>7, <1>9, <1>10, <1>11 DEF WheelInv

(* Every step preserves the invariant. *)
LEMMA StepPreserves == WheelInv /\ [Next]_vars => WheelInv'
<1> SUFFICES ASSUME WheelInv, [Next]_vars PROVE WheelInv'
  OBVIOUS
<1>1. CASE UNCHANGED vars
  BY <1>1 DEF vars, WheelInv, TypeOK, OneReleasePerUser, NotReleasedEarly,
              ReleasedNotOwing, TicksTo
<1>2. CASE \E now_sec \in 0 .. MAX_SEC : HandleTick(now_sec)
  BY <1>2, TickPreserves
<1>3. CASE \E u \in User : AdmitPixel(u)
  BY <1>3, AdmitPreserves
<1>4. CASE \E u \in User : RefusePixel(u)
  BY <1>1, <1>4 DEF RefusePixel
<1>5. QED
  BY <1>1, <1>2, <1>3, <1>4 DEF Next

(* For every number of users, chunk width, wheel length and behaviour of    *)
(* the clock: a user on cooldown is in exactly one bucket of the wheel, and *)
(* that bucket does not come up before the cooldown is over.                *)
THEOREM WheelInvariant == Spec => []WheelInv
<1>1. Init => WheelInv
  BY InitWheelInv
<1>2. WheelInv /\ [Next]_vars => WheelInv'
  BY StepPreserves
<1>3. QED
  BY <1>1, <1>2, PTL DEF Spec

(* The rate limit, for every value of the constants: handle_incoming_cqe    *)
(* lets no user id place two pixels within TIMING_WHEEL_TICKS seconds of    *)
(* the worker's clock.                                                      *)
THEOREM RateLimitHolds == Spec => RateLimit
<1> DEFINE Apart == \A u \in User :
                      charged'[u] # charged[u]
                        => charged'[u] >= charged[u] + TIMING_WHEEL_TICKS
<1>1. ASSUME WheelInv, [Next]_vars PROVE [Apart]_vars
  <2>1. CASE UNCHANGED charged
    BY <2>1
  <2>2. CASE \E w \in User : AdmitPixel(w)
    <3>1. PICK w \in User : AdmitPixel(w)
      BY <2>2
    <3>2. ~ is_on_cooldown(cooldown_master, w)
          /\ charged' = [charged EXCEPT ![w] = last_tick_sec]
      BY <3>1 DEF AdmitPixel
    <3>3. last_tick_sec >= charged[w] + TIMING_WHEEL_TICKS
      BY <1>1, <3>2 DEF WheelInv, ReleasedNotOwing
    <3>4. \A u \in User : charged'[u] = IF u = w THEN last_tick_sec ELSE charged[u]
      BY <1>1, <3>2 DEF WheelInv, TypeOK
    <3>5. QED
      BY <3>3, <3>4
  <2>3. QED
    BY <1>1, <2>1, <2>2 DEF Next, HandleTick, RefusePixel, vars
<1>2. QED
  BY <1>1, WheelInvariant, PTL DEF Spec, RateLimit

-----------------------------------------------------------------------------
(* The refinement.                                                          *)

(* The abstract countdown of a user, from any bucket that holds it. *)
RemainingMatches ==
  \A u \in User :
    /\ Remaining[u] \in Nat
    /\ is_on_cooldown(cooldown_master, u) <=> Remaining[u] # 0
    /\ \A b \in Bucket : is_on_cooldown(wheel[b], u) => Remaining[u] = TicksTo(b)

(* The countdown of the refinement mapping is the distance to that bucket. *)
LEMMA RemainingIs == WheelInv => RemainingMatches
<1> SUFFICES ASSUME WheelInv, NEW u \in User
             PROVE  /\ Remaining[u] \in Nat
                    /\ is_on_cooldown(cooldown_master, u) <=> Remaining[u] # 0
                    /\ \A b \in Bucket :
                         is_on_cooldown(wheel[b], u) => Remaining[u] = TicksTo(b)
  BY DEF RemainingMatches
<1>1. TypeOK /\ OneReleasePerUser
  BY DEF WheelInv
<1> DEFINE c == CHOOSE b \in Bucket : is_on_cooldown(wheel[b], u)
<1>2. Remaining[u] = IF is_on_cooldown(cooldown_master, u) THEN TicksTo(c) ELSE 0
  BY DEF Remaining
<1>3. is_on_cooldown(cooldown_master, u) => c \in Bucket /\ is_on_cooldown(wheel[c], u)
  BY <1>1 DEF OneReleasePerUser
<1> HIDE DEF c
<1>4. \A b \in Bucket : TicksTo(b) \in 1 .. TIMING_WHEEL_TICKS
  BY <1>1, TickDistances DEF TicksTo, TypeOK
<1>5. \A b \in Bucket : is_on_cooldown(wheel[b], u)
                          => is_on_cooldown(cooldown_master, u) /\ b = c
  BY <1>1, <1>3 DEF OneReleasePerUser
<1>6. QED
  BY <1>2, <1>3, <1>4, <1>5, TicksAssumption

(* A tick lowers every running countdown by one. *)
LEMMA TickRefines ==
  ASSUME WheelInv, RemainingMatches, RemainingMatches',
         NEW now_sec \in 0 .. MAX_SEC, HandleTick(now_sec)
  PROVE  Timers!Tick
<1> DEFINE tick == NextTick(current_tick)
<1>1. TypeOK /\ OneReleasePerUser
  BY DEF WheelInv
<1>2. /\ tick \in Bucket
      /\ \A u \in User :
           is_on_cooldown(cooldown_master', u)
             <=> is_on_cooldown(cooldown_master, u) /\ ~ is_on_cooldown(wheel[tick], u)
      /\ \A u \in User : \A b \in Bucket :
           is_on_cooldown(wheel'[b], u) <=> b # tick /\ is_on_cooldown(wheel[b], u)
  BY <1>1, TickEffect
<1>3. \A b \in Bucket :
        /\ TicksTo(b) \in Int
        /\ b = tick => TicksTo(b) = 1
        /\ b # tick => TicksTo(b)' = TicksTo(b) - 1
  BY <1>1, TickDistances DEF TicksTo, TypeOK, HandleTick
<1> HIDE DEF tick
<1>4. ASSUME NEW u \in User
      PROVE  Remaining'[u] = IF Remaining[u] = 0 THEN 0 ELSE Remaining[u] - 1
  <2>1. /\ is_on_cooldown(cooldown_master, u) <=> Remaining[u] # 0
        /\ \A b \in Bucket : is_on_cooldown(wheel[b], u) => Remaining[u] = TicksTo(b)
    BY DEF RemainingMatches
  <2>2. /\ is_on_cooldown(cooldown_master', u) <=> Remaining'[u] # 0
        /\ \A b \in Bucket : is_on_cooldown(wheel'[b], u) => Remaining'[u] = TicksTo(b)'
    BY DEF RemainingMatches
  <2>3. CASE ~ is_on_cooldown(cooldown_master, u)
    BY <1>2, <2>1, <2>2, <2>3
  <2>4. CASE is_on_cooldown(cooldown_master, u)
    <3>1. PICK b \in Bucket : is_on_cooldown(wheel[b], u)
      BY <1>1, <2>4 DEF OneReleasePerUser
    <3>2. Remaining[u] = TicksTo(b) /\ Remaining[u] # 0
      BY <2>1, <2>4, <3>1
    <3>3. CASE b = tick
      BY <1>2, <1>3, <2>2, <3>1, <3>2, <3>3
    <3>4. CASE b # tick
      BY <1>2, <1>3, <2>2, <3>1, <3>2, <3>4
    <3>5. QED
      BY <3>3, <3>4
  <2>5. QED
    BY <2>3, <2>4
<1>5. Remaining' = [u \in User |-> Remaining'[u]]
  BY DEF Remaining
<1>6. QED
  BY <1>4, <1>5 DEF Timers!Tick

(* Letting a pixel through starts the countdown of its user. *)
LEMMA AdmitRefines ==
  ASSUME WheelInv, RemainingMatches, RemainingMatches', NEW w \in User, AdmitPixel(w)
  PROVE  Timers!Charge(w)
<1>1. TypeOK /\ OneReleasePerUser
  BY DEF WheelInv
<1>2. /\ \A u \in User :
           is_on_cooldown(cooldown_master', u)
             <=> u = w \/ is_on_cooldown(cooldown_master, u)
      /\ \A u \in User : \A b \in Bucket :
           is_on_cooldown(wheel'[b], u)
             <=> (b = current_tick /\ u = w) \/ is_on_cooldown(wheel[b], u)
  BY <1>1, AdmitEffect
<1>3. current_tick \in Bucket /\ TicksTo(current_tick) = TIMING_WHEEL_TICKS
  BY <1>1, TickDistances DEF TicksTo, TypeOK
<1>4. \A b \in Bucket : TicksTo(b)' = TicksTo(b)
  BY DEF TicksTo, AdmitPixel
<1>5. Remaining[w] = 0
  BY DEF RemainingMatches, AdmitPixel
<1>6. ASSUME NEW u \in User
      PROVE  Remaining'[u] = IF u = w THEN TIMING_WHEEL_TICKS ELSE Remaining[u]
  <2>1. /\ is_on_cooldown(cooldown_master, u) <=> Remaining[u] # 0
        /\ \A b \in Bucket : is_on_cooldown(wheel[b], u) => Remaining[u] = TicksTo(b)
    BY DEF RemainingMatches
  <2>2. /\ is_on_cooldown(cooldown_master', u) <=> Remaining'[u] # 0
        /\ \A b \in Bucket : is_on_cooldown(wheel'[b], u) => Remaining'[u] = TicksTo(b)'
    BY DEF RemainingMatches
  <2>3. CASE u = w
    BY <1>2, <1>3, <1>4, <2>2, <2>3
  <2>4. CASE u # w
    <3>1. CASE is_on_cooldown(cooldown_master, u)
      <4>1. PICK b \in Bucket : is_on_cooldown(wheel[b], u)
        BY <1>1, <3>1 DEF OneReleasePerUser
      <4>2. QED
        BY <1>2, <1>4, <2>1, <2>2, <2>4, <4>1
    <3>2. CASE ~ is_on_cooldown(cooldown_master, u)
      BY <1>2, <2>1, <2>2, <2>4, <3>2
    <3>3. QED
      BY <3>1, <3>2
  <2>5. QED
    BY <2>3, <2>4
<1>7. Remaining' = [u \in User |-> Remaining'[u]]
  BY DEF Remaining
<1>8. Remaining' = [Remaining EXCEPT ![w] = TIMING_WHEEL_TICKS]
  BY <1>6, <1>7 DEF Remaining
<1>9. QED
  BY <1>5, <1>8 DEF Timers!Charge

(* For every value of the constants, the bitset and the wheel implement one *)
(* countdown of TIMING_WHEEL_TICKS ticks per user: a cooldown ends with     *)
(* exactly that many calls of TimingWheel::tick.                            *)
THEOREM TimersRefinement == Spec => ImplementsTimers
<1>1. Init => Timers!Init
  <2> SUFFICES ASSUME Init PROVE Timers!Init
    OBVIOUS
  <2>1. \A u \in User : ~ is_on_cooldown(cooldown_master, u)
    BY NewThenTest DEF Init
  <2>2. QED
    BY <2>1 DEF Timers!Init, Remaining
<1>2. ASSUME WheelInv, RemainingMatches, RemainingMatches', [Next]_vars
      PROVE  [Timers!Next]_Remaining
  <2>1. CASE UNCHANGED vars
    BY <2>1 DEF vars, Remaining, TicksTo
  <2>2. CASE \E now_sec \in 0 .. MAX_SEC : HandleTick(now_sec)
    BY <1>2, <2>2, TickRefines DEF Timers!Next
  <2>3. CASE \E u \in User : AdmitPixel(u)
    BY <1>2, <2>3, AdmitRefines DEF Timers!Next
  <2>4. CASE \E u \in User : RefusePixel(u)
    BY <2>1, <2>4 DEF RefusePixel
  <2>5. QED
    BY <1>2, <2>1, <2>2, <2>3, <2>4 DEF Next
<1>3. QED
  BY <1>1, <1>2, WheelInvariant, RemainingIs, PTL
     DEF Spec, ImplementsTimers, Timers!Spec
=============================================================================
