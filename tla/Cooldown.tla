------------------------------ MODULE Cooldown ------------------------------
(***************************************************************************)
(* The pixel cooldown of one worker: the bitset of users on cooldown       *)
(* (CooldownArray, server/src/cooldown.rs), the wheel of bitsets that      *)
(* empties it (TimingWheel, server/src/timing_wheel.rs), and the worker's  *)
(* code that drives both: handle_tick and the admission test of            *)
(* handle_incoming_cqe (server/src/worker.rs).                             *)
(*                                                                         *)
(* A u64 of the bitset is the set of its bits that are 1.  The wall clock  *)
(* (server/src/time.rs) is read once per pass of the worker's loop and may *)
(* have moved by any amount since: the worker sleeps in submit_and_wait    *)
(* until a completion arrives, and the system clock can be set.            *)
(***************************************************************************)
EXTENDS UserIds

CONSTANTS
  BITS_PER_COOLDOWN_CHUNK,     \* 64 in the code
  TIMING_WHEEL_TICKS,          \* 300 in the code
  MAX_SEC                      \* bound on the clock

ASSUME BitsAssumption == BITS_PER_COOLDOWN_CHUNK \in Nat \ {0}
ASSUME ConnectionsAssumption == MAX_CONNECTIONS_PER_WORKER % BITS_PER_COOLDOWN_CHUNK = 0
ASSUME TicksAssumption == TIMING_WHEEL_TICKS \in Nat \ {0}
ASSUME SecAssumption == MAX_SEC \in Nat

VARIABLES
  cooldown_master,   \* the users on cooldown
  wheel,             \* for each tick, the users to release then
  current_tick,
  last_tick_sec,     \* clock reading at the worker's last tick
  charged            \* history: last_tick_sec when the user last placed a pixel

vars == <<cooldown_master, wheel, current_tick, last_tick_sec, charged>>

COOLDOWN_ARRAY_LEN == MAX_CONNECTIONS_PER_WORKER \div BITS_PER_COOLDOWN_CHUNK

Chunk  == 0 .. COOLDOWN_ARRAY_LEN - 1
Bit    == 0 .. BITS_PER_COOLDOWN_CHUNK - 1
Bucket == 0 .. TIMING_WHEEL_TICKS - 1

-----------------------------------------------------------------------------
(* CooldownArray.  id >> 6 and id & 63 are quotient and remainder.          *)
CooldownArray == [Chunk -> SUBSET Bit]
NewArray == [c \in Chunk |-> {}]

ChunkIdx(id) == id \div BITS_PER_COOLDOWN_CHUNK
BitOf_Shifted(id) == (id \div 2) % BITS_PER_COOLDOWN_CHUNK
BitOf(id) == id % BITS_PER_COOLDOWN_CHUNK

is_on_cooldown(array, id) == BitOf(id) \in array[ChunkIdx(id)]
set_cooldown(array, id) == [array EXCEPT ![ChunkIdx(id)] = @ \cup {BitOf(id)}]

-----------------------------------------------------------------------------
(* TimingWheel.                                                             *)
NextTick(t) == (t + 1) % TIMING_WHEEL_TICKS

(* The bucket that add_cooldown fills: the current one, which the wheel     *)
(* reaches again after a full turn.                                         *)
ExpiryBucket_OneTooSoon(t) == (t - 1) % TIMING_WHEEL_TICKS
ExpiryBucket(t) == t

(* The mass eviction of tick: AND NOT, chunk by chunk. *)
Evict_NoNot(master, expiring) == [c \in Chunk |-> master[c] \cap expiring[c]]
Evict(master, expiring) == [c \in Chunk |-> master[c] \ expiring[c]]

(* The bucket that tick leaves behind. *)
Wiped_Kept(array) == array
Wiped(array) == NewArray

Init ==
  /\ cooldown_master = NewArray
  /\ wheel = [b \in Bucket |-> NewArray]
  /\ current_tick = 0
  /\ last_tick_sec \in 0 .. MAX_SEC
  /\ charged = [u \in User |-> last_tick_sec - TIMING_WHEEL_TICKS]

(* handle_tick reads the clock; only a later second ticks, and it ticks     *)
(* once, however many seconds have gone by.                                 *)
HandleTick(now_sec) ==
  LET tick == NextTick(current_tick)
  IN  /\ now_sec > last_tick_sec
      /\ current_tick' = tick
      /\ cooldown_master' = Evict(cooldown_master, wheel[tick])
      /\ wheel' = [wheel EXCEPT ![tick] = Wiped(@)]
      /\ last_tick_sec' = now_sec
      /\ UNCHANGED charged

(* A pixel of a user who is not on cooldown is let through, at the price of *)
(* a new cooldown.                                                          *)
AdmitPixel(u) ==
  LET bucket == ExpiryBucket(current_tick)
  IN  /\ ~ is_on_cooldown(cooldown_master, u)
      /\ cooldown_master' = set_cooldown(cooldown_master, u)
      /\ wheel' = [wheel EXCEPT ![bucket] = set_cooldown(@, u)]
      /\ charged' = [charged EXCEPT ![u] = last_tick_sec]
      /\ UNCHANGED <<current_tick, last_tick_sec>>

(* A pixel of a user on cooldown is dropped. *)
RefusePixel(u) ==
  /\ is_on_cooldown(cooldown_master, u)
  /\ UNCHANGED vars

Next ==
  \/ \E now_sec \in 0 .. MAX_SEC : HandleTick(now_sec)
  \/ \E u \in User : AdmitPixel(u) \/ RefusePixel(u)

Spec == Init /\ [][Next]_vars

-----------------------------------------------------------------------------
(* Every variable has its type: every shift and index stays in its array.   *)
TypeOK ==
  /\ cooldown_master \in CooldownArray
  /\ wheel \in [Bucket -> CooldownArray]
  /\ current_tick \in Bucket
  /\ last_tick_sec \in Nat
  /\ charged \in [User -> Int]

(* Ticks until the wheel reaches bucket b. *)
TicksTo(b) == ((b - current_tick - 1) % TIMING_WHEEL_TICKS) + 1

(* A user is on cooldown exactly when some bucket will release it, and only *)
(* one will: no user stays blocked for ever, and none is released early by  *)
(* a bit left over in another bucket.                                       *)
OneReleasePerUser ==
  \A u \in User :
    /\ is_on_cooldown(cooldown_master, u)
         <=> \E b \in Bucket : is_on_cooldown(wheel[b], u)
    /\ \A a, b \in Bucket :
         is_on_cooldown(wheel[a], u) /\ is_on_cooldown(wheel[b], u) => a = b

(* No user is released before TIMING_WHEEL_TICKS seconds of the worker's    *)
(* clock have passed since its pixel.                                       *)
NotReleasedEarly ==
  \A u \in User : \A b \in Bucket :
    is_on_cooldown(wheel[b], u)
      => last_tick_sec + TicksTo(b) >= charged[u] + TIMING_WHEEL_TICKS
ReleasedNotOwing ==
  \A u \in User :
    ~ is_on_cooldown(cooldown_master, u)
      => last_tick_sec >= charged[u] + TIMING_WHEEL_TICKS

(* The inductive invariant. *)
WheelInv == TypeOK /\ OneReleasePerUser /\ NotReleasedEarly /\ ReleasedNotOwing

(* The rate limit: two pixels that a worker lets through for one user id    *)
(* are at least TIMING_WHEEL_TICKS seconds of its clock apart, whatever the *)
(* clock does in between.                                                   *)
RateLimit ==
  [][\A u \in User :
       charged'[u] # charged[u]
         => charged'[u] >= charged[u] + TIMING_WHEEL_TICKS]_vars

(* const_settings.rs:104-106: "1 tick = 1 second", "Determines how long a   *)
(* user stays on cooldown before being evicted", "300 ticks = 5 minutes":   *)
(* once the worker's clock is TIMING_WHEEL_TICKS seconds past the pixel,    *)
(* the user is on cooldown no longer.                                       *)
CooldownEnds ==
  \A u \in User :
    is_on_cooldown(cooldown_master, u) => last_tick_sec < charged[u] + TIMING_WHEEL_TICKS

(* The bitset and the wheel implement one countdown per user: a cooldown    *)
(* ends with the TIMING_WHEEL_TICKS-th tick after it began, no sooner and   *)
(* no later, and user ids that share a chunk do not disturb each other.     *)
Remaining ==
  [u \in User |->
     IF is_on_cooldown(cooldown_master, u)
     THEN TicksTo(CHOOSE b \in Bucket : is_on_cooldown(wheel[b], u))
     ELSE 0]
Timers == INSTANCE CooldownTimers WITH Ticks <- TIMING_WHEEL_TICKS, remaining <- Remaining
ImplementsTimers == Timers!Spec
=============================================================================
