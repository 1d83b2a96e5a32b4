------------------------------- MODULE Clock -------------------------------
(***************************************************************************)
(* The shared clock (server/src/time.rs) and the three timers that read    *)
(* it: the publication timer of the master, and the sweep of connections   *)
(* and the tick of the timing wheel of a worker.                           *)
(*                                                                         *)
(* The system clock is external: it runs with real time (elapsed) and may  *)
(* be set to another value at any moment.  The updater thread copies it    *)
(* into time_ms, and the timers see only that copy.  Subtractions are the  *)
(* release build's: they wrap (in a debug build that of the sweep panics   *)
(* when the clock has been set back).                                      *)
(***************************************************************************)
EXTENDS Integers

CONSTANTS
  BROADCAST_INTERVAL_MS,     \* 100
  CONN_TIMEOUT_THROTTLE_MS,  \* 20
  MS_PER_SEC,                \* 1000
  WORD,                      \* 2^64; 2^128 for the sweep
  MAX_MS,                    \* bound on the system clock
  MAX_ELAPSED,               \* bound on real time
  MAX_JUMPS                  \* bound on changes of the system clock

ASSUME ClockAssumption ==
  /\ {BROADCAST_INTERVAL_MS, CONN_TIMEOUT_THROTTLE_MS, MS_PER_SEC} \subseteq Nat \ {0}
  /\ {MAX_MS, MAX_ELAPSED, MAX_JUMPS, WORD} \subseteq Nat
  /\ WORD >= MAX_MS + BROADCAST_INTERVAL_MS
  /\ WORD >= MAX_MS + CONN_TIMEOUT_THROTTLE_MS
  /\ MS_PER_SEC <= MAX_MS

VARIABLES
  system_ms,            \* the system clock
  time_ms,              \* CLOCK
  last_broadcast_time,  \* master
  last_timeout_ms,      \* worker
  last_tick_sec,        \* worker
  elapsed,              \* history: real time since the start
  jumps,                \* history: how often the system clock was set
  published, ticks      \* history: publications, ticks of the wheel

vars == <<system_ms, time_ms, last_broadcast_time, last_timeout_ms, last_tick_sec,
          elapsed, jumps, published, ticks>>

now_sec == time_ms \div MS_PER_SEC

(* CLOCK.init runs before the threads that start their timers from it. *)
Init ==
  /\ system_ms \in 0 .. MS_PER_SEC
  /\ time_ms = system_ms
  /\ last_broadcast_time = time_ms
  /\ last_timeout_ms = time_ms
  /\ last_tick_sec = now_sec
  /\ elapsed = 0 /\ jumps = 0 /\ published = 0 /\ ticks = 0

-----------------------------------------------------------------------------
(* Real time passes; the administrator or NTP sets the clock. *)
Pass ==
  /\ elapsed < MAX_ELAPSED /\ system_ms < MAX_MS
  /\ elapsed' = elapsed + 1
  /\ system_ms' = system_ms + 1
  /\ UNCHANGED <<time_ms, last_broadcast_time, last_timeout_ms, last_tick_sec, jumps,
                 published, ticks>>
SetClock ==
  /\ jumps < MAX_JUMPS
  /\ jumps' = jumps + 1
  /\ system_ms' \in 0 .. MAX_MS
  /\ UNCHANGED <<time_ms, last_broadcast_time, last_timeout_ms, last_tick_sec, elapsed,
                 published, ticks>>

(* The updater thread: it may run late, but copies the clock as it is. *)
Update ==
  /\ time_ms' = system_ms
  /\ UNCHANGED <<system_ms, last_broadcast_time, last_timeout_ms, last_tick_sec, elapsed,
                 jumps, published, ticks>>

(* The end of a pass of the master. *)
BroadcastDue_Saturating(now) == now - last_broadcast_time >= BROADCAST_INTERVAL_MS
BroadcastDue_NoThrottle(now) == now # last_broadcast_time
BroadcastDue(now) == (now - last_broadcast_time) % WORD >= BROADCAST_INTERVAL_MS
MasterCheck ==
  /\ IF BroadcastDue(time_ms)
     THEN last_broadcast_time' = time_ms /\ published' = published + 1
     ELSE UNCHANGED <<last_broadcast_time, published>>
  /\ UNCHANGED <<system_ms, time_ms, last_timeout_ms, last_tick_sec, elapsed, jumps, ticks>>

(* maintain_connections: its throttle; the sweep itself is in Transport. *)
TimeoutDue(now) == (now - last_timeout_ms) % WORD >= CONN_TIMEOUT_THROTTLE_MS
ThrottleSweep ==
  /\ last_timeout_ms' = IF TimeoutDue(time_ms) THEN time_ms ELSE last_timeout_ms
  /\ UNCHANGED <<system_ms, time_ms, last_broadcast_time, last_tick_sec, elapsed, jumps,
                 published, ticks>>

(* handle_tick: the tick itself is in Cooldown. *)
HandleTick ==
  /\ now_sec > last_tick_sec
  /\ last_tick_sec' = now_sec
  /\ ticks' = ticks + 1
  /\ UNCHANGED <<system_ms, time_ms, last_broadcast_time, last_timeout_ms, elapsed, jumps,
                 published>>

Next ==
  \/ Pass \/ SetClock \/ Update
  \/ MasterCheck \/ ThrottleSweep \/ HandleTick

(* The updater and the two loops never end. *)
Fairness == WF_vars(Update) /\ WF_vars(MasterCheck) /\ WF_vars(ThrottleSweep)
Spec == Init /\ [][Next]_vars /\ Fairness

-----------------------------------------------------------------------------
(* The clocks and the memories of the timers are readings of a clock. *)
TypeOK ==
  /\ {system_ms, time_ms, last_broadcast_time, last_timeout_ms} \subseteq 0 .. MAX_MS
  /\ last_tick_sec \in 0 .. MAX_MS
  /\ elapsed \in 0 .. MAX_ELAPSED /\ jumps \in 0 .. MAX_JUMPS
  /\ {published, ticks} \subseteq Nat

(* What a timer that last fired at reading a has to its credit at b: the    *)
(* time counted, or a whole interval when it is due.                        *)
Credit(a, b) == IF b - a \in 0 .. BROADCAST_INTERVAL_MS - 1 THEN b - a ELSE BROADCAST_INTERVAL_MS

(* master.rs:115: real time and the changes of the clock pay for the        *)
(* publications, one interval or one change each, however the clock is set  *)
(* and however late its copy is; a change never makes a burst of them.      *)
(* Credit that the copy, and then the clock itself, still hold is counted   *)
(* as spent.                                                                *)
PublicationRate ==
  LET paid == elapsed + jumps * BROADCAST_INTERVAL_MS
      spent == published * BROADCAST_INTERVAL_MS
  IN  /\ spent + Credit(last_broadcast_time, time_ms) + Credit(time_ms, system_ms) <= paid
      /\ spent + Credit(last_broadcast_time, system_ms) <= paid

(* The same for a tick made in second a: less than two seconds at reading   *)
(* b, however far b is ahead, and nothing when it is behind.                *)
TickCredit(a, b) ==
  IF b \div MS_PER_SEC < a THEN 0
  ELSE IF b \div MS_PER_SEC = a THEN b % MS_PER_SEC
  ELSE MS_PER_SEC + (b % MS_PER_SEC)

(* What a tick at reading a leaves over for one at reading b. *)
CopyCredit(a, b) ==
  IF TickCredit(a \div MS_PER_SEC, b) > a % MS_PER_SEC
  THEN TickCredit(a \div MS_PER_SEC, b) - (a % MS_PER_SEC)
  ELSE 0

(* worker.rs:263: a tick costs a second of real time; a change of the clock *)
(* pays for two, one for the jump and one because it may end just short of  *)
(* a second.                                                                *)
TickBudget ==
  LET paid == elapsed + (2 * jumps + 1) * MS_PER_SEC
      spent == ticks * MS_PER_SEC
  IN  /\ spent + TickCredit(last_tick_sec, time_ms) + CopyCredit(time_ms, system_ms) < paid
      /\ spent + TickCredit(last_tick_sec, system_ms) < paid

(* The types and the rates, in a form that every step preserves. *)
ClockInv == TypeOK /\ PublicationRate /\ TickBudget

(* A clock set back by any amount does not keep publications and sweeps     *)
(* waiting until it has caught up (master.rs:115, worker.rs:485): left      *)
(* alone, both timers come to be less than an interval behind it.           *)
TimersCatchUp ==
  <>[](/\ system_ms - last_broadcast_time \in 0 .. BROADCAST_INTERVAL_MS - 1
       /\ system_ms - last_timeout_ms \in 0 .. CONN_TIMEOUT_THROTTLE_MS - 1)
=============================================================================
