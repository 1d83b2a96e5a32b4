--------------------------- MODULE CooldownTimers ---------------------------
(***************************************************************************)
(* What the timing wheel and the cooldown bitset promise together: one     *)
(* countdown per user.  A user whose countdown is zero may place a pixel,  *)
(* which starts the countdown again; a tick lowers every running one.      *)
(***************************************************************************)
EXTENDS Naturals

CONSTANTS
  User,        \* user ids of a worker
  Ticks        \* length of a cooldown

VARIABLE remaining   \* ticks left of each user's cooldown

Init == remaining = [u \in User |-> 0]

Charge(u) ==
  /\ remaining[u] = 0
  /\ remaining' = [remaining EXCEPT ![u] = Ticks]

Tick ==
  remaining' = [u \in User |-> IF remaining[u] = 0 THEN 0 ELSE remaining[u] - 1]

Next == (\E u \in User : Charge(u)) \/ Tick

Spec == Init /\ [][Next]_remaining
=============================================================================
