---------------------------- MODULE BoundedFifo ----------------------------
(***************************************************************************)
(* What SpscRingBuffer (server/src/spsc.rs) promises its two users: a      *)
(* bounded first-in first-out queue.  The state is two logs: the values    *)
(* push has taken, and the values pop has returned.                        *)
(***************************************************************************)
EXTENDS Naturals, Sequences

CONSTANTS
  Capacity,     \* most values the queue holds
  Value         \* what can be queued

VARIABLES
  accepted,     \* values for which push returned Ok, in order
  delivered     \* values pop has returned, in order

vars == <<accepted, delivered>>

Init ==
  /\ accepted = << >>
  /\ delivered = << >>

(* push returns Ok only while fewer than Capacity values are queued. *)
Accept(v) ==
  /\ Len(accepted) - Len(delivered) < Capacity
  /\ accepted' = Append(accepted, v)
  /\ UNCHANGED delivered

(* pop returns the oldest value that it has not returned before. *)
Deliver ==
  /\ Len(delivered) < Len(accepted)
  /\ delivered' = Append(delivered, accepted[Len(delivered) + 1])
  /\ UNCHANGED accepted

Next == (\E v \in Value : Accept(v)) \/ Deliver

(* The safety part, and the whole promise: an accepted value is delivered. *)
SafeSpec == Init /\ [][Next]_vars
Spec == SafeSpec /\ WF_vars(Deliver)
=============================================================================
