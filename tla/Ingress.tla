------------------------------ MODULE Ingress ------------------------------
(***************************************************************************)
(* handle_incoming_cqe of a worker (server/src/worker.rs): the composition *)
(* of the connection table (Transport), the cooldown (Cooldown, extended   *)
(* here) and the queue to the master.  A packet is given to its            *)
(* connection; the pixels read from it are tested against the cooldown of  *)
(* the connection's user id one by one, and the ones let through are       *)
(* charged and pushed.                                                     *)
(*                                                                         *)
(* The queue is SpscRing as its producer sees it: the pixels pushed whose  *)
(* removal the worker has not seen yet.  Of a pixel the model keeps the    *)
(* user id it was charged to and when.                                     *)
(***************************************************************************)
EXTENDS Cooldown, Transport

CONSTANTS
  SPSC_CAPACITY,
  MAX_PIXELS     \* bound on the pixels in one packet

ASSUME QueueAssumption == SPSC_CAPACITY \in Nat /\ SPSC_CAPACITY >= MAX_CONNECTIONS_PER_WORKER
ASSUME PixelsAssumption == MAX_PIXELS \in Nat

VARIABLES
  pixels_scratch,  \* for each pixel still to be tested, the connection it is from
  queued,          \* the queue, as the worker sees it
  joined,          \* history: last_tick_sec when each connection was accepted
  placed           \* history: last_tick_sec at its last pixel, or Never

Never == 0 - 1
loopVars == <<pixels_scratch, queued, placed>>
ingressVars == <<vars, tableVars, loopVars, joined>>

IngressInit ==
  /\ Init
  /\ TransportInit
  /\ pixels_scratch = << >>
  /\ queued = << >>
  /\ joined = << >>
  /\ placed = << >>

-----------------------------------------------------------------------------
(* process_datagrams_internal: the pixels that can be read from a           *)
(* connection.  Datagrams of another size than a pixel's are skipped.       *)
Pixels(s) ==
  IF conn'[s] = "established" \/ (s \in connections /\ conn[s] = "established")
  THEN {[i \in 1 .. n |-> s] : n \in 0 .. MAX_PIXELS} ELSE {<< >>}

(* handle_incoming. *)
HandlePacket(dcid, ty) ==
  LET s == Resolve(dcid)'
      Enter(f, x) == [t \in connections' |-> IF t \in connections THEN f[t] ELSE x]
  IN  /\ pixels_scratch = << >>
      /\ HandleIncoming(dcid, ty)
      /\ joined' = Enter(joined, last_tick_sec)
      /\ placed' = Enter(placed, Never)
      /\ pixels_scratch' \in IF s \in connections' THEN Pixels(s) ELSE {<< >>}
      /\ UNCHANGED <<vars, queued>>

(* push fails when the ring looks full; the error is ignored. *)
Pushed_Unbounded(u) == Append(queued, [user |-> u, sec |-> last_tick_sec])
Pushed(u) ==
  IF Len(queued) >= SPSC_CAPACITY THEN queued
  ELSE Append(queued, [user |-> u, sec |-> last_tick_sec])

(* The loop over the pixels. *)
PlacePixel ==
  LET s == Head(pixels_scratch)
      u == user_id[s]
  IN  /\ pixels_scratch # << >>
      /\ pixels_scratch' = Tail(pixels_scratch)
      /\ AdmitPixel(u)
      /\ queued' = Pushed(u)
      /\ placed' = [placed EXCEPT ![s] = last_tick_sec]
      /\ UNCHANGED <<tableVars, joined>>
DropPixel ==
  /\ pixels_scratch # << >>
  /\ pixels_scratch' = Tail(pixels_scratch)
  /\ RefusePixel(user_id[Head(pixels_scratch)])
  /\ UNCHANGED <<tableVars, queued, placed, joined>>

(* The rest of a pass of the loop: handle_tick and maintain_connections. *)
Tick(now_sec) ==
  /\ pixels_scratch = << >>
  /\ HandleTick(now_sec)
  /\ UNCHANGED <<tableVars, loopVars, joined>>
Maintain ==
  /\ pixels_scratch = << >>
  /\ MaintainConnections
  /\ joined' = [s \in connections' |-> joined[s]]
  /\ placed' = [s \in connections' |-> placed[s]]
  /\ UNCHANGED <<vars, pixels_scratch, queued>>

(* The worker sees that the master has popped a pixel. *)
SeePop ==
  /\ queued # << >>
  /\ queued' = Tail(queued)
  /\ UNCHANGED <<vars, tableVars, pixels_scratch, placed, joined>>

IngressNext ==
  \/ \E dcid \in ConnId, ty \in PacketType : HandlePacket(dcid, ty)
  \/ PlacePixel
  \/ DropPixel
  \/ \E now_sec \in 0 .. MAX_SEC : Tick(now_sec)
  \/ Maintain
  \/ SeePop

IngressSpec == IngressInit /\ [][IngressNext]_ingressVars

-----------------------------------------------------------------------------
(* Every variable of the composition has its type; the pixels in hand are   *)
(* of a live connection.                                                    *)
IngressTypeOK ==
  /\ TransportTypeOK
  /\ pixels_scratch \in Seq(connections)
  /\ queued \in Seq([user : User, sec : Nat]) /\ Len(queued) <= SPSC_CAPACITY
  /\ joined \in [connections -> Nat]
  /\ placed \in [connections -> Nat \cup {Never}]

(* The queue is in the order of the clock, two of its pixels of one user id *)
(* are a cooldown apart, and a user id that may place a pixel has none in   *)
(* it that is younger than that.                                            *)
QueueSpaced ==
  /\ \A i, j \in 1 .. Len(queued) :
       i < j => /\ queued[i].sec <= queued[j].sec
                /\ queued[i].user = queued[j].user
                     => queued[i].sec + TIMING_WHEEL_TICKS <= queued[j].sec
  /\ \A i \in 1 .. Len(queued) : queued[i].sec <= charged[queued[i].user]

(* Whether a client is on cooldown or not, its user id was last charged for *)
(* the client's own last pixel or, until it has placed one, not after it    *)
(* came.                                                                    *)
ChargesExplained ==
  \A s \in connections :
    IF placed[s] = Never THEN charged[user_id[s]] <= joined[s]
    ELSE placed[s] = charged[user_id[s]]

(* The inductive invariant: the two components keep theirs. *)
IngressInv ==
  WheelInv /\ TransportInv /\ IngressTypeOK /\ QueueSpaced /\ ChargesExplained

(* Pixels are charged and then lost (push fails, worker.rs:385) only if the *)
(* master has left a pixel in the queue for a whole cooldown: the ring has  *)
(* as many slots as the worker has user ids, and no id fills two of them    *)
(* any sooner.                                                              *)
LossMeansStall ==
  Len(queued) = SPSC_CAPACITY /\ (\E u \in User : ~ is_on_cooldown(cooldown_master, u))
    => queued[1].sec + TIMING_WHEEL_TICKS <= last_tick_sec

(* A connection places its pixels a cooldown apart, however many come in a  *)
(* packet and whatever connections come and go in between.                  *)
ConnectionRate ==
  [][\A s \in connections \cap connections' :
       placed'[s] # placed[s] /\ placed[s] # Never
         => placed'[s] >= placed[s] + TIMING_WHEEL_TICKS]_ingressVars
=============================================================================
