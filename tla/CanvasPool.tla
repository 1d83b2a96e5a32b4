----------------------------- MODULE CanvasPool -----------------------------
(***************************************************************************)
(* The pool of canvas snapshots (server/src/canvas.rs) through which the   *)
(* master (MasterCore::run, server/src/master.rs) hands the canvas to the  *)
(* workers (handle_broadcast and the two broadcasts, server/src/worker.rs). *)
(* The master fills the slot after the active one and then publishes it by *)
(* storing ACTIVE_INDEX; a worker loads ACTIVE_INDEX and copies the slot.  *)
(* Nothing keeps the master from overtaking a worker that is still copying. *)
(*                                                                         *)
(* Data.  The content of a snapshot is the number of its publication.  A   *)
(* slot has several parts, the units in which it is written and read: some *)
(* of BUFFER_POOL, some of COMPRESSED_BUFFER_POOL, and COMPRESSED_LENS.    *)
(*                                                                         *)
(* Memory model.  A load of ACTIVE_INDEX returns any value stored since    *)
(* the one this worker saw last; a plain read of a part returns any value  *)
(* written to it since the publication whose store the worker has acquired *)
(* (the outcomes of the data race with a master that has come round).      *)
(***************************************************************************)
EXTENDS Integers

CONSTANTS
  Worker,
  CANVAS_BUFFER_POOL_SIZE,   \* 16 in the code
  FULL_BROADCAST_INTERVAL,   \* 60 in the code
  RawPart, CompPart, LenPart,
  MAX_PUBLICATIONS           \* bound on publications

ASSUME PoolAssumption == CANVAS_BUFFER_POOL_SIZE \in Nat /\ CANVAS_BUFFER_POOL_SIZE > 1
ASSUME IntervalAssumption == FULL_BROADCAST_INTERVAL \in Nat \ {0}
ASSUME PublicationsAssumption == MAX_PUBLICATIONS \in Nat

VARIABLES
  pool,                  \* for each slot and part, the publication it is of
  ACTIVE_INDEX,
  filled,                \* parts of the next slot that the master has written
  published,             \* history: number of the last publication
  pc,                    \* what each worker is doing
  last_broadcast_index,  \* of each worker
  broadcast_ticks,       \* of each worker
  copied,                \* parts that its copy in progress has read
  copy,                  \* local_compressed, local_canvas and last_sent_canvas
  seen,                  \* history: publication that it loaded last
  want                   \* history: publication that it broadcasts or did last

masterVars == <<pool, ACTIVE_INDEX, filled, published>>
workerVars == <<pc, last_broadcast_index, broadcast_ticks, copied, copy, seen, want>>
vars == <<pool, ACTIVE_INDEX, filled, published, pc, last_broadcast_index,
          broadcast_ticks, copied, copy, seen, want>>

Slot == 0 .. CANVAS_BUFFER_POOL_SIZE - 1
Part == RawPart \cup CompPart \cup {LenPart}

(* The slot of a publication: & CANVAS_BUFFER_POOL_MASK is the remainder.   *)
SlotOf(n) == n % CANVAS_BUFFER_POOL_SIZE

(* All slots start zeroed; number 0 is the empty canvas in the active slot. *)
Init ==
  /\ pool = [s \in Slot |-> [p \in Part |->
               IF s = 0 THEN 0 ELSE s - CANVAS_BUFFER_POOL_SIZE]]
  /\ ACTIVE_INDEX = 0
  /\ filled = {}
  /\ published = 0
  /\ pc = [w \in Worker |-> "start"]
  /\ last_broadcast_index = [w \in Worker |-> 0]
  /\ broadcast_ticks = [w \in Worker |-> 0]
  /\ copied = [w \in Worker |-> {}]
  /\ copy = [w \in Worker |-> [p \in Part |-> 0]]
  /\ seen = [w \in Worker |-> 0]
  /\ want = [w \in Worker |-> 0]

-----------------------------------------------------------------------------
(* The master.                                                              *)
NextActive_Same(active) == active
NextActive(active) == SlotOf(active + 1)

(* snapshot_to_pool, then rle_compress, then the length. *)
WriteInOrder(p) ==
  /\ p \in CompPart => RawPart \subseteq filled
  /\ p = LenPart => RawPart \cup CompPart \subseteq filled
FillPart(p) ==
  /\ published < MAX_PUBLICATIONS
  /\ p \notin filled
  /\ WriteInOrder(p)
  /\ pool' = [pool EXCEPT ![NextActive(ACTIVE_INDEX)][p] = published + 1]
  /\ filled' = filled \cup {p}
  /\ UNCHANGED <<ACTIVE_INDEX, published, workerVars>>

(* The Release store, once everything is written. *)
SnapshotDone == filled = Part
Publish ==
  /\ SnapshotDone
  /\ ACTIVE_INDEX' = NextActive(ACTIVE_INDEX)
  /\ published' = published + 1
  /\ filled' = {}
  /\ UNCHANGED <<pool, workerVars>>

-----------------------------------------------------------------------------
(* A worker.                                                                *)

(* run_linux takes what is active when it starts as already broadcast. *)
StartWorker(w) ==
  /\ pc[w] = "start"
  /\ \E n \in seen[w] .. published :
       /\ seen' = [seen EXCEPT ![w] = n]
       /\ want' = [want EXCEPT ![w] = n]
       /\ last_broadcast_index' = [last_broadcast_index EXCEPT ![w] = SlotOf(n)]
  /\ pc' = [pc EXCEPT ![w] = "idle"]
  /\ UNCHANGED <<broadcast_ticks, copied, copy, masterVars>>

(* handle_broadcast compares slots, not publications. *)
IsNew_Ordered(w, active) == active > last_broadcast_index[w]
IsNew(w, active) == active # last_broadcast_index[w]

should_broadcast_full(ticks) == ticks = 1 \/ ticks % FULL_BROADCAST_INTERVAL = 0

SkipBroadcast(w) ==
  /\ pc[w] = "idle"
  /\ \E n \in seen[w] .. published :
       /\ ~ IsNew(w, SlotOf(n))
       /\ seen' = [seen EXCEPT ![w] = n]
  /\ UNCHANGED <<pc, last_broadcast_index, broadcast_ticks, copied, copy, want, masterVars>>

BeginBroadcast(w) ==
  /\ pc[w] = "idle"
  /\ \E n \in seen[w] .. published :
       /\ IsNew(w, SlotOf(n))
       /\ seen' = [seen EXCEPT ![w] = n]
       /\ want' = [want EXCEPT ![w] = n]
       /\ last_broadcast_index' = [last_broadcast_index EXCEPT ![w] = SlotOf(n)]
  /\ broadcast_ticks' = [broadcast_ticks EXCEPT ![w] = @ + 1]
  /\ copied' = [copied EXCEPT ![w] = {}]
  /\ pc' = [pc EXCEPT ![w] =
              IF should_broadcast_full(broadcast_ticks'[w]) THEN "full" ELSE "diff"]
  /\ UNCHANGED <<copy, masterVars>>

(* A full broadcast reads the length, the compressed data, and the raw      *)
(* canvas as the base of later diffs; a diff reads the raw canvas.          *)
Needed(kind) == IF kind = "full" THEN Part ELSE RawPart
ReadInOrder(w, p) ==
  pc[w] = "full" =>
    /\ p \in CompPart => LenPart \in copied[w]
    /\ p \in RawPart => CompPart \cup {LenPart} \subseteq copied[w]

(* The slot copied is the one whose number the broadcast was called with.   *)
SlotToCopy_Reloaded(w) == ACTIVE_INDEX
SlotToCopy(w) == last_broadcast_index[w]

CopyPart(w, p) ==
  LET s == SlotToCopy(w)
  IN  /\ pc[w] \in {"full", "diff"}
      /\ p \in Needed(pc[w]) \ copied[w]
      /\ ReadInOrder(w, p)
      /\ \E n \in want[w] .. pool[s][p] :
           /\ SlotOf(n) = s
           /\ copy' = [copy EXCEPT ![w][p] = n]
      /\ copied' = [copied EXCEPT ![w] = @ \cup {p}]
      /\ UNCHANGED <<pc, last_broadcast_index, broadcast_ticks, seen, want, masterVars>>

(* The datagrams are handed to quiche. *)
FinishBroadcast(w) ==
  /\ pc[w] \in {"full", "diff"}
  /\ Needed(pc[w]) \subseteq copied[w]
  /\ pc' = [pc EXCEPT ![w] = "idle"]
  /\ UNCHANGED <<last_broadcast_index, broadcast_ticks, copied, copy, seen, want, masterVars>>

Next ==
  \/ \E p \in Part : FillPart(p)
  \/ Publish
  \/ \E w \in Worker :
       \/ StartWorker(w)
       \/ SkipBroadcast(w)
       \/ BeginBroadcast(w)
       \/ \E p \in Part : CopyPart(w, p)
       \/ FinishBroadcast(w)

Spec == Init /\ [][Next]_vars

-----------------------------------------------------------------------------
(* Every variable has its type. *)
TypeOK ==
  /\ pool \in [Slot -> [Part -> Int]]
  /\ ACTIVE_INDEX \in Slot
  /\ filled \in SUBSET Part
  /\ published \in Nat
  /\ pc \in [Worker -> {"start", "idle", "full", "diff"}]
  /\ last_broadcast_index \in [Worker -> Slot]
  /\ broadcast_ticks \in [Worker -> Nat]
  /\ copied \in [Worker -> SUBSET Part]
  /\ copy \in [Worker -> [Part -> Int]]
  /\ seen \in [Worker -> Nat]
  /\ want \in [Worker -> Nat]

(* The slots hold the last CANVAS_BUFFER_POOL_SIZE publications, but for    *)
(* the parts of the oldest that the master has begun to replace.            *)
PoolHoldsLatest ==
  /\ ACTIVE_INDEX = SlotOf(published)
  /\ \A s \in Slot, p \in Part :
       /\ SlotOf(pool[s][p]) = s
       /\ pool[s][p] > published - CANVAS_BUFFER_POOL_SIZE
       /\ pool[s][p] <= published + 1
       /\ pool[s][p] = published + 1 <=> s = NextActive(ACTIVE_INDEX) /\ p \in filled

(* What a worker has copied is the publication it wants or a later one that *)
(* has taken over its slot.                                                 *)
CopiesFollow ==
  \A w \in Worker :
    /\ want[w] <= seen[w] /\ seen[w] <= published
    /\ last_broadcast_index[w] = SlotOf(want[w])
    /\ pc[w] = "start" => copied[w] = {}
    /\ \A p \in copied[w] :
         /\ SlotOf(copy[w][p]) = SlotOf(want[w])
         /\ want[w] <= copy[w][p] /\ copy[w][p] <= published + 1

(* A worker lets a publication pass only if it is the one it broadcast last *)
(* or the master has gone round the whole pool since.                       *)
SkipOnlyIfLapped ==
  \A w \in Worker :
    pc[w] # "start" =>
      \/ seen[w] = want[w]
      \/ seen[w] >= want[w] + CANVAS_BUFFER_POOL_SIZE /\ SlotOf(seen[w]) = SlotOf(want[w])

(* The inductive invariant. *)
PoolInv == TypeOK /\ PoolHoldsLatest /\ CopiesFollow /\ SkipOnlyIfLapped

(* The slot that ACTIVE_INDEX names is complete and nobody writes to it: a  *)
(* worker that copies before the next publications come finds one snapshot, *)
(* compressed and raw.                                                      *)
ActiveIntact == \A p \in Part : pool[ACTIVE_INDEX][p] = published

(* A broadcast mixes snapshots, or sends a diff base other than the canvas  *)
(* it compressed, only if the master has begun to refill its slot: the      *)
(* worker then took longer than CANVAS_BUFFER_POOL_SIZE - 1 publications.   *)
TornOnlyIfLapped ==
  \A w \in Worker : \A p \in copied[w] :
    copy[w][p] # want[w] => published >= want[w] + CANVAS_BUFFER_POOL_SIZE - 1
=============================================================================
