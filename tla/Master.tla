------------------------------- MODULE Master -------------------------------
(***************************************************************************)
(* The loop of the master (MasterCore::run, server/src/master.rs): it      *)
(* drains the queue of every worker in turn, a batch at a time, writes the *)
(* pixels into the canvas (set_pixel, server/src/canvas.rs) and publishes  *)
(* a snapshot when its timer is due.                                       *)
(*                                                                         *)
(* A queue is the bounded FIFO that SpscRing implements, the snapshot is   *)
(* handed over by CanvasPool, and the timer is Clock's: here it is due or  *)
(* not at the end of any pass.  Workers push without end.                  *)
(***************************************************************************)
EXTENDS Integers, Sequences

CONSTANTS
  NUM_WORKERS,
  SPSC_CAPACITY,        \* 65536
  MASTER_BATCH_DRAIN,   \* 4096
  CANVAS_WIDTH, CANVAS_HEIGHT,
  Pixel                 \* what workers send: any u16 coordinates, any u8 colour

ASSUME MasterAssumption ==
  /\ {NUM_WORKERS, SPSC_CAPACITY, MASTER_BATCH_DRAIN} \subseteq Nat \ {0}
  /\ {CANVAS_WIDTH, CANVAS_HEIGHT} \subseteq Nat \ {0}
  /\ Pixel \subseteq [x : Nat, y : Nat, color : Nat]

VARIABLES
  queues,     \* of each worker
  at,         \* the queue being drained; NUM_WORKERS + 1 at the end of a pass
  drained,    \* pixels taken from it in this pass
  pixels,     \* the canvas, by index
  snapshot,   \* the canvas last published
  painted     \* history: the colour last sent to each pair of coordinates

masterVars == <<queues, at, drained, pixels, snapshot, painted>>

Worker == 1 .. NUM_WORKERS
CANVAS_SIZE == CANVAS_WIDTH * CANVAS_HEIGHT
Index == 0 .. CANVAS_SIZE - 1
Coordinates == (0 .. CANVAS_WIDTH - 1) \X (0 .. CANVAS_HEIGHT - 1)

MasterInit ==
  /\ queues = [w \in Worker |-> << >>]
  /\ at = 1
  /\ drained = 0
  /\ pixels = [i \in Index |-> 0]
  /\ snapshot = pixels
  /\ painted = [c \in Coordinates |-> 0]

-----------------------------------------------------------------------------
Push(w, p) ==
  /\ Len(queues[w]) < SPSC_CAPACITY
  /\ queues' = [queues EXCEPT ![w] = Append(@, p)]
  /\ UNCHANGED <<at, drained, pixels, snapshot, painted>>

(* set_pixel: coordinates outside the canvas are ignored. *)
SetPixel_SizeOnly(p) ==
  LET index == p.y * CANVAS_WIDTH + p.x
  IN  IF index \in Index THEN [pixels EXCEPT ![index] = p.color] ELSE pixels
SetPixel(p) ==
  IF p.x < CANVAS_WIDTH /\ p.y < CANVAS_HEIGHT
  THEN [pixels EXCEPT ![p.y * CANVAS_WIDTH + p.x] = p.color]
  ELSE pixels

(* The batch of a queue ends after so many pixels, or when it is empty. *)
BatchEnds == drained = MASTER_BATCH_DRAIN \/ queues[at] = << >>

PopPixel ==
  /\ at \in Worker
  /\ ~ BatchEnds
  /\ LET p == Head(queues[at])
     IN  /\ pixels' = SetPixel(p)
         /\ painted' = [c \in Coordinates |-> IF c = <<p.x, p.y>> THEN p.color ELSE painted[c]]
  /\ queues' = [queues EXCEPT ![at] = Tail(@)]
  /\ drained' = drained + 1
  /\ UNCHANGED <<at, snapshot>>
(* On to the next queue, whether this one is empty or not. *)
After_Empty == IF queues[at] = << >> THEN at + 1 ELSE at
After == at + 1
NextQueue ==
  /\ at \in Worker
  /\ BatchEnds
  /\ at' = After
  /\ drained' = 0
  /\ UNCHANGED <<queues, pixels, snapshot, painted>>

(* The end of a pass, when the timer is due and when it is not. *)
Published_OnlyWhenIdle == IF \A w \in Worker : queues[w] = << >> THEN pixels ELSE snapshot
Published == pixels
Publish ==
  /\ at \notin Worker
  /\ at' = 1
  /\ snapshot' = Published
  /\ UNCHANGED <<queues, drained, pixels, painted>>
NotDue ==
  /\ at \notin Worker
  /\ at' = 1
  /\ UNCHANGED <<queues, drained, pixels, snapshot, painted>>

Run == PopPixel \/ NextQueue \/ Publish \/ NotDue
MasterNext == Run \/ \E w \in Worker, p \in Pixel : Push(w, p)

(* The loop never ends, and a timer that is read again and again comes to   *)
(* be due (TimersCatchUp of Clock).                                         *)
MasterSpec == MasterInit /\ [][MasterNext]_masterVars /\ WF_masterVars(Run) /\ SF_masterVars(Publish)

-----------------------------------------------------------------------------
(* Every variable has its type. *)
MasterTypeOK ==
  /\ queues \in [Worker -> Seq(Pixel)]
  /\ \A w \in Worker : Len(queues[w]) <= SPSC_CAPACITY
  /\ at \in 1 .. NUM_WORKERS + 1
  /\ drained \in 0 .. MASTER_BATCH_DRAIN
  /\ {pixels, snapshot} \subseteq [Index -> Nat]
  /\ painted \in [Coordinates -> Nat]

(* The canvas shows at each place the colour last sent to exactly these     *)
(* coordinates: a pixel with a coordinate out of range never ends up at the *)
(* place of another (canvas.rs:74), and no two places share an index.       *)
CanvasByCoordinates ==
  \A c \in Coordinates : pixels[c[2] * CANVAS_WIDTH + c[1]] = painted[c]

(* The types and the canvas. *)
MasterInv == MasterTypeOK /\ CanvasByCoordinates

(* However fast the other workers push, a pixel taken from a client reaches *)
(* the canvas: the batch limit of master.rs:104 keeps one busy queue from   *)
(* holding the master for ever.                                             *)
AcceptedIsApplied ==
  \A w \in Worker, p \in Pixel :
    (p.x < CANVAS_WIDTH /\ p.y < CANVAS_HEIGHT) =>
      ((\E i \in DOMAIN queues[w] : queues[w][i] = p)
         ~> pixels[p.y * CANVAS_WIDTH + p.x] = p.color)

(* At most so many turns of the loops are left in this pass. *)
TurnsLeft == (NUM_WORKERS + 1 - at) * (MASTER_BATCH_DRAIN + 1) - drained

(* However fast the workers push, a pass over the queues ends after a       *)
(* number of turns that only the sizes determine (master.rs:102-113): every *)
(* step of the master brings the end nearer, and a push, the only other     *)
(* step there is, does not move it.                                         *)
PassIsBounded ==
  [][(at \in Worker) =>
       \/ TurnsLeft' < TurnsLeft /\ TurnsLeft' \in Nat
       \/ TurnsLeft' = TurnsLeft /\ \E w \in Worker : Len(queues'[w]) > Len(queues[w])
    ]_masterVars

(* A colour that is not painted over is published, even if the queues are   *)
(* never all empty.                                                         *)
ColourIsPublished ==
  \A i \in Index : \A p \in Pixel :
    pixels[i] = p.color ~> snapshot[i] = p.color \/ pixels[i] # p.color
=============================================================================
