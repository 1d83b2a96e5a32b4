----------------------------- MODULE Broadcast -----------------------------
(***************************************************************************)
(* How the canvas reaches the clients of a worker: the full and the diff   *)
(* broadcast (server/src/worker.rs), the datagram queue that quiche keeps  *)
(* for each connection, the network, and a loop that runs only when a      *)
(* completion wakes it.                                                    *)
(*                                                                         *)
(* A datagram is a chunk: a function from some cells to their colours.     *)
(* Queue, network and client are external.  The client is taken to know    *)
(* which cells a chunk is about (the code sends bytes with no offset and   *)
(* nothing to tell full and diff apart), and the network loses or reorders *)
(* at most MAX_FAULTS times.                                               *)
(***************************************************************************)
EXTENDS SortedSeqs, SequencesExt

CONSTANTS
  Client,
  CANVAS_SIZE,
  Color,                    \* contains 0, the colour of the empty canvas
  Unknown,                  \* what a client knows of a cell it was never sent
  RUNS_PER_CHUNK,           \* BROADCAST_CHUNK_SIZE / 2 = 600
  ENTRIES_PER_CHUNK,        \* BROADCAST_CHUNK_SIZE / DIFF_ENTRY_SIZE = 240
  QUIC_DGRAM_QUEUE_LEN,     \* 1000
  FULL_BROADCAST_INTERVAL,  \* 60
  CANVAS_BUFFER_POOL_SIZE,  \* 16
  WINDOW,                   \* datagrams a connection may have in flight
  MAX_WRITES,               \* bound on changes of the canvas
  MAX_FAULTS                \* bound on faults of the network

ASSUME BroadcastAssumption ==
  /\ {CANVAS_SIZE, RUNS_PER_CHUNK, ENTRIES_PER_CHUNK} \subseteq Nat \ {0}
  /\ {QUIC_DGRAM_QUEUE_LEN, FULL_BROADCAST_INTERVAL, WINDOW} \subseteq Nat \ {0}
  /\ CANVAS_BUFFER_POOL_SIZE \in Nat \ {0, 1}
  /\ 0 \in Color /\ Unknown \notin Color

VARIABLES
  snapshot,          \* the canvas last published
  active,            \* ACTIVE_INDEX: the slot of the pool that holds it
  last_broadcast_index,
  broadcast_ticks,
  last_sent_canvas,
  connected,
  narrow,            \* connections that take no chunk of BROADCAST_CHUNK_SIZE
  dgrams,            \* datagram send queue of each connection
  wire,              \* datagrams in flight
  view,              \* the canvas as each client knows it
  awake,             \* a completion waits for the worker
  writes, faults,    \* counted against their bounds
  in_step,           \* history: no chunk of the client was refused, lost or
                     \* reordered since its last full broadcast
  news,              \* history: a publication since the worker's last look
  missed             \* history: which that look took for no change

pubVars == <<snapshot, active, writes>>
workerVars == <<last_broadcast_index, broadcast_ticks, last_sent_canvas, missed>>
clientVars == <<connected, narrow>>
vars == <<pubVars, workerVars, clientVars, dgrams, wire, view, awake, faults, in_step, news>>

Slot == 0 .. CANVAS_BUFFER_POOL_SIZE - 1
Cell == 1 .. CANVAS_SIZE
Canvas == [Cell -> Color]
Chunk == UNION {[cells -> Color] : cells \in SUBSET Cell}

(* The worker takes the slot that is active at its start for broadcast. *)
Init ==
  /\ snapshot = [i \in Cell |-> 0]
  /\ active \in Slot
  /\ last_broadcast_index = active
  /\ broadcast_ticks = 0
  /\ last_sent_canvas = [i \in Cell |-> 0]
  /\ connected = {} /\ narrow = {}
  /\ dgrams = [c \in Client |-> << >>]
  /\ wire = [c \in Client |-> << >>]
  /\ view = [c \in Client |-> [i \in Cell |-> Unknown]]
  /\ awake = FALSE
  /\ writes = 0
  /\ faults = 0
  /\ in_step = [c \in Client |-> FALSE]
  /\ news = FALSE /\ missed = FALSE

-----------------------------------------------------------------------------
(* chunks(BROADCAST_CHUNK_SIZE): a sequence of items, each about some       *)
(* cells, cut into pieces of n items.                                       *)
Chunks(items, n, canvas) ==
  LET Cells(k) == UNION {items[j] : j \in {i \in DOMAIN items : (i - 1) \div n = k - 1}}
  IN  [k \in 1 .. (Len(items) + n - 1) \div n |-> [i \in Cells(k) |-> canvas[i]]]

(* The compressed canvas: one item per run of a colour (of any length: that *)
(* Rle cuts it at 255 adds items, and no other kind of chunk).              *)
RunStarts(new) == {i \in Cell : i = 1 \/ new[i] # new[i - 1]}
FullChunks(new) ==
  LET starts == Sorted(RunStarts(new))
      End(k) == IF k = Len(starts) THEN CANVAS_SIZE ELSE starts[k + 1] - 1
  IN  Chunks([k \in DOMAIN starts |-> starts[k] .. End(k)], RUNS_PER_CHUNK, new)

(* The diff: one item per changed cell. *)
Changed(new, old) == {i \in Cell : old[i] # new[i]}
DiffChunks(new, old) ==
  LET changed == Sorted(Changed(new, old))
  IN  Chunks([k \in DOMAIN changed |-> {changed[k]}], ENTRIES_PER_CHUNK, new)

(* dgram_send refuses a chunk that is longer than the connection can write: *)
(* a narrow connection takes at most the last chunk, when that is short.    *)
Accepted(c, chunks, short) ==
  IF c \notin narrow THEN chunks
  ELSE IF chunks # << >> /\ short THEN <<chunks[Len(chunks)]>>
  ELSE << >>

(* And what does not fit into the queue is dropped. *)
Fits(queue, chunks) == Len(queue) + Len(chunks) <= QUIC_DGRAM_QUEUE_LEN
Enqueue(queue, chunks) ==
  IF Fits(queue, chunks) THEN queue \o chunks
  ELSE SubSeq(queue \o chunks, 1, QUIC_DGRAM_QUEUE_LEN)

(* The count of broadcasts, folded so that it stays finite: beyond 1 only   *)
(* its remainder matters.                                                   *)
NextTicks(ticks) ==
  IF ticks + 1 = 2 * FULL_BROADCAST_INTERVAL THEN FULL_BROADCAST_INTERVAL ELSE ticks + 1
should_broadcast_full_Once(ticks) == ticks = 1
should_broadcast_full(ticks) == ticks = 1 \/ ticks % FULL_BROADCAST_INTERVAL = 0

(* Both broadcasts leave the canvas they sent as the base of the next diff. *)
LastSent_DiffOnly(full, new) == IF full THEN last_sent_canvas ELSE new
LastSent(full, new) == new

(* flush_outgoing: as many datagrams as the window takes.  Their            *)
(* completions wake the worker again.                                       *)
Flush(queues) ==
  LET Room(c) == WINDOW - Len(wire[c])
      n == [c \in Client |-> IF Len(queues[c]) < Room(c) THEN Len(queues[c]) ELSE Room(c)]
  IN  /\ wire' = [c \in Client |-> wire[c] \o SubSeq(queues[c], 1, n[c])]
      /\ dgrams' = [c \in Client |-> SubSeq(queues[c], n[c] + 1, Len(queues[c]))]
      /\ awake' = \E c \in Client : n[c] > 0

(* ACTIVE_INDEX differs from last_broadcast_index.  (Were it required to be *)
(* larger, a worker would not notice the snapshots past the end of the      *)
(* pool.)                                                                   *)
Noticed_Ordered == active > last_broadcast_index
Noticed == active # last_broadcast_index

(* A pass of the loop that finds a new snapshot, and one that does not.     *)
(* The pool is copied at once: the copy that a refill disturbs is in        *)
(* CanvasPool.                                                              *)
PassBroadcast ==
  LET ticks  == NextTicks(broadcast_ticks)
      full   == should_broadcast_full(ticks)
      chunks == IF full THEN FullChunks(snapshot) ELSE DiffChunks(snapshot, last_sent_canvas)
      short  == IF full
                THEN Cardinality(RunStarts(snapshot)) % RUNS_PER_CHUNK # 0
                ELSE Cardinality(Changed(snapshot, last_sent_canvas)) % ENTRIES_PER_CHUNK # 0
  IN  /\ awake
      /\ Noticed
      /\ last_broadcast_index' = active
      /\ broadcast_ticks' = ticks
      /\ last_sent_canvas' = LastSent(full, snapshot)
      /\ Flush([c \in Client |->
                  IF c \in connected THEN Enqueue(dgrams[c], Accepted(c, chunks, short))
                  ELSE dgrams[c]])
      /\ in_step' = [c \in Client |->
                       /\ c \in connected
                       /\ Accepted(c, chunks, short) = chunks
                       /\ Fits(dgrams[c], chunks)
                       /\ full \/ in_step[c]]
      /\ news' = FALSE
      /\ missed' = FALSE
      /\ UNCHANGED <<pubVars, clientVars, view, faults>>
PassNothingNew ==
  /\ awake
  /\ ~ Noticed
  /\ Flush(dgrams)
  /\ news' = FALSE
  /\ missed' = (news /\ active = last_broadcast_index)
  /\ UNCHANGED <<pubVars, clientVars, last_broadcast_index, broadcast_ticks,
                 last_sent_canvas, view, faults, in_step>>

-----------------------------------------------------------------------------
(* The master publishes at its interval, whether the canvas has changed or  *)
(* not, and whatever workers and clients have done with the last snapshot.  *)
Publish ==
  /\ active' = (active + 1) % CANVAS_BUFFER_POOL_SIZE
  /\ \/ UNCHANGED <<snapshot, writes>>
     \/ /\ writes < MAX_WRITES
        /\ writes' = writes + 1
        /\ \E i \in Cell, x \in Color :
             /\ x # snapshot[i]
             /\ snapshot' = [snapshot EXCEPT ![i] = x]
  /\ news' = TRUE
  /\ UNCHANGED <<workerVars, clientVars, dgrams, wire, view, awake, faults, in_step>>

(* A client connects, on a path that carries chunks of the full size or     *)
(* not; any packet of a client wakes the worker.                            *)
Connect(c) ==
  /\ c \notin connected
  /\ connected' = connected \cup {c}
  /\ narrow' \in {narrow, narrow \cup {c}}
  /\ awake' = TRUE
  /\ UNCHANGED <<pubVars, workerVars, dgrams, wire, view, faults, in_step, news>>
ClientPacket(c) ==
  /\ c \in connected
  /\ awake' = TRUE
  /\ UNCHANGED <<pubVars, workerVars, clientVars, dgrams, wire, view, faults, in_step, news>>

(* A datagram arrives; one that overtakes others is a fault.  The client    *)
(* acknowledges it.                                                         *)
Applied(canvas, chunk) ==
  [i \in Cell |-> IF i \in DOMAIN chunk THEN chunk[i] ELSE canvas[i]]
Deliver(c) ==
  \E k \in DOMAIN wire[c] :
    /\ k > 1 => faults < MAX_FAULTS
    /\ view' = [view EXCEPT ![c] = Applied(@, wire[c][k])]
    /\ wire' = [wire EXCEPT ![c] = RemoveAt(@, k)]
    /\ faults' = IF k > 1 THEN faults + 1 ELSE faults
    /\ in_step' = [in_step EXCEPT ![c] = @ /\ k = 1]
    /\ awake' = TRUE
    /\ UNCHANGED <<pubVars, workerVars, clientVars, dgrams, news>>
Lose(c) ==
  \E k \in DOMAIN wire[c] :
    /\ faults < MAX_FAULTS
    /\ faults' = faults + 1
    /\ wire' = [wire EXCEPT ![c] = RemoveAt(@, k)]
    /\ in_step' = [in_step EXCEPT ![c] = FALSE]
    /\ UNCHANGED <<pubVars, workerVars, clientVars, dgrams, view, awake, news>>

Pass == PassBroadcast \/ PassNothingNew
Next ==
  \/ Pass
  \/ Publish
  \/ \E c \in Client : Connect(c) \/ ClientPacket(c) \/ Deliver(c) \/ Lose(c)

(* The worker's loop and the master's loop never end, and the network works *)
(* but for its faults.  Clients owe nothing.                                *)
Spec ==
  /\ Init /\ [][Next]_vars
  /\ WF_vars(Pass) /\ WF_vars(Publish)
  /\ \A c \in Client : WF_vars(Deliver(c))

(* Clients that go on sending: the load generator's users place a pixel     *)
(* every max_pixel_wait milliseconds (client/src/main.rs).                  *)
ActiveSpec == Spec /\ \A c \in Client : WF_vars(Connect(c)) /\ WF_vars(ClientPacket(c))

-----------------------------------------------------------------------------
(* Every variable has its type. *)
TypeOK ==
  /\ {snapshot, last_sent_canvas} \subseteq Canvas
  /\ broadcast_ticks \in 0 .. 2 * FULL_BROADCAST_INTERVAL - 1
  /\ {active, last_broadcast_index} \subseteq Slot
  /\ {connected, narrow} \subseteq SUBSET Client
  /\ dgrams \in [Client -> Seq(Chunk)]
  /\ wire \in [Client -> Seq(Chunk)]
  /\ view \in [Client -> [Cell -> Color \cup {Unknown}]]
  /\ \A c \in Client : Len(wire[c]) <= WINDOW /\ Len(dgrams[c]) <= QUIC_DGRAM_QUEUE_LEN
  /\ {awake, news, missed} \subseteq BOOLEAN /\ in_step \in [Client -> BOOLEAN]

(* Once the client that shows canvas has had all of a queue of chunks, it   *)
(* shows goal: each cell as in the last chunk about it, if there is one.    *)
LastAbout(queue, k, i) ==
  i \in DOMAIN queue[k] /\ \A j \in DOMAIN queue : j > k => i \notin DOMAIN queue[j]
WillShow(canvas, queue, goal) ==
  \A i \in Cell :
    /\ (\A k \in DOMAIN queue : i \notin DOMAIN queue[k]) => canvas[i] = goal[i]
    /\ \A k \in DOMAIN queue : LastAbout(queue, k, i) => queue[k][i] = goal[i]

(* A client that has had a whole full broadcast and lost nothing since will *)
(* show the canvas that the worker takes as the base of its next diff, once *)
(* it has what is in flight and queued: a diff never leaves out a cell that *)
(* the client has wrong.                                                    *)
DiffBaseIsClientView ==
  \A c \in Client :
    in_step[c] => WillShow(view[c], wire[c] \o dgrams[c], last_sent_canvas)

(* The types and the agreement of diff base and client. *)
BroadcastInv == TypeOK /\ DiffBaseIsClientView

(* What the repair of a client takes of its surroundings: from some time on *)
(* the queues are empty when a broadcast adds to them, and no look of the   *)
(* worker comes a whole round of the pool after the one before.             *)
KeepsUp ==
  /\ <>[][(last_broadcast_index' # last_broadcast_index)
            => \A c \in Client : dgrams[c] = << >>]_vars
  /\ <>[]~ missed

(* const_settings.rs:237-238: "overflow just drops late chunks - the next   *)
(* full broadcast will resync".  Whatever was lost or dropped, and whenever *)
(* a client came, it ends up showing the canvas once faults and changes     *)
(* stop, if its path carries the chunks.                                    *)
Repaired == \A c \in Client : <>[](c \in narrow \/ view[c] = snapshot)
Resyncs == KeepsUp => Repaired

(* What does hold: so it is for a canvas whose chunks fit into the queue of *)
(* a connection, whatever larger canvases and backlogs came before.         *)
CanvasFits == Len(FullChunks(snapshot)) <= QUIC_DGRAM_QUEUE_LEN
ResyncsIfFits == KeepsUp /\ <>[]CanvasFits => Repaired

(* const_settings.rs:83-87: a snapshot every 100 ms, broadcast full or as a *)
(* diff.  With clients that go on sending, a canvas that was not broadcast  *)
(* is not so for ever, although nothing but a completion wakes the worker   *)
(* and worker.rs:274 compares slot numbers, unless the worker looks again   *)
(* after exactly one round of the pool or several.                          *)
PublicationIsBroadcast ==
  (snapshot # last_sent_canvas /\ connected # {})
    ~> (snapshot = last_sent_canvas \/ missed)
=============================================================================
