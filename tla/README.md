# TLA+ models of Bare Metal Canvas

Bare Metal Canvas is a shared-canvas server in Rust ("r/place"). Clients place
pixels over QUIC datagrams, one pixel per cooldown period; the server applies
them to one canvas and broadcasts it. The server is one process: a *master*
thread that owns the canvas, and one *worker* thread per remaining core, each
with its own UDP socket (`SO_REUSEPORT`), io_uring, connections and cooldowns.
Threads share memory through two lock-free structures only, and both use
`unsafe` code whose correctness no compiler checks. That is where this project
began.

All paths below are relative to `src/`. A module's comments say what each
definition models; `PROJECT.json` maps each to its lines.

## 1. Inventory

| component | code | state | operations | hard because |
|---|---|---|---|---|
| SPSC ring | `server/src/spsc.rs` | `tail`, `head`, slots | `push` (worker), `pop` (master) | two threads, plain slot accesses guarded by Acquire/Release counters that wrap |
| cooldown bitset, timing wheel | `server/src/cooldown.rs`, `timing_wheel.rs` | one bit per user; one bitset per tick | `set_cooldown`, `is_on_cooldown`, `tick`, `add_cooldown` | index arithmetic; release must come exactly one turn later; the wheel is driven by a clock that jumps |
| connection table | `server/src/transport.rs` | `connections`, `cid_map`, `free_user_ids` | `resolve_connection_id`, `accept_connection`, `handle_incoming`, `cleanup_connections` | three structures that must agree over accepts, failed accepts, closes and reused ids |
| canvas pool | `server/src/canvas.rs` | 16 snapshots, raw and compressed, `ACTIVE_INDEX` | `snapshot_to_pool`, publication, concurrent copies | readers are not counted: the master may overtake one |
| master | `server/src/master.rs` | the canvas, time of the last broadcast | drain queues, `set_pixel`, snapshot, `rle_compress`, publish | order of plain writes and one Release store; clock arithmetic |
| RLE codec | `server/src/master.rs`, `client/src/main.rs` | – | `rle_compress`, `rle_decompress` | a vector loop and a scalar loop share an index and a counter capped at 255 |
| worker loop | `server/src/worker.rs` | TX items, receive buffers, submission and completion queues | `run_linux`, `process_pending_cqes`, `handle_incoming_cqe`, `flush_outgoing`, `maintain_connections` | memory lent to the kernel; queues at their limits; sleeping until a completion arrives |
| broadcast | `server/src/worker.rs` | `last_broadcast_index`, `broadcast_ticks`, `last_sent_canvas` | `handle_broadcast`, full and diff | stale index, torn copies, datagrams dropped |
| clock | `server/src/time.rs` | one atomic of milliseconds | background store, relaxed loads | wall clock: stalls, leaps, goes back |
| settings | `server/src/const_settings.rs` | – | – | derived sizes that other code relies on |
| start-up | `server/src/main.rs` | two certificate files that outlive it | `create_certificates`, core partition, threads | a start may be cut short between or inside two writes |
| load generator | `client/src/*.rs` | counters, simulated users | connect, send, decode, export | counters lowered by wrapping addition; an await between reading and remembering them |
| framing, scripts, plots, deployment | `worker.rs` (`Framing`), `bench/`, `scripts/`, `ansible/` | – | – | – |

How they interact. A packet wakes the worker from `submit_and_wait`; the worker
first ticks the wheel and broadcasts, then handles the completions it finds:
`handle_incoming` finds or opens the connection, and each pixel read from it is
tested against the cooldown of the connection's user id, charged, and pushed to
the master's queue for this worker. The master polls all queues, writes the
canvas and, at the broadcast interval, fills the next pool slot and stores
`ACTIVE_INDEX`. Workers compare `ACTIVE_INDEX` with the one they broadcast last
and copy the slot.

What makes each part correct:

* ring: no two plain accesses to one slot at a time; what `push` accepted is
  delivered once, in order, in the end;
* cooldown: no two pixels of a user closer than the cooldown, no user blocked
  for ever, no effect on another user;
* connections: every user id free or owned exactly once; a packet reaches the
  connection it belongs to; a full worker recovers;
* pool: what is active is complete and stable; a worker that is not lapped
  copies one snapshot and misses none;
* worker loop: every buffer is owned by exactly one of worker and kernel; the
  receive is always armed or about to be; TX items come back;
* codec: decompressing gives the canvas back; no index leaves its buffer;
* ingress: each connection keeps its rate whatever connections come and go; a
  pixel that was charged is not lost while the master keeps up;
* broadcast: a client ends up showing the canvas, whatever was lost;
* clock: no setting of it stops the timers or makes them run wild;
* master: the canvas is what was sent to its coordinates; no queue starves;
* start-up: a start that was cut short does not spoil the next;
* load generator: its numbers are exact.

The hazards behind these, at their lines, are listed in `PROJECT.json`.

## 2. Modules

| module | models | composed with |
|---|---|---|
| `BoundedFifo` | what the ring promises: two logs, accepted and delivered | |
| `SpscRing` | `push`, `pop`, split at their shared accesses | refines `BoundedFifo` |
| `CooldownTimers` | what bitset and wheel promise: a countdown per user | |
| `Cooldown` | bitset, wheel, `handle_tick`, admission of a pixel | refines `CooldownTimers` |
| `Transport` | connection table, `maintain_connections` | |
| `CanvasPool` | pool, publication by the master, broadcast copies by the workers | |
| `UringWorker` | the worker's loop and the kernel's queues | |
| `Rle` | `rle_compress` and `rle_decompress`, step by step | |
| `Ingress` | `handle_incoming_cqe`: packet, pixels, charge, push | `Cooldown` and `Transport` (both extended), the ring as its producer sees it |
| `Broadcast` | full and diff broadcast, datagram queue, network, a client's view, the sleeping loop | takes what `CanvasPool` hands over |
| `Clock` | `AtomicTime`, its updater and the three timers that read it | drives `Cooldown`, `Transport` and `Master` |
| `Master` | drain of all queues, `set_pixel`, publication | queues as in `BoundedFifo`, timer as in `Clock` |
| `LoadClient` | simulated users, counters, CSV exporter | |
| `Startup` | certificate files over several starts, core partition, load | with `LoadClient`, side by side, in `MCPeriphery` |
| `UserIds` | the user ids of a worker and how many there are | extended by `Cooldown` and `Transport` |
| `SortedSeqs` | a finite set in order; counting in and filtering a sequence | extended by `UringWorker` and `Broadcast` |
| `ModArith` | lemmas on quotient and remainder | used by the `_proofs` modules |
| `X_proofs` | the theorems about module `X` | |
| `Canvas_proofs` | the theorems about `CanvasPool` and `Rle` | |
| `Ingress_proofs` | the theorems about `Transport` and `Ingress` | extends `Cooldown_proofs` |
| `Main_proofs` | the theorems about `Startup`, `Master` and `LoadClient` | |
| `Worker_proofs` | the theorems about `UringWorker` and `Broadcast` | |
| `MCX`, `MCX*.cfg` | the instances TLC checks | `MCTransport` also of `Clock`; `MCCanvas` of `CanvasPool` and `Rle` |

Definitions that two modules of one composition would both call `Init`, `Next`,
`Spec` or `TypeOK` carry the module's name (`TransportInit`, `MasterSpec`,
`UringNext`, ...), so that one module can extend both and cite theorems of both.

### SpscRing
One variable per field, plus the program counter and local value of the call in
progress on each side. `push` is `PushFull` (returns `Err`) or `PushLoad`,
`PushWrite`, `PushPublish`; `pop` is `PopEmpty` or `PopLoad`, `PopRead`,
`PopAdvance`. Memory model: a thread's Acquire load of the other's counter may
return *any* value stored since the value it saw last, so a thread may act on
arbitrarily old counters. The machine word is the constant `WORD`; the counters
wrap in every behaviour of the run. `accepted` and `delivered` are history
variables: the abstract queue's state.

### Cooldown
A `u64` is the set of its one-bits; `id >> 6`, `id & 63` are quotient and
remainder by `BITS_PER_COOLDOWN_CHUNK`. `HandleTick(now_sec)` reads a clock that
may show anything: before (no tick), or any number of seconds later (one tick).
`AdmitPixel` and `RefusePixel` are the two outcomes of the admission test in
`handle_incoming_cqe`. `charged`, the clock at the last admission, is history.

### Transport
The hash map of tuples is a set of live source ids with one function per field.
`HandleIncoming(dcid, ty)` has the five outcomes of `handle_incoming` and
`resolve_connection_id`; `MaintainConnections` is one sweep of
`maintain_connections`, the freed ids being returned in any order (hash map
iteration). External: quiche. Of a connection the model keeps whether it is
handshaking, established or closed; a packet or timeout may move it forward,
never back. The 20 random bytes of a source id are taken to differ from all ids
in use; the client's ids are arbitrary and may repeat ids of earlier
connections. A packet whose header does not parse changes nothing and is not an
action.

### CanvasPool
The content of a snapshot is the number of its publication. A slot consists of
parts, the units that are written and copied separately: at least two of the raw
buffer (so that a copy can be torn), the compressed buffer and the length. The
master writes them in program order and then publishes. A worker's load of
`ACTIVE_INDEX` may be stale as in the ring, and a racy plain read returns any
value written to that part since the publication the worker acquired.
`FinishBroadcast` stands for handing the datagrams to quiche.

### UringWorker
Submissions and completions are short tuples; a set of them stands for a kind
(`Provide`, `HoldsBuf(b)`, `EndsRecv`), to be counted or filtered. External: the kernel. It executes
submissions when the worker enters it, completes sends at any time in any order,
delivers packets into provided buffers, may end the multishot receive with a
packet or an error, and keeps completions past the capacity of the completion
queue until the worker enters again (no completion is lost by the kernel). The
worker's loop is `SubmitAndWait`, `Drain`, `Process*`, `Flush*`. `dropped`
records the completions that `Drain` took off the queue but did not put into
`pending_cqes`. `submit()` is assumed to succeed (the code unwraps it), and a packet
to come with a buffer: the kernel does not produce the completion without one for
which `handle_incoming_cqe` returns early (`worker.rs:367-370`), without re-arming the
receive.

### Rle
One behaviour compresses a canvas and decompresses the result into a buffer of
any length. The avx2 and sse2 branches differ in `LANES`. `phase` says which loop
runs: `next`, `vector` and `scalar` are those of `rle_compress`, `pair` and `write`
those of `rle_decompress`. `ends`, how far the compressor had got after each pair,
is history. What the code should be is stated without a second algorithm: a pair
is the length and colour of the stretch of the canvas between two entries of
`ends` (`PairsAreRuns`), and a stretch ends where the colour changes, or full
(`LongestRuns`).

### Ingress
Extends `Cooldown` and `Transport`, which share the user ids and no variable, so
their actions are used unchanged: `HandlePacket` is `HandleIncoming` plus the
pixels that can then be read from the connection, `PlacePixel` and `DropPixel` are
`AdmitPixel` and `RefusePixel` for the next of them, `Tick` and `Maintain` the rest
of a pass. A packet is finished before the next action of the loop. `queued` is
the ring from the producer's side: a pixel leaves it when the worker sees that it
was popped, at any later time. `joined` and `placed` are history; `ChargesExplained`,
a part of `IngressInv`, ties them to the charges.

### Broadcast
A datagram is a function from some cells to their colours. The compressed canvas
is cut into chunks of `RUNS_PER_CHUNK` runs and the diff into chunks of
`ENTRIES_PER_CHUNK` cells, offered in order to a queue that drops what does not
fit. `PassBroadcast` and `PassNothingNew` are the passes of the loop; they need
`awake`, a completion: of a send, or a packet. External: quiche's queue and
window, the network, the client. The repository's client counts datagrams and
does not decode them, so the model gives the client what the protocol would
need: it knows which cells a chunk is about. `broadcast_ticks` is folded at a
multiple of the interval. As in the code a new snapshot is told by its slot number
(`Noticed`), and the master publishes whatever workers and clients have done with the
last one; `news` and `missed` are history, a publication since the last look and one
that the look could not tell. `narrow` connections take no chunk of the full size.
`WillShow` says what a client shows once it has had a
queue of chunks, cell by cell: the colour in the last chunk about the cell, or what
it shows now. The network may lose or reorder `MAX_FAULTS` times; it may delay at
any time.

### Clock
`elapsed` is real time; `system_ms` runs with it and can be set to anything;
`time_ms` is the copy, refreshed at any time. The timers subtract modulo `WORD`,
as the release build does (the profile does not ask for overflow checks). In a
debug build the subtraction of `maintain_connections` panics when the clock is
set back; the publication timer, which says `wrapping_sub`, does not.

### Master
One action per pixel popped, one for going on to the next queue, and two for the
end of a pass (timer due or not). Workers push for ever. `painted` is history: the
colour last sent to each pair of coordinates.

### LoadClient
Tasks of one thread, so an action runs from one await to the next. `MakeRow` takes
the counters and formats the row, `RowWritten` is the end of the await. A file that
could not be opened takes that await away. `reported` sums the rates of the rows that
were *made*: the code ignores a failed write, and so does the model.

### Startup
A file is absent, broken or the number of its key pair; `fs::write` is two steps.
A start may end anywhere, by a crash or by a failed write, and the next one finds
the files as they are. Cores are numbered by their place in the list that
`core_affinity` returns.

## 3. Runs

| run | checks | instance | shows |
|---|---|---|---|
| `spsc` | `NoSlotRace`, `RingInv`, `ImplementsFifo` | capacity 2, word 4, 2 values, 6 pushes | no slot race, FIFO order, everything delivered, over a wrap of both counters and three rounds of the slots |
| `cooldown` | `WheelInv`, `RateLimit`, `ImplementsTimers` | 4 users in 2 chunks of 2 bits, 3 ticks, clock 0..6 | one countdown per user, two full turns, with leaps and repeats of the clock |
| `transport` | `TransportInv`, `RoutesAreSticky`, `CapacityRecovers`; `ClockInv`, `TimersCatchUp` | 2 user ids, 6 connection ids; intervals of 3 and 1 ms, 2 ms a second, clock 0..8, 5 ms, 2 changes | a full worker, rejected and failed accepts, reused ids, several connections closing in one sweep; timers under a clock set back and forth |
| `canvas` | `PoolInv`, `ActiveIntact`, `TornOnlyIfLapped`; `LoopInv`, `LongestRuns`, `RoundTrip`, `StepsShrink`, `Terminates` | 1 worker, pool of 4, full broadcast every 3, 9 publications; all canvases of up to 9 pixels in 2 colours, buffers of 0 to 9, 2 lanes, counts up to 6 | whole snapshots unless lapped; the master goes round the pool twice; codec correct and its code the shortest at the seams of the two loops, at the counter's limit and at the end of the canvas and of the buffer; a linear number of steps |
| `uring` | `UringInv`, `PassIsBounded`, `TxComesBack` | 3 TX items, 2 buffers, queues of 2 and 4 | ownership with both queues full and the completion queue overflowing |
| `ingress` | `IngressInv`, `LossMeansStall`, `ConnectionRate` | 2 user ids, 2 ticks, clock 0..3, 4 connection ids, queue of 2, 2 pixels a packet | user ids handed on with their cooldown, full queues, several pixels at once |
| `broadcast` | `BroadcastInv`, `ResyncsIfFits`, `PublicationIsBroadcast` | 1 client, 2 cells, full canvas and diff of 1 or 2 chunks, queue of 1, full every 3, pool of 2, 2 changes, 1 fault | diffs start from what clients in step will show, with backlogs, overflow and refused chunks; late joiners, losses and overflow are repaired once the canvas fits; no canvas stays unsent unless the worker is lapped exactly |
| `master` | `MasterInv`, `PassIsBounded`, `AcceptedIsApplied`, `ColourIsPublished` | 2 workers, queues and batches of 2, canvas 2 by 2, 2 of 5 pixels out of range | flood from both workers, three colours for one place, that of the empty canvas among them |
| `periphery` | `FilesLoad`, `CoresShared`, `ClientInv`, `RowsAddUp` | up to 4 cores, `-w` absent or 0 to 9, 3 starts; 3 users, word of 8, 3 pixels, 3 datagrams | starts cut anywhere, more and fewer workers than cores; counters and rows in every order of events |
| `uring_deaf` | `ReceiveResubmitted` (violated) | 3 TX items, 1 buffer, queues of 2 and 4 | see the findings |
| `broadcast_overflow` | `Resyncs` (violated) | as `broadcast` | see the findings |
| `cooldown_stretch` | `CooldownEnds` (violated) | as `cooldown` | see the findings |

Three runs check two modules each that share no state: the connection table and the
clock in `transport`, the codec and the pool in `canvas`, start and load generator in
`periphery`. A behaviour runs one of the two (in `canvas` the pool once the empty
canvas is coded), never an interleaving of them, and the fairness is that of the
modules.

Bounds. `MAX_PUSHES`, `MAX_SEC`, `MAX_PUBLICATIONS` and `MAX_LEN` cut unbounded
counters; they appear in guards (or in `Init`) and nowhere else. Each is large
enough for the modular quantity behind it to wrap: 6 pushes for a word of 4, a
clock of two turns of the wheel, two rounds of the pool, a canvas longer than the
longest run plus a vector. `CANVAS_BUFFER_POOL_SIZE = 4` with one worker is
enough because workers do not interact (they write only their own variables); the
theorems cover any pool and any set of workers. The io_uring instance keeps the
relations between the real sizes (completion queue twice the submission queue,
`pending_cqes` one less), which is what the first finding depends on. In `canvas`, as in
the code, `MAX_COUNT - 1` is not a multiple of `LANES`, so both loops meet
the limit.

In `ingress` the ring has as many slots as the worker has user ids, as in the code
(both 65536); that relation is an assumption of the module, because `LossMeansStall`
depends on it. The clock there goes one second past a whole cooldown. One client is
enough in the `broadcast` runs because connections share nothing but the canvas and
the pass that serves them. There the queue is smaller than some canvases, as in the
code (1000 of up to 1667 chunks), and a canvas may come to fit or not to fit; a diff
of both cells, or a backlog, makes it overflow too. `MAX_WRITES` and `MAX_FAULTS`
must be finite for `Resyncs` and `ResyncsIfFits`, which speak of what happens when
they are used up; publications themselves are not bounded, so the master may go
round a pool of two between any two looks of the worker. In `transport` both changes
of the clock together can go back and forth over several intervals and seconds.
`master` has no bound on pushes: queues are bounded and nothing counts. In
`periphery` three starts are two cut short and one more.

Deadlock is checked except in the io_uring runs and in `periphery`. In the first the
loop waits for a completion, and a worker that has forgotten its receive and has
nothing in flight really waits for ever (the first finding); in the second a start may
panic and users end. Symmetry is used for
connection ids in `ingress` and for users in `periphery`, whose properties are
invariants and, in `ingress`, an action property that treats all ids alike; no
operator chooses among them.

Fairness.
* `SpscRing`: weak fairness of `Pop`. `MasterCore::run` polls every queue in an
  endless loop and a store becomes visible to another core in finite time. A
  `pop` that finds the queue empty is not progress. Nothing is assumed of the
  worker.
* `Transport`: weak fairness of `MaintainConnections`, which every pass of the
  loop calls. This presumes that passes happen, i.e. completions go on arriving,
  and that the clock advances by `CONN_TIMEOUT_THROTTLE_MS`.
* `UringWorker`: weak fairness of the loop as a whole (it has no exit) and of the
  completion of each send (the kernel completes a UDP send). Packets are not
  assumed to arrive.
* `Rle`: compressor and decompressor keep running.
* `Broadcast`: weak fairness of the worker's pass (once awake it runs), of the
  master's publication (`Clock` shows that its timer does not get stuck) and of
  delivery (the network works but for its faults). `ActiveSpec`, which both
  runs use, adds that clients connect and go on sending, as the
  load generator's users do. That the network keeps up is no part of the
  specification: `KeepsUp`, the antecedent of `Resyncs` and `ResyncsIfFits`, asks that
  from some time on the queues are empty when a broadcast adds to them and no look
  of the worker is a whole round of the pool late.
* `Clock`: weak fairness of the updater and of the two loops that poll their
  timers. Real time and changes of the clock are not assumed to happen.
* `Master`: weak fairness of the loop, strong fairness of `Publish`: the end of a
  pass comes again and again, and the timer cannot be not due for ever.

### Findings
**A full completion queue loses its last entry** (`uring_deaf`). The completion
queue has 65536 entries, `run_linux` takes them all but remembers only
`u16::MAX` = 65535 of them. If the last is the end of the multishot receive, the
receive is never submitted again and the worker hears nothing more, where
`const_settings.rs` says that it is resubmitted. If it is a send, its TX item is
never used again; `TxComesBack` says that this is the only way for one to get
lost, and `OwnedOnce` the same of everything that is lent out.

**A full broadcast that overflows never resyncs** (`broadcast_overflow`).
`broadcast_full_canvas` offers the chunks from the beginning, so past the 1000 that
the queue holds the same tail is dropped each time, where `const_settings.rs:236-239`
says that "the next full broadcast will resync". In the counterexample the queue is
empty before every broadcast and nothing is lost or changed any more. What does hold
is `ResyncsIfFits`.

**A cooldown is not 300 seconds** (`cooldown_stretch`). `handle_tick` ticks once per
pass at most, and a quiet worker makes less than one pass a second, where
`const_settings.rs:104-106` equates a tick with a second. A user who comes back after
five minutes may still be on cooldown; on a worker where nobody else is heard it
takes 300 packets, in as many seconds. `RateLimit` and `ImplementsTimers` say what
does hold: never shorter, and exactly so many ticks.

### Limits of what holds
Some properties hold under conditions that the code does not enforce:
* `ResyncsIfFits` needs a canvas that fits into the datagram queue, a network that
  keeps up (`KeepsUp`) and a path that carries chunks of `BROADCAST_CHUNK_SIZE` bytes.
  `dgram_send` refuses a chunk longer than the connection can write and the error is
  ignored; `transport.rs` leaves quiche's limit on the UDP payload at its default, so
  1200 bytes of payload may well be too many. Such connections are `narrow`. It also
  needs a client that knows which cells a chunk is about, which the bytes do not say.
* `PublicationIsBroadcast` needs clients that send. A broadcast takes a completion
  to wake the worker; for clients that only watch there is none. `Spec` in place of
  `ActiveSpec` makes TLC show it. It excepts looks of the worker that come exactly
  one round of the pool, or several, after the one before: slot numbers are all that
  `worker.rs:274` compares, so a worker that is woken every 1.6 seconds might never
  broadcast.
* `FilesLoad` excepts a key file that was created and not filled. Existence is all
  that `create_certificates` asks for, so every later start takes such a file and
  panics in `TransportState::new`.
* `RateLimit` is a lower limit only (see `cooldown_stretch`), and in seconds of the worker's clock: a clock set forward ticks the wheel too.

## 4. Proofs

TLAPS proves the following for every value of the constants that satisfies the
named assumptions (sizes positive; `WORD` a multiple of the capacity and larger;
`MAX_CONNECTIONS_PER_WORKER` a multiple of `BITS_PER_COOLDOWN_CHUNK`; a pool of
at least two slots). The bounds are constants too, so no theorem depends on a
particular bound.

* `SpscRing_proofs`: `RingInvariant`, `NoRace`, `Refinement`. The inductive
  invariant `RingInv` says that the counters are the lengths of the histories
  modulo the word, that the stale counter each side has seen is on the safe side,
  and that every queued value is in its slot. `NoSlotRace` alone is not inductive:
  it needs the distance between the *seen* counters. The slot of a counter is
  the slot of the history's length because the capacity divides the word
  (`ModMod`), and indices less than a capacity apart have different slots
  (`ModApart`). `Refinement` is the safety part of `ImplementsFifo`.
* `Cooldown_proofs`: `WheelInvariant`, `RateLimitHolds`, `TimersRefinement`. First
  `IndexInjective`: chunk and bit identify a user, so `set_cooldown`, `Evict` and
  wiping act on users (`SetThenTest`, `EvictThenTest`, `NewThenTest`). Then
  `TickDistances`: a tick brings every bucket one nearer and sends the reached
  one a full turn away. The invariant: a user on cooldown is in exactly one
  bucket, and clock plus distance of that bucket is no sooner than the charge
  plus a turn.
* `Canvas_proofs`, pool: `PoolInvariant`, `ActiveIsIntact`, `TornIsLapped`. The
  invariant places the last pool-size publications in the slots and ties each
  worker's copy to its slot: a part with another number has the same remainder,
  so it is at least a whole pool later (`RoundSlot`, `SameSlot`).
* `Canvas_proofs`, codec: `LoopInvariant`, `RoundTripHolds`, `LongestRunsHolds`,
  `StepsShrinkHolds`, for every canvas, buffer, number of lanes and longest run.
  Both loops are steps of a state machine, so the induction is over steps and none
  over the data is needed. `LoopInv` is inductive: `ends` ties each pair to its
  stretch of the canvas, the run in progress to the stretch after the last pair,
  and what the decompressor has written to the pairs that it has read. The byte
  `count % 256` is `count` because the two loops together keep it within the
  limit. What the comparison mask yields (`MatchingIs`) is the least lane that
  differs (`LeastExists`). `RoundTrip` is not inductive by itself, and neither is
  `LongestRuns`, which needs that a run is emitted only when the scalar loop has
  refused to go on. `StepsShrink` is the safety half of termination: a number of
  steps left, at first eight for each pixel and two more, that every step lowers.
  An action property says nothing of a turn that changes nothing, such as a vector
  whose first byte differs if it did not end its loop; the lemmas it rests on
  (`CompressShrinks`, `DecompressShrinks`) are about every turn and exclude it.
* `Clock_proofs`: `ClockInvariant`. `ClockInv` is inductive because
  it counts, besides what the timers have spent, the credit that the copy of the
  clock holds, and then the clock itself: a step moves credit from one to the next
  (`CoveredPass`, `CoveredSet`, `CoveredUpdate`, `CoveredFire`). The wrapping
  subtraction is exact below an interval (`DueIsPaid`), since the word is larger
  than any reading plus an interval; that is the assumption on `WORD`. A tick in
  second *a* leaves less than two seconds of credit however far the clock has
  leapt, which is where the two seconds per change of the clock come from.
* `Ingress_proofs`, connection table: `TransportInvariant`, `RoutesSticky`.
  `IdsConserved` and `RoutesAgree` are inductive together with the types; the sweep
  needs that distinct connections have distinct destination ids, which
  `RoutesAgree` gives.
* `Ingress_proofs`, the two together: `IngressImplementsComponents` says that a
  behaviour of `Ingress` is one of `Cooldown` and one of `Transport`, so what is
  proved of each holds in the worker. `IngressInvariant` joins the two invariants
  with the order of the queue (charges ascend, those of one user id a cooldown
  apart) and with `ChargesExplained`: the last charge of a user id in use was
  placed by the connection that has it now or before that connection joined.
  `LossMeansStallHolds` is a pigeonhole: when a pixel is refused by a full queue,
  either its user id is in the queue already, a cooldown ago, or the entries are
  shared by the other ids, of which there are too few (`FullQueue`), so that two
  entries have one id and are a cooldown apart. `ConnectionRateHolds` follows from
  `ChargesExplained` and the rate limit: a connection's last pixel is the last charge
  of its user id, whoever had the id before.
* `Main_proofs`, start-up: `FilesLoadHolds` and `CoresSharedHolds`. `FilesInv` says
  that a key which exists, whole or broken, stands beside a whole certificate of its
  own pair. It needs the order of the two writes: certificate first, key second,
  and neither when both exist. For the cores, worker `i` runs on a core given by a
  remainder, so the workers of a core are a residue class; shifting by the distance
  of two cores maps one class into another, one to one, in one direction whole
  (`FirstClassSmallest`) and in the other but for one worker
  (`FirstClassNotMuchSmaller`).
* `Main_proofs`, master: `MasterInvariant`. The canvas at the index of a place is the
  colour last sent there. What carries it is that `x + y * width` is in bounds for
  coordinates in range and different for different ones (`PlaceInBounds`,
  `PlaceInjective`), so a pixel changes its own place only (`SetPixelPaints`).
  `PassIsBoundedHolds` counts the turns left in a pass, a full batch and one turn
  for each queue still to come: the master's steps lower the number and a push
  leaves it, so how fast workers push does not decide when a snapshot is
  published.
* `Main_proofs`, load generator: `ClientInvariant` and `RowsAddUpHolds`. Adding
  `usize::MAX` is subtracting one because what is subtracted from is the
  cardinality of a set with the user in it (`AddAllOnes`, `OccupantsCount`). The
  inductive invariant adds what the exporter remembers while it awaits the write:
  the counters the row was made from, not those of the moment.
* `Worker_proofs`, event loop: `UringInvariant`. The inductive invariant counts, for
  each TX item, each buffer and the receive, how often it was *asked* for (submitted
  or with the kernel) and how many completions were *seen* (in the queue, pending,
  dropped): with the places on the free list the sum is one. It adds
  that `pending_cqes` is empty outside `process`, because `Drain` overwrites it. The
  counting lemmas (`CountConcat`, `CountSplit`, `FilteredProperties`) say that a
  step which cuts, joins or filters queues moves entries and makes none;
  `PushEffect` does so for a push that meets a full submission queue any number of
  times. `Filtered` rests on a sorting of a finite set, which exists because the
  number of elements up to *x* numbers them without a gap (`SortingExists`).
  `PassIsBoundedHolds` counts the steps left in a pass: two for each completion
  remembered (one to handle it, one for the TX item it may free) and one for each
  free TX item. The kernel's steps leave the number alone, because the loop works
  on its copy of the completions and not on the queue.
* `Worker_proofs`, broadcast: `BroadcastInvariant`. Every cell is in some chunk of a
  full broadcast, every changed cell in one of a diff, and each chunk has the new
  colours (`ChunksCover`, `FullCovers`, `DiffCovers`). A client that would show the
  old base, or anything at all before a full broadcast, then shows the new one
  (`ShowMore`); taking the first datagram off the wire changes nothing about what
  will be shown (`ShowFirst`), and a flush moves datagrams from queue to wire
  without reordering them (`FlushEffect`).

Only model-checked: liveness (`CapacityRecovers`, `TxComesBack`, `Terminates`,
`ResyncsIfFits`, `PublicationIsBroadcast`, `TimersCatchUp`, `AcceptedIsApplied`,
`ColourIsPublished` and the delivery part of `ImplementsFifo`), since the prover
does not handle fairness. For `Terminates`, `AcceptedIsApplied` and
`PublicationIsBroadcast` the part that does not depend on fairness, a bound on the
steps that can come before, is proved (`StepsShrink` and the two `PassIsBounded`).

## 5. Not modelled

* framing of received messages: fixed byte offsets into a buffer that the kernel
  has written, no state;
* TLS set-up of the load generator, the settings handed to quiche, socket options:
  library configuration;
* the derivation of one size from another in `const_settings.rs`: evaluated by the
  compiler; the sizes are constants of the modules, the relations their assumptions;
* the memory budget, logging, host scripts, plots and deployment: output, or
  outside the program;
* panics of a debug build on arithmetic overflow (`worker.rs:485`);
* closing of idle connections: quiche's timers are external, a connection may close
  at any timeout or never;
* an overload that never ends, in which connections at the end of the map wait for
  TX items behind those at its beginning (`worker.rs:432`).

## 6. Plan

All invariants and action properties of the passing runs are proved. What could
come next:

1. the `Master`'s queues as instances of the proved ring, in place of the abstract
   FIFO, and the pool between `Master` and `Broadcast`;
2. a fair order of the connections in `flush_outgoing` (`worker.rs:432`), should the
   code get one: a property for the hazard that has none.
