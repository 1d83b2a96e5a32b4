------------------------------ MODULE SpscRing ------------------------------
(***************************************************************************)
(* SpscRingBuffer (server/src/spsc.rs): the lock-free single-producer,     *)
(* single-consumer ring that carries PixelWrites from one worker to the    *)
(* master.  push and pop run concurrently; each is split at its accesses   *)
(* to shared memory.                                                       *)
(*                                                                         *)
(* Memory model.  Each thread reads its own counter exactly.  The Acquire  *)
(* load of the other thread's counter may return any value stored since    *)
(* the value that this thread last saw (coherence), not only the newest;   *)
(* the Release store it reads makes the slot accesses before that store    *)
(* visible.  The n-th store to a counter wrote n % WORD, so the value      *)
(* loaded is named by n.                                                   *)
(***************************************************************************)
EXTENDS Integers, Sequences

CONSTANTS
  SPSC_CAPACITY,   \* slots, a power of two in the code
  WORD,            \* the modulus of usize: 2^64 in the code
  Value,           \* the PixelWrites that can be pushed
  Uninit,          \* content of a slot never written (MaybeUninit)
  MAX_PUSHES       \* bound on accepted pushes

ASSUME CapacityAssumption == SPSC_CAPACITY \in Nat \ {0}
ASSUME WordAssumption ==
  WORD \in Nat /\ WORD > SPSC_CAPACITY /\ WORD % SPSC_CAPACITY = 0
ASSUME ValueAssumption == Uninit \notin Value
ASSUME BoundAssumption == MAX_PUSHES \in Nat

VARIABLES
  tail,        \* written by the worker only
  head,        \* written by the master only
  buffer,      \* the slots
  pushPc,      \* where the call of push in progress is
  pushVal,     \* its argument
  popPc,       \* where the call of pop in progress is
  popVal,      \* what it has read
  seenHead,    \* stores to head that the worker has seen
  seenTail,    \* stores to tail that the master has seen
  accepted,    \* history: values for which push returned Ok
  delivered    \* history: values pop returned

workerVars == <<tail, pushPc, pushVal, seenHead, accepted>>
masterVars == <<head, popPc, popVal, seenTail, delivered>>
vars == <<tail, head, buffer, pushPc, pushVal, popPc, popVal,
          seenHead, seenTail, accepted, delivered>>

Slot == 0 .. SPSC_CAPACITY - 1
Word == 0 .. WORD - 1

-----------------------------------------------------------------------------
(* Wrapping arithmetic, and the mask: & (SPSC_CAPACITY - 1) is the          *)
(* remainder because the capacity is a power of two.                        *)
WrappingAdd_NoWrap(n) == n + 1
WrappingAdd(n) == (n + 1) % WORD
WrappingSub(m, n) == (m - n) % WORD
IndexOf(n) == n % SPSC_CAPACITY

IsFull_OffByOne(t, h) == WrappingSub(t, h) > SPSC_CAPACITY
IsFull(t, h) == WrappingSub(t, h) >= SPSC_CAPACITY

IsEmpty_OffByOne(h, t) == h = t \/ WrappingAdd(h) = t
IsEmpty(h, t) == h = t

Init ==
  /\ tail = 0
  /\ head = 0
  /\ buffer = [s \in Slot |-> Uninit]
  /\ pushPc = "idle"
  /\ pushVal = Uninit
  /\ popPc = "idle"
  /\ popVal = Uninit
  /\ seenHead = 0
  /\ seenTail = 0
  /\ accepted = << >>
  /\ delivered = << >>

-----------------------------------------------------------------------------
(* push, called by the worker.                                              *)

(* The load of head finds the ring full: Err(value). *)
PushFull ==
  /\ pushPc = "idle"
  /\ \E n \in seenHead .. Len(delivered) :
       /\ IsFull(tail, n % WORD)
       /\ seenHead' = n
  /\ UNCHANGED <<tail, pushPc, pushVal, accepted, buffer, masterVars>>

(* The load of head finds room. *)
PushLoad(v) ==
  /\ pushPc = "idle"
  /\ Len(accepted) < MAX_PUSHES
  /\ \E n \in seenHead .. Len(delivered) :
       /\ ~ IsFull(tail, n % WORD)
       /\ seenHead' = n
  /\ pushPc' = "write"
  /\ pushVal' = v
  /\ UNCHANGED <<tail, accepted, buffer, masterVars>>

(* The slot is written (not atomic). *)
PushWrite ==
  /\ pushPc = "write"
  /\ buffer' = [buffer EXCEPT ![IndexOf(tail)] = pushVal]
  /\ pushPc' = "publish"
  /\ UNCHANGED <<tail, pushVal, seenHead, accepted, masterVars>>

(* tail is stored with Release: Ok(()). *)
PushPublish ==
  /\ pushPc = "publish"
  /\ tail' = WrappingAdd(tail)
  /\ accepted' = Append(accepted, pushVal)
  /\ pushPc' = "idle"
  /\ UNCHANGED <<pushVal, seenHead, buffer, masterVars>>

-----------------------------------------------------------------------------
(* pop, called by the master.                                               *)

(* The load of tail finds the ring empty: None. *)
PopEmpty ==
  /\ popPc = "idle"
  /\ \E n \in seenTail .. Len(accepted) :
       /\ IsEmpty(head, n % WORD)
       /\ seenTail' = n
  /\ UNCHANGED <<head, popPc, popVal, delivered, buffer, workerVars>>

(* The load of tail finds a value. *)
PopLoad ==
  /\ popPc = "idle"
  /\ \E n \in seenTail .. Len(accepted) :
       /\ ~ IsEmpty(head, n % WORD)
       /\ seenTail' = n
  /\ popPc' = "read"
  /\ UNCHANGED <<head, popVal, delivered, buffer, workerVars>>

(* The slot is read (not atomic). *)
PopRead ==
  /\ popPc = "read"
  /\ popPc' = "advance"
  /\ popVal' = buffer[IndexOf(head)]
  /\ UNCHANGED <<head, seenTail, delivered, buffer, workerVars>>

(* head is stored with Release: Some(value). *)
PopAdvance ==
  /\ popPc = "advance"
  /\ head' = WrappingAdd(head)
  /\ delivered' = Append(delivered, popVal)
  /\ popPc' = "idle"
  /\ UNCHANGED <<popVal, seenTail, buffer, workerVars>>

-----------------------------------------------------------------------------
Push == PushFull \/ (\E v \in Value : PushLoad(v)) \/ PushWrite \/ PushPublish
Pop  == PopLoad \/ PopRead \/ PopAdvance
Next == Push \/ PopEmpty \/ Pop

SafeSpec == Init /\ [][Next]_vars

(* The master polls the ring for ever (MasterCore::run has no exit) and a   *)
(* store to tail becomes visible to it in finite time, so it cannot go on   *)
(* finding the ring empty while a value is in it.  The worker owes nothing. *)
Spec == SafeSpec /\ WF_vars(Pop)

-----------------------------------------------------------------------------
(* Every variable has its type: in particular both counters stay in a       *)
(* machine word and every slot index in the buffer.                         *)
TypeOK ==
  /\ tail \in Word
  /\ head \in Word
  /\ buffer \in [Slot -> Value \cup {Uninit}]
  /\ pushPc \in {"idle", "write", "publish"}
  /\ pushVal \in Value \cup {Uninit}
  /\ popPc \in {"idle", "read", "advance"}
  /\ popVal \in Value \cup {Uninit}
  /\ seenHead \in Nat
  /\ seenTail \in Nat
  /\ accepted \in Seq(Value)
  /\ delivered \in Seq(Value)

(* The plain accesses to the slots (spsc.rs:47 and spsc.rs:64) never meet:  *)
(* when push is about to write a slot and pop about to read one, the slots  *)
(* differ.  This is what makes the two unsafe blocks free of data races.    *)
NoSlotRace ==
  pushPc = "write" /\ popPc = "read" => IndexOf(tail) # IndexOf(head)

(* The counters agree with the histories across wrap-around, and the        *)
(* distance between them is the number of values queued.                    *)
CountersAgree ==
  /\ tail = Len(accepted) % WORD
  /\ head = Len(delivered) % WORD
  /\ seenHead <= Len(delivered)
  /\ Len(delivered) <= seenTail
  /\ seenTail <= Len(accepted)
  /\ Len(accepted) - seenHead <= SPSC_CAPACITY
  /\ pushPc # "idle" => Len(accepted) - seenHead < SPSC_CAPACITY
  /\ popPc # "idle" => Len(delivered) < seenTail

(* Every accepted value that pop has not returned is still in its slot, and *)
(* so are the values in the hands of a push or a pop in progress.           *)
QueuedIntact ==
  /\ \A n \in Len(delivered) .. Len(accepted) - 1 :
       buffer[IndexOf(n)] = accepted[n + 1]
  /\ pushPc # "idle" => pushVal \in Value
  /\ pushPc = "publish" => buffer[IndexOf(Len(accepted))] = pushVal
  /\ popPc = "advance" => popVal = accepted[Len(delivered) + 1]

(* The inductive invariant behind the refinement. *)
RingInv == TypeOK /\ CountersAgree /\ QueuedIntact

(* push and pop implement a bounded FIFO queue: nothing accepted is lost,   *)
(* duplicated, reordered or read before it is written, at most              *)
(* SPSC_CAPACITY values are queued, and each is delivered in the end.       *)
Fifo == INSTANCE BoundedFifo WITH Capacity <- SPSC_CAPACITY
ImplementsFifo == Fifo!Spec
ImplementsFifoSafely == Fifo!SafeSpec
=============================================================================
