-------------------------- MODULE SpscRing_proofs --------------------------
(***************************************************************************)
(* SpscRing implements BoundedFifo for every capacity, every word size     *)
(* that the capacity divides, and every set of values.                     *)
(***************************************************************************)
EXTENDS SpscRing, ModArith

(* The constants as the lemmas on remainders need them. *)
LEMMA Moduli ==
  /\ SPSC_CAPACITY \in Nat \ {0}
  /\ WORD \in Nat \ {0}
  /\ SPSC_CAPACITY < WORD
  /\ WORD % SPSC_CAPACITY = 0
BY CapacityAssumption, WordAssumption

(* The slot of a wrapped counter is the slot of the count itself. *)
LEMMA SlotOfCounter ==
  ASSUME NEW n \in Nat
  PROVE  IndexOf(n % WORD) = IndexOf(n) /\ IndexOf(n) \in Slot
<1>1. n \in Int
  OBVIOUS
<1>2. (n % WORD) % SPSC_CAPACITY = n % SPSC_CAPACITY
  BY <1>1, Moduli, ModMod, Zenon
<1>3. n % SPSC_CAPACITY \in 0 .. SPSC_CAPACITY - 1
  BY <1>1, Moduli, ModRange, Zenon
<1>4. QED
  BY <1>2, <1>3 DEF IndexOf, Slot

(* Two counts less than a capacity apart have different slots. *)
LEMMA SlotsDiffer ==
  ASSUME NEW m \in Nat, NEW n \in Nat,
         m < n, n - m < SPSC_CAPACITY
  PROVE  IndexOf(m) # IndexOf(n)
<1>1. m \in Int /\ n \in Int /\ m <= n /\ m # n
  OBVIOUS
<1>2. m % SPSC_CAPACITY # n % SPSC_CAPACITY
  BY <1>1, Moduli, ModApart, Zenon
<1>3. QED
  BY <1>2 DEF IndexOf

(* A counter advances as its count does, and stays a machine word. *)
LEMMA CounterAdvances ==
  ASSUME NEW n \in Nat
  PROVE  WrappingAdd(n % WORD) = (n + 1) % WORD /\ n % WORD \in Word
<1>1. n \in Int
  OBVIOUS
<1>2. ((n % WORD) + 1) % WORD = (n + 1) % WORD
  BY <1>1, Moduli, ModSucc, Zenon
<1>3. n % WORD \in 0 .. WORD - 1
  BY <1>1, Moduli, ModRange, Zenon
<1>4. QED
  BY <1>2, <1>3 DEF WrappingAdd, Word

(* The test of push compares the number of values in the ring. *)
LEMMA FullTest ==
  ASSUME NEW m \in Nat, NEW n \in Nat, n <= m, m - n <= SPSC_CAPACITY
  PROVE  IsFull(m % WORD, n % WORD) <=> m - n >= SPSC_CAPACITY
<1>1. m \in Int /\ n \in Int /\ m - n < WORD
  BY Moduli
<1>2. ((m % WORD) - (n % WORD)) % WORD = m - n
  BY <1>1, Moduli, ModDistance, Zenon
<1>3. QED
  BY <1>2 DEF WrappingSub, IsFull

(* The test of pop says whether there is a value to read. *)
LEMMA EmptyTest ==
  ASSUME NEW m \in Nat, NEW n \in Nat, m <= n, n - m <= SPSC_CAPACITY
  PROVE  IsEmpty(m % WORD, n % WORD) <=> m = n
<1>1. m \in Int /\ n \in Int /\ n - m < WORD
  BY Moduli
<1>2. m % WORD = n % WORD => m = n
  BY <1>1, Moduli, ModApart, Zenon
<1>3. QED
  BY <1>2 DEF IsEmpty

-----------------------------------------------------------------------------
LEMMA InitInv == Init => RingInv
<1> SUFFICES ASSUME Init PROVE RingInv
  OBVIOUS
<1> USE CapacityAssumption, WordAssumption DEF Init
<1>1. TypeOK
  BY DEF TypeOK, Slot, Word
<1>2. CountersAgree
  BY ModSmall DEF CountersAgree
<1>3. QueuedIntact
  BY DEF QueuedIntact
<1>4. QED
  BY <1>1, <1>2, <1>3 DEF RingInv

(* The steps of push keep the invariant. *)
LEMMA PushInv == RingInv /\ Push => RingInv'
<1> SUFFICES ASSUME RingInv, Push PROVE RingInv'
  OBVIOUS
<1> USE CapacityAssumption, WordAssumption, ValueAssumption
<1> USE DEF RingInv, TypeOK, CountersAgree
<1>1. Len(accepted) \in Nat /\ Len(delivered) \in Nat
  OBVIOUS
<1>2. CASE PushFull
  <2>1. PICK n \in seenHead .. Len(delivered) : seenHead' = n
    BY <1>2 DEF PushFull
  <2>2. TypeOK' /\ CountersAgree'
    BY <1>1, <1>2, <2>1 DEF PushFull, masterVars
  <2>3. QueuedIntact'
    BY <1>2 DEF PushFull, masterVars, QueuedIntact
  <2>4. QED
    BY <2>2, <2>3
<1>3. ASSUME NEW v \in Value, PushLoad(v) PROVE RingInv'
  <2>1. PICK n \in seenHead .. Len(delivered) :
           ~ IsFull(tail, n % WORD) /\ seenHead' = n
    BY <1>3 DEF PushLoad
  <2>2. Len(accepted) - n < SPSC_CAPACITY
    <3>1. n \in Nat /\ n <= Len(accepted) /\ Len(accepted) - n <= SPSC_CAPACITY
      BY <1>1, <2>1
    <3>2. QED
      BY <1>1, <2>1, <3>1, FullTest
  <2>3. QED
    BY <1>1, <1>3, <2>1, <2>2 DEF PushLoad, masterVars, QueuedIntact
<1>4. CASE PushWrite
  <2> USE <1>4 DEF PushWrite, masterVars
  <2>1. IndexOf(tail) = IndexOf(Len(accepted)) /\ IndexOf(tail) \in Slot
    BY <1>1, SlotOfCounter
  <2>2. TypeOK' /\ CountersAgree'
    BY <1>1, <2>1
  <2>3. ASSUME NEW n \in Len(delivered) .. Len(accepted) - 1
        PROVE  buffer'[IndexOf(n)] = accepted[n + 1]
    <3>1. IndexOf(n) # IndexOf(tail) /\ IndexOf(n) \in Slot
      <4>1. n \in Nat /\ n < Len(accepted) /\ Len(accepted) - n < SPSC_CAPACITY
        BY <1>1
      <4>2. QED
        BY <1>1, <2>1, <4>1, SlotsDiffer, SlotOfCounter
    <3>2. QED
      BY <1>1, <3>1 DEF QueuedIntact
  <2>4. QueuedIntact'
    BY <1>1, <2>1, <2>3 DEF QueuedIntact
  <2>5. QED
    BY <2>2, <2>4
<1>5. CASE PushPublish
  <2> USE <1>5 DEF PushPublish, masterVars
  <2>1. pushVal \in Value
    BY DEF QueuedIntact
  <2>2. /\ accepted' \in Seq(Value)
        /\ Len(accepted') = Len(accepted) + 1
        /\ accepted'[Len(accepted) + 1] = pushVal
        /\ \A i \in 1 .. Len(accepted) : accepted'[i] = accepted[i]
    BY <2>1
  <2>3. tail' = Len(accepted') % WORD /\ tail' \in Word
    BY <1>1, <2>2, CounterAdvances
  <2>4. TypeOK' /\ CountersAgree'
    BY <1>1, <2>2, <2>3
  <2>5. ASSUME NEW n \in Len(delivered) .. Len(accepted') - 1
        PROVE  buffer[IndexOf(n)] = accepted'[n + 1]
    <3>1. CASE n = Len(accepted)
      BY <1>1, <2>2, <3>1 DEF QueuedIntact
    <3>2. CASE n # Len(accepted)
      <4>1. n \in Len(delivered) .. Len(accepted) - 1 /\ n + 1 \in 1 .. Len(accepted)
        BY <1>1, <2>2, <3>2
      <4>2. QED
        BY <2>2, <4>1 DEF QueuedIntact
    <3>3. QED
      BY <3>1, <3>2
  <2>6. popPc = "advance" => popVal = accepted'[Len(delivered) + 1]
    BY <1>1, <2>2 DEF QueuedIntact
  <2>7. QueuedIntact'
    BY <2>5, <2>6 DEF QueuedIntact
  <2>8. QED
    BY <2>4, <2>7
<1>6. QED
  BY <1>2, <1>3, <1>4, <1>5 DEF Push

(* The steps of pop keep the invariant. *)
LEMMA PopInv == RingInv /\ (PopEmpty \/ Pop) => RingInv'
<1> SUFFICES ASSUME RingInv, PopEmpty \/ Pop PROVE RingInv'
  OBVIOUS
<1> USE CapacityAssumption, WordAssumption, ValueAssumption
<1> USE DEF RingInv, TypeOK, CountersAgree
<1>1. Len(accepted) \in Nat /\ Len(delivered) \in Nat
  OBVIOUS
<1>2. CASE PopEmpty
  BY <1>1, <1>2 DEF PopEmpty, workerVars, QueuedIntact
<1>3. CASE PopLoad
  <2>1. PICK n \in seenTail .. Len(accepted) :
           ~ IsEmpty(head, n % WORD) /\ seenTail' = n
    BY <1>3 DEF PopLoad
  <2>2. Len(delivered) < n
    <3>1. /\ n \in Nat /\ Len(delivered) <= n
          /\ n - Len(delivered) <= SPSC_CAPACITY
      BY <1>1, <2>1
    <3>2. QED
      BY <1>1, <2>1, <3>1, EmptyTest
  <2>3. QED
    BY <1>1, <1>3, <2>1, <2>2 DEF PopLoad, workerVars, QueuedIntact
<1>4. CASE PopRead
  <2> USE <1>4 DEF PopRead, workerVars
  <2>1. IndexOf(head) = IndexOf(Len(delivered)) /\ IndexOf(head) \in Slot
    BY <1>1, SlotOfCounter
  <2>2. buffer[IndexOf(head)] = accepted[Len(delivered) + 1]
    BY <1>1, <2>1 DEF QueuedIntact
  <2>3. QED
    BY <1>1, <2>1, <2>2 DEF QueuedIntact
<1>5. CASE PopAdvance
  <2> USE <1>5 DEF PopAdvance, workerVars
  <2>1. popVal \in Value
    BY <1>1 DEF QueuedIntact
  <2>2. delivered' \in Seq(Value) /\ Len(delivered') = Len(delivered) + 1
    BY <2>1
  <2>3. head' = Len(delivered') % WORD /\ head' \in Word
    BY <1>1, <2>2, CounterAdvances
  <2>4. TypeOK' /\ CountersAgree'
    BY <1>1, <2>2, <2>3
  <2>5. QueuedIntact'
    BY <1>1, <2>2 DEF QueuedIntact
  <2>6. QED
    BY <2>4, <2>5
<1>6. QED
  BY <1>2, <1>3, <1>4, <1>5 DEF Pop

(* The ring keeps its invariant: types, counters that agree with the        *)
(* histories across wrap-around, and every queued value in its slot.        *)
THEOREM RingInvariant == SafeSpec => []RingInv
<1>1. RingInv /\ UNCHANGED vars => RingInv'
  BY DEF RingInv, TypeOK, CountersAgree, QueuedIntact, vars
<1>2. RingInv /\ [Next]_vars => RingInv'
  BY <1>1, PushInv, PopInv DEF Next
<1>3. QED
  BY <1>2, InitInv, PTL DEF SafeSpec

(* push never writes the slot that pop is reading: the unsafe accesses at   *)
(* spsc.rs:47 and spsc.rs:64 are free of data races.                        *)
THEOREM NoRace == SafeSpec => []NoSlotRace
<1>1. RingInv => NoSlotRace
  <2> SUFFICES ASSUME RingInv, pushPc = "write", popPc = "read"
               PROVE  IndexOf(tail) # IndexOf(head)
    BY DEF NoSlotRace
  <2> USE DEF RingInv, TypeOK, CountersAgree
  <2>1. Len(accepted) \in Nat /\ Len(delivered) \in Nat
    OBVIOUS
  <2>2. Len(delivered) < Len(accepted) /\ Len(accepted) - Len(delivered) < SPSC_CAPACITY
    BY <2>1, CapacityAssumption
  <2>3. IndexOf(Len(delivered)) # IndexOf(Len(accepted))
    BY <2>1, <2>2, SlotsDiffer
  <2>4. QED
    BY <2>1, <2>3, SlotOfCounter
<1>2. QED
  BY <1>1, RingInvariant, PTL

(* The ring implements the bounded FIFO queue (safety). *)
THEOREM Refinement == SafeSpec => ImplementsFifoSafely
<1>1. Init => Fifo!Init
  BY DEF Init, Fifo!Init
<1>2. RingInv /\ [Next]_vars => [Fifo!Next]_(Fifo!vars)
  <2> SUFFICES ASSUME RingInv, [Next]_vars PROVE [Fifo!Next]_(Fifo!vars)
    OBVIOUS
  <2> USE DEF Fifo!vars
  <2>1. CASE PushFull
    BY <2>1 DEF PushFull, masterVars
  <2>2. ASSUME NEW v \in Value, PushLoad(v) PROVE UNCHANGED Fifo!vars
    BY <2>2 DEF PushLoad, masterVars
  <2>3. CASE PushWrite
    BY <2>3 DEF PushWrite, masterVars
  <2>4. CASE PushPublish
    <3>1. pushVal \in Value /\ Len(accepted) - Len(delivered) < SPSC_CAPACITY
      BY <2>4, CapacityAssumption
         DEF PushPublish, RingInv, TypeOK, CountersAgree, QueuedIntact
    <3>2. Fifo!Accept(pushVal)
      BY <2>4, <3>1 DEF PushPublish, masterVars, Fifo!Accept
    <3>3. QED
      BY <3>1, <3>2 DEF Fifo!Next
  <2>5. CASE PopEmpty
    BY <2>5 DEF PopEmpty, workerVars
  <2>6. CASE PopLoad
    BY <2>6 DEF PopLoad, workerVars
  <2>7. CASE PopRead
    BY <2>7 DEF PopRead, workerVars
  <2>8. CASE PopAdvance
    <3>1. popVal = accepted[Len(delivered) + 1] /\ Len(delivered) < Len(accepted)
      BY <2>8 DEF PopAdvance, RingInv, TypeOK, CountersAgree, QueuedIntact
    <3>2. Fifo!Deliver
      BY <2>8, <3>1 DEF PopAdvance, workerVars, Fifo!Deliver
    <3>3. QED
      BY <3>2 DEF Fifo!Next
  <2>9. CASE UNCHANGED vars
    BY <2>9 DEF vars
  <2>10. QED
    BY <2>1, <2>2, <2>3, <2>4, <2>5, <2>6, <2>7, <2>8, <2>9 DEF Next, Push, Pop
<1>3. QED
  BY <1>1, <1>2, RingInvariant, PTL DEF SafeSpec, ImplementsFifoSafely, Fifo!SafeSpec
=============================================================================
