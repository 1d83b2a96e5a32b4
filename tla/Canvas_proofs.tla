---------------------------- MODULE Canvas_proofs ----------------------------
(***************************************************************************)
(* The canvas on its way to the clients.  The pool: a broadcast is torn,   *)
(* or a publication passed over, only if the master has gone round the     *)
(* pool, for every number of workers, pool size and way of splitting a     *)
(* snapshot into parts.  The codec: what is compressed decompresses to the *)
(* canvas, for every canvas, buffer, number of lanes and longest run.      *)
(***************************************************************************)
EXTENDS CanvasPool, Rle, ModArith, NaturalsInduction, WellFoundedInduction,
        SequenceTheorems, TLAPS

(* Remainders by the size of the pool are slots. *)
LEMMA SlotOfIsSlot == \A n \in Int : SlotOf(n) \in Slot
<1> SUFFICES ASSUME NEW n \in Int PROVE SlotOf(n) \in Slot
  OBVIOUS
<1>1. CANVAS_BUFFER_POOL_SIZE \in Nat \ {0}
  BY PoolAssumption
<1>2. QED
  BY <1>1, ModRange, Zenon DEF SlotOf, Slot

(* Publications in the same slot are equal or a whole pool apart. *)
LEMMA SameSlot ==
  ASSUME NEW a \in Int, NEW b \in Int, SlotOf(a) = SlotOf(b), a <= b
  PROVE  a = b \/ b >= a + CANVAS_BUFFER_POOL_SIZE
<1> DEFINE n == CANVAS_BUFFER_POOL_SIZE
<1>1. n \in Nat \ {0} /\ a % n = b % n
  BY PoolAssumption DEF SlotOf
<1> HIDE DEF n
<1>2. b - a < n => a = b
  BY <1>1, ModApart, Zenon
<1>3. QED
  BY <1>1, <1>2 DEF n

(* The slot after that of a publication is the slot of the next one. *)
LEMMA NextSlot ==
  ASSUME NEW a \in Int
  PROVE  NextActive(SlotOf(a)) = SlotOf(a + 1)
<1>1. CANVAS_BUFFER_POOL_SIZE \in Nat \ {0}
  BY PoolAssumption
<1>2. QED
  BY <1>1, ModSucc, Zenon DEF NextActive, SlotOf

(* Going round the pool leads to the same slot. *)
LEMMA RoundSlot ==
  ASSUME NEW s \in Slot
  PROVE  SlotOf(s) = s /\ SlotOf(s - CANVAS_BUFFER_POOL_SIZE) = s
<1> DEFINE n == CANVAS_BUFFER_POOL_SIZE
<1>1. n \in Nat \ {0} /\ s \in 0 .. n - 1 /\ -1 \in Int
  BY PoolAssumption DEF Slot
<1> HIDE DEF n
<1>2. s % n = s
  BY <1>1, ModSmall, Zenon
<1>3. (n * (-1) + s) % n = s
  BY <1>1, ModIs, Zenon
<1>4. n * (-1) + s = s - n
  BY <1>1
<1>5. QED
  BY <1>2, <1>3, <1>4 DEF SlotOf, n

(* Initially the zeroed slots count as the publications before the first. *)
LEMMA InitPoolInv == Init => PoolInv
<1> SUFFICES ASSUME Init PROVE PoolInv
  OBVIOUS
<1> USE PoolAssumption DEF Init
<1>1. 0 \in Slot
  BY DEF Slot
<1>2. TypeOK
  BY <1>1 DEF TypeOK, Slot
<1>3. SlotOf(0) = 0
  BY <1>1, RoundSlot
<1>4. PoolHoldsLatest
  <2> SUFFICES ASSUME NEW s \in Slot, NEW p \in Part
               PROVE  /\ SlotOf(pool[s][p]) = s
                      /\ pool[s][p] > published - CANVAS_BUFFER_POOL_SIZE
                      /\ pool[s][p] <= published + 1
                      /\ pool[s][p] # published + 1
    BY <1>3 DEF PoolHoldsLatest
  <2>1. pool[s][p] = IF s = 0 THEN 0 ELSE s - CANVAS_BUFFER_POOL_SIZE
    OBVIOUS
  <2>2. SlotOf(pool[s][p]) = s
    BY <1>3, <2>1, RoundSlot
  <2>3. QED
    BY <2>1, <2>2 DEF Slot
<1>5. CopiesFollow
  <2> SUFFICES ASSUME NEW w \in Worker
               PROVE  /\ want[w] <= seen[w] /\ seen[w] <= published
                      /\ last_broadcast_index[w] = SlotOf(want[w])
                      /\ copied[w] = {}
    BY DEF CopiesFollow
  <2>1. want[w] = 0 /\ seen[w] = 0 /\ last_broadcast_index[w] = 0
    OBVIOUS
  <2>2. QED
    BY <1>3, <2>1
<1>6. SkipOnlyIfLapped
  BY DEF SkipOnlyIfLapped
<1>7. QED
  BY <1>2, <1>4, <1>5, <1>6 DEF PoolInv

-----------------------------------------------------------------------------
(* The master's steps.                                                      *)

(* Writing a part of the next slot. *)
LEMMA FillPreserves ==
  ASSUME PoolInv, NEW q \in Part, FillPart(q)
  PROVE  PoolInv'
<1> DEFINE t == NextActive(ACTIVE_INDEX)
<1>1. TypeOK /\ PoolHoldsLatest /\ CopiesFollow /\ SkipOnlyIfLapped
  BY DEF PoolInv
<1>2. t \in Slot /\ t = SlotOf(published + 1)
  BY <1>1, NextSlot, SlotOfIsSlot DEF PoolHoldsLatest, TypeOK
<1>3. /\ pool' = [pool EXCEPT ![t][q] = published + 1]
      /\ filled' = filled \cup {q}
      /\ ACTIVE_INDEX' = ACTIVE_INDEX /\ published' = published
      /\ UNCHANGED workerVars
  BY DEF FillPart
<1> HIDE DEF t
<1>4. TypeOK'
  BY <1>1, <1>2, <1>3 DEF TypeOK, workerVars
<1>5. \A s \in Slot, p \in Part :
        pool'[s][p] = IF s = t /\ p = q THEN published + 1 ELSE pool[s][p]
  BY <1>1, <1>2, <1>3 DEF TypeOK
<1>6. PoolHoldsLatest'
  <2>1. ACTIVE_INDEX' = SlotOf(published') /\ t = NextActive(ACTIVE_INDEX')
    BY <1>1, <1>3 DEF PoolHoldsLatest, t
  <2> SUFFICES ASSUME NEW s \in Slot, NEW p \in Part
               PROVE  /\ SlotOf(pool'[s][p]) = s
                      /\ pool'[s][p] > published' - CANVAS_BUFFER_POOL_SIZE
                      /\ pool'[s][p] <= published' + 1
                      /\ pool'[s][p] = published' + 1 <=> s = t /\ p \in filled'
    BY <2>1 DEF PoolHoldsLatest
  <2>2. /\ SlotOf(pool[s][p]) = s
        /\ pool[s][p] > published - CANVAS_BUFFER_POOL_SIZE
        /\ pool[s][p] <= published + 1
        /\ pool[s][p] = published + 1 <=> s = t /\ p \in filled
    BY <1>1 DEF PoolHoldsLatest, t
  <2>3. published \in Nat
    BY <1>1 DEF TypeOK
  <2>4. CASE s = t /\ p = q
    BY <1>2, <1>3, <1>5, <2>3, <2>4, PoolAssumption
  <2>5. CASE ~ (s = t /\ p = q)
    BY <1>3, <1>5, <2>2, <2>5
  <2>6. QED
    BY <2>4, <2>5
<1>7. CopiesFollow' /\ SkipOnlyIfLapped'
  BY <1>1, <1>3 DEF CopiesFollow, SkipOnlyIfLapped, workerVars
<1>8. QED
  BY <1>4, <1>6, <1>7 DEF PoolInv

(* Publishing the next slot. *)
LEMMA PublishPreserves ==
  ASSUME PoolInv, Publish
  PROVE  PoolInv'
<1>1. TypeOK /\ PoolHoldsLatest /\ CopiesFollow /\ SkipOnlyIfLapped
  BY DEF PoolInv
<1>2. /\ filled = Part /\ filled' = {}
      /\ ACTIVE_INDEX' = NextActive(ACTIVE_INDEX)
      /\ published' = published + 1 /\ published \in Nat
      /\ pool' = pool
      /\ UNCHANGED workerVars
  BY <1>1 DEF Publish, SnapshotDone, TypeOK
<1>3. ACTIVE_INDEX' = SlotOf(published') /\ ACTIVE_INDEX' \in Slot
  BY <1>1, <1>2, NextSlot, SlotOfIsSlot DEF PoolHoldsLatest
<1>4. TypeOK'
  BY <1>1, <1>2, <1>3 DEF TypeOK, workerVars
<1>5. PoolHoldsLatest'
  <2> SUFFICES ASSUME NEW s \in Slot, NEW p \in Part
               PROVE  /\ SlotOf(pool[s][p]) = s
                      /\ pool[s][p] > published + 1 - CANVAS_BUFFER_POOL_SIZE
                      /\ pool[s][p] <= published + 1
    <3>1. published' - CANVAS_BUFFER_POOL_SIZE = published + 1 - CANVAS_BUFFER_POOL_SIZE
          /\ published' + 1 = published + 2
      BY <1>2, PoolAssumption
    <3>2. \A s \in Slot, p \in Part : pool[s][p] \in Int
      BY <1>1 DEF TypeOK
    <3>3. \A s \in Slot, p \in Part :
            pool[s][p] <= published + 1 => pool[s][p] <= published + 2 /\ pool[s][p] # published + 2
      BY <1>2, <3>2
    <3>4. QED
      BY <1>2, <1>3, <3>1, <3>3 DEF PoolHoldsLatest
  <2>1. /\ SlotOf(pool[s][p]) = s
        /\ pool[s][p] > published - CANVAS_BUFFER_POOL_SIZE
        /\ pool[s][p] <= published + 1
        /\ pool[s][p] = published + 1 <=> s = ACTIVE_INDEX'
        /\ pool[s][p] \in Int
    BY <1>1, <1>2 DEF PoolHoldsLatest, TypeOK
  <2>2. pool[s][p] # published + 1 - CANVAS_BUFFER_POOL_SIZE
    <3> SUFFICES ASSUME pool[s][p] = published + 1 - CANVAS_BUFFER_POOL_SIZE
                 PROVE  FALSE
      OBVIOUS
    <3> DEFINE n == CANVAS_BUFFER_POOL_SIZE
               a == pool[s][p]
    <3>1. n \in Nat \ {0} /\ a \in Int /\ published + 1 = a + n
      BY <1>2, <2>1, PoolAssumption
    <3>2. (a + n) % n = a % n
      <4> HIDE DEF a, n
      <4>1. a \div n \in Int /\ a = n * (a \div n) + (a % n) /\ a % n \in 0 .. n - 1
        BY <3>1, DivMod, ModRange, Zenon
      <4>2. (a \div n) + 1 \in Int /\ a + n = n * ((a \div n) + 1) + (a % n)
        BY <3>1, <4>1
      <4>3. QED
        BY <3>1, <4>1, <4>2, ModIs
    <3>3. SlotOf(published + 1) = SlotOf(a)
      BY <3>1, <3>2 DEF SlotOf
    <3>4. s = ACTIVE_INDEX'
      BY <1>2, <1>3, <2>1, <3>3
    <3>5. QED
      BY <1>2, <2>1, <3>1, <3>4
  <2>3. QED
    BY <1>2, <2>1, <2>2, PoolAssumption
<1>6. CopiesFollow' /\ SkipOnlyIfLapped'
  BY <1>1, <1>2 DEF CopiesFollow, SkipOnlyIfLapped, workerVars, TypeOK
<1>7. QED
  BY <1>4, <1>5, <1>6 DEF PoolInv

-----------------------------------------------------------------------------
(* A worker's steps.                                                        *)

(* The worker starts. *)
LEMMA StartPreserves ==
  ASSUME PoolInv, NEW v \in Worker, StartWorker(v)
  PROVE  PoolInv'
<1>1. TypeOK /\ PoolHoldsLatest /\ CopiesFollow /\ SkipOnlyIfLapped
  BY DEF PoolInv
<1>2. PICK n \in seen[v] .. published :
        /\ seen' = [seen EXCEPT ![v] = n]
        /\ want' = [want EXCEPT ![v] = n]
        /\ last_broadcast_index' = [last_broadcast_index EXCEPT ![v] = SlotOf(n)]
  BY DEF StartWorker
<1>3. /\ pc' = [pc EXCEPT ![v] = "idle"]
      /\ UNCHANGED <<broadcast_ticks, copied, copy>> /\ UNCHANGED masterVars
  BY DEF StartWorker
<1>4. n \in Nat /\ n <= published /\ SlotOf(n) \in Slot
  BY <1>1, SlotOfIsSlot DEF TypeOK
<1>5. TypeOK'
  BY <1>1, <1>2, <1>3, <1>4 DEF TypeOK, masterVars
<1>6. PoolHoldsLatest'
  BY <1>1, <1>3 DEF PoolHoldsLatest, masterVars
<1>7. pc[v] = "start" /\ copied[v] = {}
  BY <1>1 DEF CopiesFollow, StartWorker
<1>8. CopiesFollow' /\ SkipOnlyIfLapped'
  <2> SUFFICES ASSUME NEW w \in Worker
               PROVE  /\ want'[w] <= seen'[w] /\ seen'[w] <= published
                      /\ last_broadcast_index'[w] = SlotOf(want'[w])
                      /\ pc'[w] = "start" => copied[w] = {}
                      /\ \A p \in copied[w] :
                           /\ SlotOf(copy[w][p]) = SlotOf(want'[w])
                           /\ want'[w] <= copy[w][p] /\ copy[w][p] <= published + 1
                      /\ pc'[w] # "start" =>
                           \/ seen'[w] = want'[w]
                           \/ /\ seen'[w] >= want'[w] + CANVAS_BUFFER_POOL_SIZE
                              /\ SlotOf(seen'[w]) = SlotOf(want'[w])
    BY <1>3 DEF CopiesFollow, SkipOnlyIfLapped, masterVars
  <2>1. CASE w = v
    <3>1. seen'[w] = n /\ want'[w] = n /\ last_broadcast_index'[w] = SlotOf(n)
      BY <1>1, <1>2, <2>1 DEF TypeOK
    <3>2. QED
      BY <1>4, <1>7, <2>1, <3>1
  <2>2. CASE w # v
    <3>1. /\ seen'[w] = seen[w] /\ want'[w] = want[w] /\ pc'[w] = pc[w]
          /\ last_broadcast_index'[w] = last_broadcast_index[w]
      BY <1>1, <1>2, <1>3, <2>2 DEF TypeOK
    <3>2. QED
      BY <1>1, <3>1 DEF CopiesFollow, SkipOnlyIfLapped
  <2>3. QED
    BY <2>1, <2>2
<1>9. QED
  BY <1>5, <1>6, <1>8 DEF PoolInv

(* The worker finds the slot it has broadcast. *)
LEMMA SkipPreserves ==
  ASSUME PoolInv, NEW v \in Worker, SkipBroadcast(v)
  PROVE  PoolInv'
<1>1. TypeOK /\ PoolHoldsLatest /\ CopiesFollow /\ SkipOnlyIfLapped
  BY DEF PoolInv
<1>2. PICK n \in seen[v] .. published :
        /\ SlotOf(n) = last_broadcast_index[v]
        /\ seen' = [seen EXCEPT ![v] = n]
  BY DEF SkipBroadcast, IsNew
<1>3. UNCHANGED <<pc, last_broadcast_index, broadcast_ticks, copied, copy, want>>
      /\ UNCHANGED masterVars
  BY DEF SkipBroadcast
<1>4. n \in Nat /\ n <= published /\ seen[v] <= n /\ seen[v] \in Nat /\ want[v] \in Nat
  BY <1>1 DEF TypeOK
<1>5. TypeOK'
  BY <1>1, <1>2, <1>3, <1>4 DEF TypeOK, masterVars
<1>6. PoolHoldsLatest'
  BY <1>1, <1>3 DEF PoolHoldsLatest, masterVars
<1>7. want[v] <= n /\ SlotOf(n) = SlotOf(want[v])
  BY <1>1, <1>2, <1>4 DEF CopiesFollow
<1>8. n = want[v] \/ n >= want[v] + CANVAS_BUFFER_POOL_SIZE
  BY <1>4, <1>7, SameSlot
<1>9. \A w \in Worker : seen'[w] = IF w = v THEN n ELSE seen[w]
  BY <1>1, <1>2 DEF TypeOK
<1>10. CopiesFollow'
  BY <1>1, <1>3, <1>4, <1>7, <1>9 DEF CopiesFollow, masterVars
<1>11. SkipOnlyIfLapped'
  BY <1>1, <1>3, <1>7, <1>8, <1>9 DEF SkipOnlyIfLapped
<1>12. QED
  BY <1>5, <1>6, <1>10, <1>11 DEF PoolInv

(* The worker finds a new slot. *)
LEMMA BeginPreserves ==
  ASSUME PoolInv, NEW v \in Worker, BeginBroadcast(v)
  PROVE  PoolInv'
<1>1. TypeOK /\ PoolHoldsLatest /\ CopiesFollow /\ SkipOnlyIfLapped
  BY DEF PoolInv
<1>2. PICK n \in seen[v] .. published :
        /\ seen' = [seen EXCEPT ![v] = n]
        /\ want' = [want EXCEPT ![v] = n]
        /\ last_broadcast_index' = [last_broadcast_index EXCEPT ![v] = SlotOf(n)]
  BY DEF BeginBroadcast
<1>3. /\ copied' = [copied EXCEPT ![v] = {}]
      /\ copy' = copy /\ UNCHANGED masterVars
      /\ broadcast_ticks' = [broadcast_ticks EXCEPT ![v] = @ + 1]
      /\ \E kind \in {"full", "diff"} : pc' = [pc EXCEPT ![v] = kind]
  BY DEF BeginBroadcast
<1>4. n \in Nat /\ n <= published /\ SlotOf(n) \in Slot
  BY <1>1, SlotOfIsSlot DEF TypeOK
<1>5. TypeOK'
  BY <1>1, <1>2, <1>3, <1>4 DEF TypeOK, masterVars
<1>6. PoolHoldsLatest'
  BY <1>1, <1>3 DEF PoolHoldsLatest, masterVars
<1>7. CopiesFollow' /\ SkipOnlyIfLapped'
  <2> SUFFICES ASSUME NEW w \in Worker
               PROVE  /\ want'[w] <= seen'[w] /\ seen'[w] <= published
                      /\ last_broadcast_index'[w] = SlotOf(want'[w])
                      /\ pc'[w] = "start" => copied'[w] = {}
                      /\ \A p \in copied'[w] :
                           /\ SlotOf(copy[w][p]) = SlotOf(want'[w])
                           /\ want'[w] <= copy[w][p] /\ copy[w][p] <= published + 1
                      /\ pc'[w] # "start" =>
                           \/ seen'[w] = want'[w]
                           \/ /\ seen'[w] >= want'[w] + CANVAS_BUFFER_POOL_SIZE
                              /\ SlotOf(seen'[w]) = SlotOf(want'[w])
    BY <1>3 DEF CopiesFollow, SkipOnlyIfLapped, masterVars
  <2>1. CASE w = v
    <3>1. /\ seen'[w] = n /\ want'[w] = n /\ last_broadcast_index'[w] = SlotOf(n)
          /\ copied'[w] = {}
      BY <1>1, <1>2, <1>3, <2>1 DEF TypeOK
    <3>2. QED
      BY <1>4, <3>1
  <2>2. CASE w # v
    <3>1. /\ seen'[w] = seen[w] /\ want'[w] = want[w] /\ pc'[w] = pc[w]
          /\ last_broadcast_index'[w] = last_broadcast_index[w]
          /\ copied'[w] = copied[w]
      BY <1>1, <1>2, <1>3, <2>2 DEF TypeOK
    <3>2. QED
      BY <1>1, <3>1 DEF CopiesFollow, SkipOnlyIfLapped
  <2>3. QED
    BY <2>1, <2>2
<1>8. QED
  BY <1>5, <1>6, <1>7 DEF PoolInv

(* The worker reads a part of its slot. *)
LEMMA CopyPreserves ==
  ASSUME PoolInv, NEW v \in Worker, NEW q \in Part, CopyPart(v, q)
  PROVE  PoolInv'
<1> DEFINE s == last_broadcast_index[v]
<1>1. TypeOK /\ PoolHoldsLatest /\ CopiesFollow /\ SkipOnlyIfLapped
  BY DEF PoolInv
<1>2. PICK n \in want[v] .. pool[s][q] :
        SlotOf(n) = s /\ copy' = [copy EXCEPT ![v][q] = n]
  BY DEF CopyPart, SlotToCopy
<1>3. /\ copied' = [copied EXCEPT ![v] = @ \cup {q}]
      /\ UNCHANGED <<pc, last_broadcast_index, broadcast_ticks, seen, want>>
      /\ UNCHANGED masterVars
      /\ pc[v] # "start"
  BY DEF CopyPart, SlotToCopy
<1>4. s \in Slot /\ s = SlotOf(want[v])
  BY <1>1 DEF TypeOK, CopiesFollow
<1>5. n \in Int /\ want[v] <= n /\ n <= published + 1
  BY <1>1, <1>4 DEF TypeOK, PoolHoldsLatest
<1>6. TypeOK'
  BY <1>1, <1>2, <1>3, <1>5 DEF TypeOK, masterVars
<1>7. PoolHoldsLatest'
  BY <1>1, <1>3 DEF PoolHoldsLatest, masterVars
<1>8. CopiesFollow'
  <2>1. \A w \in Worker, p \in Part :
          copy'[w][p] = IF w = v /\ p = q THEN n ELSE copy[w][p]
    BY <1>1, <1>2 DEF TypeOK
  <2>2. \A w \in Worker : copied'[w] = IF w = v THEN copied[w] \cup {q} ELSE copied[w]
    BY <1>1, <1>3 DEF TypeOK
  <2>3. \A w \in Worker : copied[w] \subseteq Part
    BY <1>1 DEF TypeOK
  <2> HIDE DEF s
  <2>4. QED
    BY <1>1, <1>2, <1>3, <1>4, <1>5, <2>1, <2>2, <2>3 DEF CopiesFollow, masterVars
<1>9. SkipOnlyIfLapped'
  BY <1>1, <1>3 DEF SkipOnlyIfLapped
<1>10. QED
  BY <1>6, <1>7, <1>8, <1>9 DEF PoolInv

(* The worker has sent what it copied. *)
LEMMA FinishPreserves ==
  ASSUME PoolInv, NEW v \in Worker, FinishBroadcast(v)
  PROVE  PoolInv'
<1>1. TypeOK /\ PoolHoldsLatest /\ CopiesFollow /\ SkipOnlyIfLapped
  BY DEF PoolInv
<1>2. /\ pc' = [pc EXCEPT ![v] = "idle"] /\ pc[v] # "start"
      /\ UNCHANGED <<last_broadcast_index, broadcast_ticks, copied, copy, seen, want>>
      /\ UNCHANGED masterVars
  BY DEF FinishBroadcast
<1>3. \A w \in Worker : pc'[w] = "start" <=> pc[w] = "start"
  BY <1>1, <1>2 DEF TypeOK
<1>4. TypeOK'
  BY <1>1, <1>2 DEF TypeOK, masterVars
<1>5. PoolHoldsLatest' /\ CopiesFollow' /\ SkipOnlyIfLapped'
  BY <1>1, <1>2, <1>3 DEF PoolHoldsLatest, CopiesFollow, SkipOnlyIfLapped, masterVars
<1>6. QED
  BY <1>4, <1>5 DEF PoolInv

(* Every step preserves the invariant. *)
LEMMA PoolStep == PoolInv /\ [Next]_vars => PoolInv'
<1> SUFFICES ASSUME PoolInv, [Next]_vars PROVE PoolInv'
  OBVIOUS
<1>1. CASE UNCHANGED vars
  BY <1>1 DEF vars, PoolInv, TypeOK, PoolHoldsLatest, CopiesFollow, SkipOnlyIfLapped
<1>2. CASE \E p \in Part : FillPart(p)
  BY <1>2, FillPreserves
<1>3. CASE Publish
  BY <1>3, PublishPreserves
<1>4. CASE \E w \in Worker : \/ StartWorker(w)
                             \/ SkipBroadcast(w)
                             \/ BeginBroadcast(w)
                             \/ \E p \in Part : CopyPart(w, p)
                             \/ FinishBroadcast(w)
  BY <1>4, StartPreserves, SkipPreserves, BeginPreserves, CopyPreserves, FinishPreserves
<1>5. QED
  BY <1>1, <1>2, <1>3, <1>4 DEF Next

(* For every number of workers, pool size of at least two and split into    *)
(* parts: the slots hold the latest publications, and a worker passes over  *)
(* a publication only when the master has gone round the pool.              *)
THEOREM PoolInvariant == Spec => []PoolInv
<1>1. QED
  BY InitPoolInv, PoolStep, PTL DEF Spec

(* The snapshot behind ACTIVE_INDEX is complete: the master never writes to *)
(* the slot that it has published last.                                     *)
THEOREM ActiveIsIntact == Spec => []ActiveIntact
<1>1. ASSUME PoolInv PROVE ActiveIntact
  <2> SUFFICES ASSUME NEW p \in Part PROVE pool[ACTIVE_INDEX][p] = published
    BY DEF ActiveIntact
  <2> DEFINE a == ACTIVE_INDEX
             n == pool[a][p]
  <2>1. TypeOK /\ PoolHoldsLatest
    BY <1>1 DEF PoolInv
  <2>2. a \in Slot /\ a = SlotOf(published) /\ published \in Nat
    BY <2>1 DEF TypeOK, PoolHoldsLatest
  <2>3. n \in Int
    BY <2>1, <2>2 DEF TypeOK
  <2>4. SlotOf(n) = a /\ n > published - CANVAS_BUFFER_POOL_SIZE /\ n <= published + 1
    BY <2>1, <2>2 DEF PoolHoldsLatest
  <2> HIDE DEF a, n
  <2>5. CASE n <= published
    <3>1. n = published \/ published >= n + CANVAS_BUFFER_POOL_SIZE
      BY <2>2, <2>3, <2>4, <2>5, SameSlot
    <3>2. QED
      BY <2>2, <2>3, <2>4, <3>1, PoolAssumption DEF a, n
  <2>6. CASE n = published + 1
    <3>1. published = n \/ n >= published + CANVAS_BUFFER_POOL_SIZE
      BY <2>2, <2>3, <2>4, <2>6, SameSlot
    <3>2. QED
      BY <2>2, <2>3, <2>6, <3>1, PoolAssumption
  <2>7. QED
    BY <2>2, <2>3, <2>4, <2>5, <2>6
<1>2. QED
  BY <1>1, PoolInvariant, PTL

(* A worker that copies a slot within CANVAS_BUFFER_POOL_SIZE - 1           *)
(* publications broadcasts one snapshot, unmixed, and its diff base is the  *)
(* canvas that it compressed.                                               *)
THEOREM TornIsLapped == Spec => []TornOnlyIfLapped
<1>1. ASSUME PoolInv PROVE TornOnlyIfLapped
  <2> SUFFICES ASSUME NEW w \in Worker, NEW p \in copied[w], copy[w][p] # want[w]
               PROVE  published >= want[w] + CANVAS_BUFFER_POOL_SIZE - 1
    BY DEF TornOnlyIfLapped
  <2> DEFINE a == want[w]
             b == copy[w][p]
  <2>1. a \in Int /\ b \in Int /\ published \in Int
    BY <1>1 DEF PoolInv, TypeOK
  <2>2. SlotOf(a) = SlotOf(b) /\ a <= b /\ b <= published + 1
    BY <1>1 DEF PoolInv, CopiesFollow
  <2> HIDE DEF a, b
  <2>3. a = b \/ b >= a + CANVAS_BUFFER_POOL_SIZE
    BY <2>1, <2>2, SameSlot
  <2>4. QED
    BY <2>1, <2>2, <2>3, PoolAssumption DEF a, b
<1>2. QED
  BY <1>1, PoolInvariant, PTL
-----------------------------------------------------------------------------
(* The codec: the vector that is compared.                                  *)

(* A set of numbers has a least one. *)
LEMMA LeastExists ==
  ASSUME NEW S \in SUBSET Nat, S # {}
  PROVE  \E m \in S : \A x \in S : m <= x
<1>1. PICK m \in S : \A x \in S : <<x, m>> \notin OpToRel(<, Nat)
  BY NatLessThanWellFounded, WFMin
<1>2. \A x \in S : ~ (x < m)
  BY <1>1 DEF OpToRel
<1>3. QED
  BY <1>2

(* The trailing ones of the mask: all lanes up to there have the colour,    *)
(* and the next one, if there is one, has not.                              *)
LEMMA MatchingIs ==
  ASSUME RleTypeOK
  PROVE  /\ Matching \in 0 .. LANES
         /\ \A i \in 1 .. Matching : src[src_idx + i] = color
         /\ Matching < LANES => src[src_idx + Matching + 1] # color
<1>1. LANES \in Nat \ {0} /\ src_idx \in Nat
  BY RleAssumption DEF RleTypeOK
<1> DEFINE D == {k \in Nat : k < LANES /\ src[src_idx + k + 1] # color}
           Fits(k) == /\ \A i \in 1 .. k : src[src_idx + i] = color
                      /\ k < LANES => src[src_idx + k + 1] # color
<1>2. \E k \in 0 .. LANES : Fits(k)
  <2>1. CASE D = {}
    <3>1. ASSUME NEW i \in 1 .. LANES PROVE src[src_idx + i] = color
      <4>1. i - 1 \in Nat /\ i - 1 < LANES /\ src_idx + (i - 1) + 1 = src_idx + i
        BY <1>1
      <4>2. i - 1 \notin D
        BY <2>1
      <4>3. QED
        BY <4>1, <4>2
    <3>2. Fits(LANES)
      BY <1>1, <3>1
    <3>3. QED
      BY <1>1, <3>2
  <2>2. CASE D # {}
    <3>1. D \in SUBSET Nat
      OBVIOUS
    <3>2. PICK m \in D : \A x \in D : m <= x
      BY <2>2, <3>1, LeastExists
    <3>3. m \in Nat /\ m < LANES /\ src[src_idx + m + 1] # color
      BY <3>2
    <3>4. ASSUME NEW i \in 1 .. m PROVE src[src_idx + i] = color
      <4>1. i - 1 \in Nat /\ i - 1 < m /\ i - 1 < LANES /\ src_idx + (i - 1) + 1 = src_idx + i
        BY <1>1, <3>3
      <4>2. i - 1 \notin D
        BY <3>2, <3>3, <4>1
      <4>3. QED
        BY <4>1, <4>2
    <3>5. QED
      BY <1>1, <3>3, <3>4
  <2>3. QED
    BY <2>1, <2>2
<1>3. Matching = CHOOSE k \in 0 .. LANES : Fits(k)
  BY DEF Matching
<1> HIDE DEF D, Fits
<1>4. Matching \in 0 .. LANES /\ Fits(Matching)
  BY <1>2, <1>3
<1>5. QED
  BY <1>4 DEF Fits

-----------------------------------------------------------------------------
(* The codec: the loops.                                                    *)

(* What is known of the types, in the form the steps need. *)
LEMMA CodecTypes ==
  ASSUME RleTypeOK
  PROVE  /\ Len(src) \in Nat /\ Len(dst) \in Nat /\ Len(out) \in Nat /\ Len(ends) \in Nat
         /\ src_idx \in Nat /\ count \in Nat /\ room \in Nat /\ read_idx \in Nat
         /\ \A i \in 1 .. Len(src) : src[i] \in Color
         /\ \A k \in 1 .. Len(ends) : ends[k] \in Nat
         /\ UpTo(Len(ends)) \in Nat
<1>1. /\ Len(src) \in Nat /\ Len(dst) \in Nat /\ Len(out) \in Nat /\ Len(ends) \in Nat
      /\ \A i \in 1 .. Len(src) : src[i] \in Color
      /\ \A k \in 1 .. Len(ends) : ends[k] \in Nat
  BY LenProperties, ElementOfSeq DEF RleTypeOK
<1>2. QED
  BY <1>1 DEF RleTypeOK, UpTo

(* The pairs stay what they are while neither buffer changes. *)
LEMMA PairsKept ==
  ASSUME PairsAreRuns, UNCHANGED <<src, dst, ends>>
  PROVE  PairsAreRuns'
BY DEF PairsAreRuns, UpTo

(* Nothing is decompressed while the compressor runs. *)
LEMMA NotYetDecoded ==
  ASSUME LoopInv, phase \in {"next", "vector", "scalar"},
         UNCHANGED <<src, read_idx, out, room>>,
         phase' \in {"next", "vector", "scalar", "pair"}
  PROVE  DecodedSoFar'
<1>1. /\ read_idx = 0 /\ room \in Nat /\ Len(out) = 0 /\ Decoded = 0
  <2>1. read_idx = 0 /\ read_idx \div 2 = 0 /\ room \in Nat
    BY DEF LoopInv, RleTypeOK, DecodedSoFar
  <2>2. Decoded = 0
    BY <2>1 DEF Decoded, UpTo
  <2>3. QED
    BY <2>1, <2>2 DEF LoopInv, DecodedSoFar
<1>2. Decoded' = 0
  <2>1. read_idx' \div 2 = 0 /\ phase' # "write"
    BY <1>1
  <2>2. QED
    BY <2>1 DEF Decoded, UpTo
<1>3. read_idx' = 0 /\ read_idx' % 2 = 0 /\ phase' # "write" /\ phase' # "done"
  BY <1>1
<1>4. Len(out') = 0 /\ room' \in Nat
  BY <1>1
<1>5. QED
  BY <1>2, <1>3, <1>4 DEF DecodedSoFar

LEMMA InitLoop == RleInit => LoopInv
<1> SUFFICES ASSUME RleInit PROVE LoopInv
  OBVIOUS
<1>1. LANES \in Nat \ {0} /\ MAX_COUNT \in Nat \ {0} /\ MAX_LEN \in Nat /\ Color # {}
  BY RleAssumption
<1>2. PICK n \in 0 .. MAX_LEN : src \in [1 .. n -> Color]
  BY DEF RleInit
<1>3. src \in Seq(Color) /\ Len(src) = n
  BY <1>1, <1>2
<1>4. dst = << >> /\ out = << >> /\ ends = << >> /\ Len(<< >>) = 0
  BY DEF RleInit
<1>5. color \in Color
  BY <1>1 DEF RleInit
<1>6. RleTypeOK
  <2>1. << >> \in Seq(Color) /\ << >> \in Seq(Nat) /\ << >> \in Seq(Color \cup 0 .. MAX_COUNT)
    OBVIOUS
  <2>2. {src_idx, count, room, read_idx} \subseteq Nat /\ phase = "next"
    BY <1>1 DEF RleInit
  <2>3. QED
    BY <1>3, <1>4, <1>5, <2>1, <2>2 DEF RleTypeOK
<1>7. InBounds
  BY <1>1, <1>3, <1>4 DEF RleInit, InBounds, InRun
<1>8. PairsAreRuns
  BY <1>4 DEF PairsAreRuns
<1>9. PairsCover
  BY <1>4 DEF PairsCover, UpTo, InRun, RleInit
<1>10. DecodedSoFar
  <2>1. read_idx = 0 /\ read_idx % 2 = 0 /\ read_idx \div 2 = 0 /\ phase = "next" /\ room \in Nat
    BY <1>1 DEF RleInit
  <2>2. Decoded = 0
    BY <2>1 DEF Decoded, UpTo
  <2>3. QED
    BY <1>4, <2>1, <2>2 DEF DecodedSoFar
<1>11. QED
  BY <1>6, <1>7, <1>8, <1>9, <1>10 DEF LoopInv

(* A run begins. *)
LEMMA NextRunKeeps ==
  ASSUME LoopInv, NextRun
  PROVE  LoopInv'
<1>1. RleTypeOK /\ InBounds /\ PairsAreRuns /\ PairsCover /\ DecodedSoFar
  BY DEF LoopInv
<1> DEFINE n == Len(src)
           covered == UpTo(Len(ends))
<1>2. /\ n \in Nat /\ src_idx \in Nat /\ Len(dst) \in Nat /\ Len(ends) \in Nat
      /\ covered \in Nat /\ Len(out) \in Nat
      /\ \A i \in 1 .. n : src[i] \in Color
  BY <1>1, CodecTypes
<1>3. /\ phase = "next" /\ src_idx < n
      /\ color' = src[src_idx + 1] /\ count' = 1 /\ src_idx' = src_idx + 1 /\ phase' = "vector"
      /\ UNCHANGED <<src, dst, room, read_idx, out, ends>>
  BY DEF NextRun, AfterFirst
<1>4. src_idx = covered
  BY <1>1, <1>3 DEF PairsCover, InRun
<1>5. RleTypeOK'
  <2>1. color' \in Color
    BY <1>2, <1>3
  <2>2. QED
    BY <1>1, <1>2, <1>3, <2>1 DEF RleTypeOK
<1>6. Len(ends) <= src_idx /\ Len(dst) = 2 * Len(ends)
  BY <1>1, <1>2, <1>4 DEF PairsAreRuns, UpTo
<1>7. InBounds'
  <2>1. Len(dst) + 2 <= 2 * n /\ src_idx + 1 <= n
    BY <1>2, <1>3, <1>6
  <2>2. QED
    BY <1>1, <1>3, <2>1 DEF InBounds, InRun
<1>8. PairsCover'
  <2>1. UpTo(Len(ends))' = covered
    BY <1>3 DEF UpTo
  <2>2. 1 \in 1 .. MAX_COUNT
    BY RleAssumption
  <2>3. \A i \in covered + 1 .. covered + 1 : src[i] = src[src_idx + 1]
    BY <1>2, <1>4
  <2>4. QED
    BY <1>2, <1>3, <1>4, <2>1, <2>2, <2>3 DEF PairsCover, InRun
<1>9. PairsAreRuns'
  BY <1>1, <1>3, PairsKept
<1>10. DecodedSoFar'
  BY <1>3, NotYetDecoded
<1>11. QED
  BY <1>5, <1>7, <1>8, <1>9, <1>10 DEF LoopInv

(* A loop takes m more bytes of the run, or none. *)
LEMMA RunGoesOn ==
  ASSUME LoopInv, InRun, InRun', NEW m \in Nat,
         src_idx + m <= Len(src), count + m <= MAX_COUNT,
         \A i \in 1 .. m : src[src_idx + i] = color,
         src_idx' = src_idx + m, count' = count + m,
         UNCHANGED <<src, dst, color, room, read_idx, out, ends>>
  PROVE  LoopInv'
<1>1. RleTypeOK /\ InBounds /\ PairsAreRuns /\ PairsCover /\ DecodedSoFar
  BY DEF LoopInv
<1> DEFINE covered == UpTo(Len(ends))
<1>2. /\ Len(src) \in Nat /\ src_idx \in Nat /\ count \in Nat /\ covered \in Nat
      /\ MAX_COUNT \in Nat \ {0}
  BY <1>1, CodecTypes, RleAssumption
<1>3. /\ count \in 1 .. MAX_COUNT /\ src_idx = covered + count
      /\ \A i \in covered + 1 .. src_idx : src[i] = color
  BY <1>1 DEF PairsCover
<1>4. RleTypeOK'
  BY <1>1, <1>2 DEF RleTypeOK, InRun
<1>5. InBounds'
  BY <1>1 DEF InBounds
<1>6. PairsAreRuns'
  BY <1>1, PairsKept
<1>7. PairsCover'
  <2>1. UpTo(Len(ends))' = covered
    BY DEF UpTo
  <2> HIDE DEF covered
  <2>2. ASSUME NEW i \in covered + 1 .. src_idx + m PROVE src[i] = color
    <3>1. CASE i <= src_idx
      BY <1>2, <1>3, <3>1
    <3>2. CASE i > src_idx
      <4>1. i - src_idx \in 1 .. m /\ src_idx + (i - src_idx) = i
        BY <1>2, <3>2
      <4>2. QED
        BY <4>1
    <3>3. QED
      BY <1>2, <3>1, <3>2
  <2>3. count + m \in 1 .. MAX_COUNT /\ src_idx + m = covered + (count + m)
    BY <1>2, <1>3
  <2>4. \A i \in covered + 1 .. src_idx' : src'[i] = color'
    BY <2>2
  <2>5. phase' \notin {"pair", "write", "done"}
    BY DEF InRun
  <2>6. QED
    BY <2>1, <2>3, <2>4, <2>5 DEF PairsCover
<1>8. DecodedSoFar'
  BY NotYetDecoded DEF InRun
<1>9. QED
  BY <1>4, <1>5, <1>6, <1>7, <1>8 DEF LoopInv

LEMMA VectorKeeps ==
  ASSUME LoopInv, VectorStep \/ VectorDone \/ ScalarStep
  PROVE  LoopInv'
<1>1. RleTypeOK
  BY DEF LoopInv
<1>2. Len(src) \in Nat /\ src_idx \in Nat /\ count \in Nat /\ LANES \in Nat \ {0}
      /\ MAX_COUNT \in Nat \ {0}
  BY <1>1, CodecTypes, RleAssumption
<1>3. CASE VectorStep
  <2>1. PICK m \in 0 .. LANES : m = Matching
    BY <1>1, MatchingIs
  <2>2. /\ phase = "vector" /\ count' = count + m /\ src_idx' = src_idx + m
        /\ phase' \in {"vector", "scalar"} /\ VectorFits
        /\ UNCHANGED <<src, dst, color, room, read_idx, out, ends>>
    BY <1>3, <2>1 DEF VectorStep, AfterVector
  <2>3. \A i \in 1 .. m : src[src_idx + i] = color
    BY <1>1, <2>1, MatchingIs
  <2>4. m \in Nat /\ src_idx + m <= Len(src) /\ count + m <= MAX_COUNT
    BY <1>2, <2>1, <2>2 DEF VectorFits
  <2>5. InRun /\ InRun'
    BY <2>2 DEF InRun
  <2>6. QED
    BY <2>2, <2>3, <2>4, <2>5, RunGoesOn
<1>4. CASE VectorDone
  <2>1. /\ InRun /\ InRun' /\ src_idx' = src_idx + 0 /\ count' = count + 0
        /\ UNCHANGED <<src, dst, color, room, read_idx, out, ends>>
    BY <1>2, <1>4 DEF VectorDone, InRun, codeVars
  <2>2. src_idx + 0 <= Len(src) /\ count + 0 <= MAX_COUNT
    BY <1>2, <2>1 DEF LoopInv, InBounds, PairsCover
  <2>3. QED
    BY <2>1, <2>2, RunGoesOn
<1>5. CASE ScalarStep
  <2>1. /\ InRun /\ InRun' /\ src_idx' = src_idx + 1 /\ count' = count + 1
        /\ UNCHANGED <<src, dst, color, room, read_idx, out, ends>> /\ ScalarGoes
    BY <1>5 DEF ScalarStep, InRun
  <2>2. /\ src_idx + 1 <= Len(src) /\ count + 1 <= MAX_COUNT
        /\ \A i \in 1 .. 1 : src[src_idx + i] = color
    BY <1>2, <2>1 DEF ScalarGoes
  <2>3. QED
    BY <2>1, <2>2, RunGoesOn
<1>6. QED
  BY <1>3, <1>4, <1>5

(* Emit adds the count, which fits a byte, and the colour. *)
LEMMA EmittedPair ==
  ASSUME LoopInv, Emit
  PROVE  /\ dst' \in Seq(Color \cup 0 .. MAX_COUNT) /\ Len(dst') = Len(dst) + 2
         /\ \A i \in 1 .. Len(dst) : dst'[i] = dst[i]
         /\ dst'[Len(dst) + 1] = count /\ dst'[Len(dst) + 2] = color
<1>1. RleTypeOK /\ PairsCover
  BY DEF LoopInv
<1> DEFINE B == Color \cup 0 .. MAX_COUNT
           pair == <<count, color>>
<1>2. Len(dst) \in Nat /\ count \in Nat /\ MAX_COUNT \in Nat \ {0}
  BY <1>1, CodecTypes, RleAssumption
<1>3. phase = "scalar" /\ dst' = dst \o <<count % (MAX_COUNT + 1), color>>
  BY DEF Emit
<1>4. count \in 1 .. MAX_COUNT
  BY <1>1, <1>3 DEF PairsCover, InRun
<1>5. count % (MAX_COUNT + 1) = count
  <2>1. MAX_COUNT + 1 \in Nat \ {0} /\ count \in 0 .. (MAX_COUNT + 1) - 1
    BY <1>2, <1>4
  <2>2. QED
    BY <2>1, ModSmall, Zenon
<1>6. dst' = dst \o pair
  BY <1>3, <1>5
<1>7. pair \in Seq(B) /\ dst \in Seq(B) /\ Len(pair) = 2 /\ pair[1] = count /\ pair[2] = color
  <2>1. count \in B /\ color \in B
    BY <1>1, <1>2, <1>4 DEF RleTypeOK
  <2>2. dst \in Seq(B)
    BY <1>1 DEF RleTypeOK
  <2> HIDE DEF B
  <2>3. QED
    BY <2>1, <2>2
<1>8. /\ dst' \in Seq(B) /\ Len(dst') = Len(dst) + 2
      /\ \A i \in 1 .. Len(dst) : dst'[i] = dst[i]
      /\ dst'[Len(dst) + 1] = count /\ dst'[Len(dst) + 2] = color
  <2> HIDE DEF B, pair
  <2>1. /\ dst \o pair \in Seq(B) /\ Len(dst \o pair) = Len(dst) + Len(pair)
        /\ \A i \in 1 .. Len(dst) + Len(pair) :
             (dst \o pair)[i] = IF i <= Len(dst) THEN dst[i] ELSE pair[i - Len(dst)]
    BY <1>7, ConcatProperties
  <2>2. QED
    BY <1>2, <1>6, <1>7, <2>1
<1>9. QED
  BY <1>8

(* A pair is written: it stands for the run that ends here. *)
LEMMA EmitKeeps ==
  ASSUME LoopInv, Emit
  PROVE  LoopInv'
<1>1. RleTypeOK /\ InBounds /\ PairsAreRuns /\ PairsCover /\ DecodedSoFar
  BY DEF LoopInv
<1> DEFINE n == Len(ends)
           covered == UpTo(n)
<1>2. /\ Len(src) \in Nat /\ src_idx \in Nat /\ count \in Nat /\ n \in Nat /\ Len(dst) \in Nat
      /\ covered \in Nat /\ MAX_COUNT \in Nat \ {0} /\ \A k \in 1 .. n : ends[k] \in Nat
      /\ read_idx \in Nat
  BY <1>1, CodecTypes, RleAssumption
<1>3. /\ phase = "scalar" /\ dst' = dst \o <<count % (MAX_COUNT + 1), color>>
      /\ ends' = Append(ends, src_idx) /\ phase' = "next"
      /\ UNCHANGED <<src, src_idx, color, count, room, read_idx, out>>
  BY DEF Emit
<1>4. /\ count \in 1 .. MAX_COUNT /\ src_idx = covered + count
      /\ \A i \in covered + 1 .. src_idx : src[i] = color
  BY <1>1, <1>3 DEF PairsCover, InRun
<1>5. /\ dst' \in Seq(Color \cup 0 .. MAX_COUNT) /\ Len(dst') = Len(dst) + 2
      /\ \A i \in 1 .. Len(dst) : dst'[i] = dst[i]
      /\ dst'[Len(dst) + 1] = count /\ dst'[Len(dst) + 2] = color
  BY EmittedPair
<1>6. /\ ends' \in Seq(Nat) /\ Len(ends') = n + 1 /\ ends'[n + 1] = src_idx
      /\ \A k \in 1 .. n : ends'[k] = ends[k]
  <2>1. ends \in Seq(Nat)
    BY <1>1 DEF RleTypeOK
  <2>2. QED
    BY <1>2, <1>3, <2>1, AppendProperties
<1>7. Len(dst) = 2 * n
  BY <1>1 DEF PairsAreRuns
<1>8. \A k \in 0 .. n : UpTo(k)' = UpTo(k)
  BY <1>2, <1>6 DEF UpTo
<1>9. RleTypeOK'
  BY <1>1, <1>3, <1>5, <1>6 DEF RleTypeOK
<1>10. InBounds'
  <2>1. Len(dst) + 2 <= 2 * Len(src) /\ src_idx <= Len(src)
    BY <1>1, <1>3 DEF InBounds, InRun
  <2>2. read_idx <= Len(dst) /\ read_idx' <= Len(dst') /\ Len(out') <= room'
    BY <1>1, <1>2, <1>3, <1>5 DEF InBounds
  <2>3. ~ InRun'
    BY <1>3 DEF InRun
  <2>4. QED
    BY <1>2, <1>3, <1>5, <2>1, <2>2, <2>3 DEF InBounds
<1> HIDE DEF covered
<1>11. PairsAreRuns'
  <2> DEFINE Run(k) == /\ k <= ends'[k] /\ ends'[k] <= Len(src')
                       /\ dst'[2 * k - 1] \in 1 .. MAX_COUNT
                       /\ dst'[2 * k - 1] = ends'[k] - UpTo(k - 1)'
                       /\ \A i \in UpTo(k - 1)' + 1 .. ends'[k] : src'[i] = dst'[2 * k]
  <2>5. Len(dst') = 2 * Len(ends')
    BY <1>2, <1>5, <1>6, <1>7
  <2> SUFFICES \A k \in 1 .. Len(ends') : Run(k)
    BY <2>5 DEF PairsAreRuns
  <2> SUFFICES ASSUME NEW k \in 1 .. n + 1
               PROVE  Run(k)
    BY <1>6
  <2>1. UpTo(k - 1)' = UpTo(k - 1)
    BY <1>2, <1>8
  <2>2. CASE k <= n
    <3>1. k \in 1 .. n
      BY <1>2, <2>2
    <3>2. /\ k <= ends[k] /\ ends[k] <= Len(src)
          /\ dst[2 * k - 1] \in 1 .. MAX_COUNT /\ dst[2 * k - 1] = ends[k] - UpTo(k - 1)
          /\ \A i \in UpTo(k - 1) + 1 .. ends[k] : src[i] = dst[2 * k]
      BY <1>1, <3>1 DEF PairsAreRuns
    <3>3. 2 * k - 1 \in 1 .. Len(dst) /\ 2 * k \in 1 .. Len(dst)
      BY <1>2, <1>7, <3>1
    <3>4. dst'[2 * k - 1] = dst[2 * k - 1] /\ dst'[2 * k] = dst[2 * k] /\ ends'[k] = ends[k]
      BY <1>5, <1>6, <3>1, <3>3
    <3>5. QED
      BY <1>3, <2>1, <3>2, <3>4
  <2>3. CASE k = n + 1
    <3>1. 2 * k - 1 = Len(dst) + 1 /\ 2 * k = Len(dst) + 2 /\ k - 1 = n
      BY <1>2, <1>7, <2>3
    <3>2. dst'[2 * k - 1] = count /\ dst'[2 * k] = color /\ ends'[k] = src_idx
      BY <1>5, <1>6, <2>3, <3>1
    <3>3. UpTo(k - 1)' = covered
      BY <2>1, <3>1 DEF covered
    <3>4. n <= covered
      BY <1>1, <1>2 DEF PairsAreRuns, UpTo, covered
    <3>5. k <= src_idx /\ src_idx <= Len(src) /\ count = src_idx - covered
      BY <1>1, <1>2, <1>4, <2>3, <3>4 DEF InBounds
    <3>6. QED
      BY <1>3, <1>4, <3>2, <3>3, <3>5
  <2>4. QED
    BY <1>2, <2>2, <2>3
<1>12. PairsCover'
  <2>1. UpTo(Len(ends))' = src_idx
    BY <1>2, <1>6 DEF UpTo
  <2>2. ~ InRun' /\ phase' \notin {"pair", "write", "done"} /\ src_idx' = src_idx
    BY <1>3 DEF InRun
  <2>3. QED
    BY <2>1, <2>2 DEF PairsCover
<1>13. DecodedSoFar'
  BY <1>3, NotYetDecoded
<1>14. QED
  BY <1>9, <1>10, <1>11, <1>12, <1>13 DEF LoopInv

LEMMA CompressedKeeps ==
  ASSUME LoopInv, Compressed
  PROVE  LoopInv'
<1>1. RleTypeOK /\ InBounds /\ PairsAreRuns /\ PairsCover /\ DecodedSoFar
  BY DEF LoopInv
<1>2. /\ phase = "next" /\ src_idx = Len(src) /\ phase' = "pair"
      /\ UNCHANGED <<src, dst, src_idx, ends, color, count, room, read_idx, out>>
  BY DEF Compressed, codeVars
<1>3. RleTypeOK'
  BY <1>1, <1>2 DEF RleTypeOK
<1>4. InBounds'
  BY <1>1, <1>2 DEF InBounds, InRun
<1>5. PairsAreRuns'
  BY <1>1, <1>2, PairsKept
<1>6. PairsCover'
  BY <1>1, <1>2 DEF PairsCover, InRun, UpTo
<1>7. DecodedSoFar'
  BY <1>2, NotYetDecoded
<1>8. QED
  BY <1>3, <1>4, <1>5, <1>6, <1>7 DEF LoopInv

(* The decompressor leaves the code alone. *)
LEMMA CodeKept ==
  ASSUME LoopInv, phase \in {"pair", "write"}, UNCHANGED codeVars,
         phase' \in {"pair", "write", "done"}
  PROVE  PairsAreRuns' /\ PairsCover'
<1>1. UNCHANGED <<src, dst, src_idx, ends>>
  BY DEF codeVars
<1>2. PairsAreRuns'
  BY <1>1, PairsKept DEF LoopInv
<1>3. PairsCover'
  <2>1. ~ InRun /\ ~ InRun' /\ UpTo(Len(ends))' = UpTo(Len(ends))
    BY <1>1 DEF InRun, UpTo
  <2>2. QED
    BY <1>1, <2>1 DEF LoopInv, PairsCover
<1>4. QED
  BY <1>2, <1>3

(* The decompressor is at a pair of the code, or before the first. *)
LEMMA AtPair ==
  ASSUME LoopInv
  PROVE  \E k \in 0 .. Len(ends) :
           /\ read_idx = 2 * k /\ read_idx \div 2 = k /\ Len(dst) = 2 * Len(ends)
           /\ UpTo(k) \in 0 .. Len(src)
           /\ Decoded = UpTo(k) - (IF phase = "write" THEN count ELSE 0)
<1>1. RleTypeOK /\ InBounds /\ PairsAreRuns /\ DecodedSoFar
  BY DEF LoopInv
<1>2. /\ Len(ends) \in Nat /\ Len(src) \in Nat /\ read_idx \in Nat
      /\ \A k \in 1 .. Len(ends) : ends[k] \in Nat
  BY <1>1, CodecTypes
<1>3. read_idx % 2 = 0 /\ read_idx <= Len(dst) /\ Len(dst) = 2 * Len(ends)
  BY <1>1 DEF DecodedSoFar, InBounds, PairsAreRuns
<1>4. PICK k \in Nat : read_idx = 2 * k
  BY <1>2, <1>3
<1>5. k \in 0 .. Len(ends) /\ read_idx \div 2 = k
  BY <1>2, <1>3, <1>4
<1>6. UpTo(k) \in 0 .. Len(src)
  BY <1>1, <1>2, <1>5 DEF PairsAreRuns, UpTo
<1>7. QED
  BY <1>3, <1>4, <1>5, <1>6 DEF Decoded

LEMMA ReadPairKeeps ==
  ASSUME LoopInv, ReadPair
  PROVE  LoopInv'
<1>1. RleTypeOK /\ InBounds /\ PairsAreRuns /\ PairsCover /\ DecodedSoFar
  BY DEF LoopInv
<1>2. /\ phase = "pair" /\ read_idx + 1 < Len(dst)
      /\ count' = dst[read_idx + 1] /\ color' = dst[read_idx + 2]
      /\ read_idx' = read_idx + 2 /\ phase' = "write"
      /\ UNCHANGED <<src, dst, src_idx, ends, room, out>> /\ UNCHANGED codeVars
  BY DEF ReadPair, HasPair, codeVars
<1>3. PICK k \in 0 .. Len(ends) :
        /\ read_idx = 2 * k /\ Len(dst) = 2 * Len(ends) /\ UpTo(k) \in 0 .. Len(src)
        /\ Decoded = UpTo(k)
  BY <1>2, AtPair
<1>4. /\ Len(ends) \in Nat /\ Len(src) \in Nat /\ room \in Nat /\ Len(out) \in Nat
      /\ \A i \in 1 .. Len(src) : src[i] \in Color
  BY <1>1, CodecTypes
<1>5. k + 1 \in 1 .. Len(ends) /\ read_idx + 1 = 2 * (k + 1) - 1 /\ read_idx + 2 = 2 * (k + 1)
      /\ (k + 1) - 1 = k
  BY <1>2, <1>3, <1>4
<1>6. /\ ends[k + 1] <= Len(src) /\ k + 1 <= ends[k + 1]
      /\ count' \in 1 .. MAX_COUNT /\ count' = ends[k + 1] - UpTo(k)
      /\ \A i \in UpTo(k) + 1 .. ends[k + 1] : src[i] = color'
  BY <1>1, <1>2, <1>5 DEF PairsAreRuns
<1>7. MAX_COUNT \in Nat /\ ends[k + 1] \in Nat /\ count' \in Nat
  <2>1. MAX_COUNT \in Nat
    BY RleAssumption
  <2>2. \A j \in 1 .. Len(ends) : ends[j] \in Nat
    BY <1>1, CodecTypes
  <2>3. QED
    BY <1>5, <1>6, <2>1, <2>2
<1>8. color' \in Color
  <2>1. UpTo(k) + 1 \in UpTo(k) + 1 .. ends[k + 1] /\ UpTo(k) + 1 \in 1 .. Len(src)
    BY <1>3, <1>4, <1>6, <1>7
  <2>2. QED
    BY <1>4, <1>6, <2>1
<1>9. RleTypeOK'
  <2>1. read_idx' \in Nat
    BY <1>3, <1>4, <1>2
  <2>2. QED
    BY <1>1, <1>2, <1>7, <1>8, <2>1 DEF RleTypeOK
<1>10. InBounds'
  <2>1. read_idx + 2 <= Len(dst)
    BY <1>3, <1>4, <1>5
  <2>2. QED
    BY <1>1, <1>2, <2>1 DEF InBounds, InRun
<1>11. PairsAreRuns' /\ PairsCover'
  BY <1>2, CodeKept
<1>12. Decoded' = UpTo(k)
  <2>1. read_idx' \div 2 = k + 1 /\ k + 1 # 0
    BY <1>2, <1>3, <1>4
  <2>2. Decoded' = ends[k + 1] - count'
    BY <1>2, <2>1 DEF Decoded, UpTo
  <2>3. QED
    BY <1>3, <1>4, <1>6, <1>7, <2>2
<1>13. DecodedSoFar'
  <2>1. read_idx' % 2 = 0 /\ read_idx' > 0
    BY <1>2, <1>3, <1>4
  <2>2. color' = dst[read_idx'] /\ count' <= dst[read_idx' - 1]
    <3>1. read_idx' - 1 = read_idx + 1
      BY <1>2, <1>3, <1>4
    <3>2. QED
      BY <1>2, <1>7, <3>1
  <2>3. /\ Len(out) = IF UpTo(k) < room THEN UpTo(k) ELSE room
        /\ \A i \in 1 .. Len(out) : out[i] = src[i]
    BY <1>1, <1>3 DEF DecodedSoFar
  <2>4. QED
    BY <1>2, <1>12, <2>1, <2>2, <2>3 DEF DecodedSoFar
<1>14. QED
  BY <1>9, <1>10, <1>11, <1>13 DEF LoopInv

LEMMA WriteColorKeeps ==
  ASSUME LoopInv, WriteColor
  PROVE  LoopInv'
<1>1. RleTypeOK /\ InBounds /\ PairsAreRuns /\ PairsCover /\ DecodedSoFar
  BY DEF LoopInv
<1>2. /\ phase = "write" /\ count > 0 /\ count' = count - 1 /\ phase' = "write"
      /\ out' = IF Len(out) < room THEN Append(out, color) ELSE out
      /\ UNCHANGED <<src, dst, src_idx, ends, room, read_idx, color>> /\ UNCHANGED codeVars
  BY DEF WriteColor, codeVars
<1>3. PICK k \in 0 .. Len(ends) :
        /\ read_idx = 2 * k /\ read_idx \div 2 = k /\ Len(dst) = 2 * Len(ends)
        /\ UpTo(k) \in 0 .. Len(src) /\ Decoded = UpTo(k) - count
  BY <1>2, AtPair
<1>4. /\ Len(ends) \in Nat /\ Len(src) \in Nat /\ room \in Nat /\ Len(out) \in Nat
      /\ count \in Nat
  BY <1>1, CodecTypes
<1>5. /\ read_idx > 0 /\ color = dst[read_idx] /\ count <= dst[read_idx - 1]
      /\ Len(out) = IF Decoded < room THEN Decoded ELSE room
      /\ \A i \in 1 .. Len(out) : out[i] = src[i]
  BY <1>1, <1>2 DEF DecodedSoFar
<1>6. k \in 1 .. Len(ends) /\ read_idx - 1 = 2 * k - 1 /\ k # 0
  BY <1>3, <1>4, <1>5
<1>7. /\ dst[2 * k - 1] \in 1 .. MAX_COUNT /\ dst[2 * k - 1] = UpTo(k) - UpTo(k - 1)
      /\ \A i \in UpTo(k - 1) + 1 .. UpTo(k) : src[i] = color
  <2>1. UpTo(k) = ends[k]
    BY <1>6 DEF UpTo
  <2>2. QED
    BY <1>1, <1>3, <1>5, <1>6, <2>1 DEF PairsAreRuns
<1>8. UpTo(k - 1) \in Nat /\ MAX_COUNT \in Nat
  BY <1>1, <1>4, <1>6, CodecTypes, RleAssumption DEF UpTo
<1>9. UpTo(k - 1) <= Decoded /\ Decoded \in 0 .. Len(src) - 1 /\ src[Decoded + 1] = color
  <2>1. count <= UpTo(k) - UpTo(k - 1)
    BY <1>5, <1>6, <1>7
  <2>2. UpTo(k - 1) <= Decoded /\ Decoded \in 0 .. Len(src) - 1
    BY <1>2, <1>3, <1>4, <1>8, <2>1
  <2>3. Decoded + 1 \in UpTo(k - 1) + 1 .. UpTo(k)
    <3>1. Decoded + 1 <= UpTo(k)
      BY <1>2, <1>3, <1>4
    <3>2. Decoded \in Int /\ UpTo(k - 1) + 1 <= Decoded + 1
      BY <1>4, <1>8, <2>2
    <3>3. UpTo(k) \in Int /\ UpTo(k - 1) \in Int
      BY <1>3, <1>4, <1>8
    <3>4. QED
      BY <3>1, <3>2, <3>3
  <2>4. QED
    BY <1>7, <2>2, <2>3
<1>10. Decoded' = Decoded + 1
  <2>1. Decoded' = UpTo(k) - count'
    BY <1>2, <1>3 DEF Decoded, UpTo
  <2>2. QED
    BY <1>2, <1>3, <1>4, <2>1
<1>11. /\ out' \in Seq(Color) /\ Len(out') = IF Decoded + 1 < room THEN Decoded + 1 ELSE room
       /\ \A i \in 1 .. Len(out') : out'[i] = src[i]
  <2>1. out \in Seq(Color) /\ color \in Color
    BY <1>1 DEF RleTypeOK
  <2>2. CASE Len(out) < room
    <3>1. Len(out) = Decoded
      BY <1>4, <1>5, <1>9, <2>2
    <3>2. /\ Append(out, color) \in Seq(Color) /\ Len(Append(out, color)) = Len(out) + 1
          /\ \A i \in 1 .. Len(out) : Append(out, color)[i] = out[i]
          /\ Append(out, color)[Len(out) + 1] = color
      BY <2>1, AppendProperties
    <3>3. QED
      BY <1>2, <1>4, <1>5, <1>9, <2>2, <3>1, <3>2
  <2>3. CASE ~ (Len(out) < room)
    <3>1. Len(out) = room /\ ~ (Decoded + 1 < room)
      BY <1>4, <1>5, <1>9, <2>3
    <3>2. QED
      BY <1>2, <1>5, <2>1, <2>3, <3>1
  <2>4. QED
    BY <2>2, <2>3
<1>12. RleTypeOK'
  <2>1. count - 1 \in Nat
    BY <1>2, <1>4
  <2>2. QED
    BY <1>1, <1>2, <1>11, <2>1 DEF RleTypeOK
<1>13. InBounds'
  <2>1. Len(out') <= room
    BY <1>4, <1>9, <1>11
  <2>2. QED
    BY <1>1, <1>2, <2>1 DEF InBounds, InRun
<1>14. PairsAreRuns' /\ PairsCover'
  BY <1>2, CodeKept
<1>15. DecodedSoFar'
  <2>1. read_idx % 2 = 0
    BY <1>1 DEF DecodedSoFar
  <2>2. count - 1 <= dst[read_idx - 1]
    <3>1. dst[read_idx - 1] \in Int
      BY <1>6, <1>7, <1>8
    <3>2. QED
      BY <1>4, <1>5, <3>1
  <2>3. QED
    BY <1>2, <1>5, <1>10, <1>11, <2>1, <2>2 DEF DecodedSoFar
<1>16. QED
  BY <1>12, <1>13, <1>14, <1>15 DEF LoopInv

LEMMA PairDoneKeeps ==
  ASSUME LoopInv, PairDone \/ Decompressed
  PROVE  LoopInv'
<1>1. RleTypeOK /\ InBounds /\ PairsAreRuns /\ PairsCover /\ DecodedSoFar
  BY DEF LoopInv
<1>2. /\ UNCHANGED <<src, dst, src_idx, ends, color, count, room, read_idx, out>>
      /\ UNCHANGED codeVars
      /\ \/ phase = "write" /\ count = 0 /\ phase' = "pair"
         \/ phase = "pair" /\ phase' = "done" /\ ~ (read_idx + 1 < Len(dst))
  BY DEF PairDone, Decompressed, HasPair, codeVars
<1>3. PICK k \in 0 .. Len(ends) :
        /\ read_idx = 2 * k /\ read_idx \div 2 = k /\ Len(dst) = 2 * Len(ends)
        /\ UpTo(k) \in 0 .. Len(src)
        /\ Decoded = UpTo(k) - (IF phase = "write" THEN count ELSE 0)
  BY AtPair
<1>4. Len(ends) \in Nat /\ Len(src) \in Nat
  BY <1>1, CodecTypes
<1>5. Decoded' = Decoded
  <2>1. Decoded' = UpTo(k)
    BY <1>2, <1>3, <1>4 DEF Decoded, UpTo
  <2>2. Decoded = UpTo(k)
    BY <1>2, <1>3, <1>4
  <2>3. QED
    BY <2>1, <2>2
<1>6. phase' = "done" => read_idx = Len(dst)
  BY <1>2, <1>3, <1>4
<1>7. RleTypeOK'
  BY <1>1, <1>2 DEF RleTypeOK
<1>8. InBounds'
  BY <1>1, <1>2 DEF InBounds, InRun
<1>9. PairsAreRuns' /\ PairsCover'
  BY <1>2, CodeKept
<1>10. DecodedSoFar'
  BY <1>1, <1>2, <1>5, <1>6 DEF DecodedSoFar
<1>11. QED
  BY <1>7, <1>8, <1>9, <1>10 DEF LoopInv

LEMMA LoopStep == LoopInv /\ [RleNext]_rleVars => LoopInv'
<1> SUFFICES ASSUME LoopInv, [RleNext]_rleVars PROVE LoopInv'
  OBVIOUS
<1>1. CASE Compress
  BY <1>1, NextRunKeeps, VectorKeeps, EmitKeeps, CompressedKeeps DEF Compress
<1>2. CASE Decompress
  BY <1>2, ReadPairKeeps, WriteColorKeeps, PairDoneKeeps DEF Decompress
<1>3. CASE UNCHANGED rleVars
  BY <1>3 DEF rleVars, LoopInv, RleTypeOK, InBounds, InRun, PairsAreRuns, PairsCover,
              DecodedSoFar, Decoded, UpTo
<1>4. QED
  BY <1>1, <1>2, <1>3 DEF RleNext, Terminated

(* For every canvas, number of colours, number of lanes, length of a run    *)
(* and of the buffers: no index of rle_compress or of rle_decompress leaves *)
(* its buffer, no count overflows its byte, and at every moment the pairs   *)
(* written stand for the bytes read and the bytes decompressed for the      *)
(* pairs read (master.rs:15-80, client main.rs:36-51).                      *)
THEOREM LoopInvariant == RleSpec => []LoopInv
<1>1. QED
  BY InitLoop, LoopStep, PTL DEF RleSpec

(* For every canvas: decompressing what was compressed gives the canvas     *)
(* back, or as much of it as the buffer takes, whatever the number of lanes *)
(* (master.rs:15-80, client main.rs:36-51).                                 *)
THEOREM RoundTripHolds == RleSpec => []RoundTrip
<1>1. LoopInv => RoundTrip
  <2> SUFFICES ASSUME LoopInv, phase = "done"
               PROVE  out = SubSeq(src, 1, IF room < Len(src) THEN room ELSE Len(src))
    BY DEF RoundTrip
  <2>1. RleTypeOK /\ PairsAreRuns /\ PairsCover /\ DecodedSoFar
    BY DEF LoopInv
  <2>2. /\ Len(src) \in Nat /\ room \in Nat /\ Len(out) \in Nat /\ Len(ends) \in Nat
        /\ src \in Seq(Color) /\ out \in Seq(Color) /\ read_idx \in Nat
        /\ \A i \in 1 .. Len(src) : src[i] \in Color
    BY <2>1, CodecTypes DEF RleTypeOK
  <2> DEFINE n == IF room < Len(src) THEN room ELSE Len(src)
             s == SubSeq(src, 1, n)
  <2>3. Decoded = Len(src)
    <3>1. PICK k \in 0 .. Len(ends) :
            read_idx = 2 * k /\ Len(dst) = 2 * Len(ends) /\ Decoded = UpTo(k)
            /\ UpTo(k) \in 0 .. Len(src)
      BY AtPair
    <3>2. read_idx = Len(dst)
      BY <2>1 DEF DecodedSoFar
    <3>3. k = Len(ends)
      BY <2>2, <3>1, <3>2
    <3>4. UpTo(Len(ends)) = Len(src)
      BY <2>1 DEF PairsCover, InRun
    <3>5. QED
      BY <2>2, <3>1, <3>3, <3>4
  <2>4. Len(out) = n /\ \A i \in 1 .. n : out[i] = src[i]
    BY <2>1, <2>2, <2>3 DEF DecodedSoFar
  <2>5. n \in Nat /\ \A i \in 1 .. n : src[i] \in Color
    BY <2>2
  <2>6. s \in Seq(Color) /\ Len(s) = n /\ \A i \in 1 .. n : s[i] = src[i]
    <3>1. 1 \in Int /\ n \in Int
      BY <2>5
    <3> HIDE DEF n
    <3>2. /\ s \in Seq(Color)
          /\ Len(s) = IF 1 <= n THEN n - 1 + 1 ELSE 0
          /\ \A i \in 1 .. n - 1 + 1 : s[i] = src[1 + i - 1]
      BY <2>5, <3>1, SubSeqProperties
    <3> HIDE DEF s
    <3>3. QED
      BY <2>5, <3>2
  <2> HIDE DEF n, s
  <2>7. out = s
    BY <2>2, <2>4, <2>5, <2>6, SeqEqual
  <2>8. QED
    BY <2>7 DEF n, s
<1>2. QED
  BY <1>1, LoopInvariant, PTL

(* For every canvas: the code has no pair that could have been longer,      *)
(* whichever of the two loops ended the run (master.rs:35, master.rs:70).   *)
THEOREM LongestRunsHolds == RleSpec => []LongestRuns
<1>1. RleInit => LongestRuns
  BY DEF RleInit, LongestRuns
<1>2. LoopInv /\ LongestRuns /\ [RleNext]_rleVars => LongestRuns'
  <2> SUFFICES ASSUME LoopInv, LongestRuns, [RleNext]_rleVars PROVE LongestRuns'
    OBVIOUS
  <2>1. CASE Emit
    <3>1. RleTypeOK /\ PairsAreRuns /\ PairsCover
      BY DEF LoopInv
    <3>2. LoopInv'
      BY EmitKeeps, <2>1
    <3> DEFINE n == Len(ends)
    <3>3. /\ n \in Nat /\ Len(dst) \in Nat /\ Len(dst) = 2 * n /\ count \in Nat
          /\ src_idx \in Nat /\ Len(src) \in Nat /\ MAX_COUNT \in Nat
      BY <3>1, CodecTypes, RleAssumption DEF PairsAreRuns
    <3>4. /\ src' = src /\ ends' = Append(ends, src_idx) /\ ~ ScalarGoes
          /\ dst' = dst \o <<count % (MAX_COUNT + 1), color>> /\ phase = "scalar"
      BY <2>1 DEF Emit
    <3>5. Len(ends') = n + 1 /\ ends'[n + 1] = src_idx /\ \A k \in 1 .. n : ends'[k] = ends[k]
      <4>1. ends \in Seq(Nat)
        BY <3>1 DEF RleTypeOK
      <4>2. QED
        BY <3>3, <3>4, <4>1, AppendProperties
    <3>6. count \in 1 .. MAX_COUNT
      BY <3>1, <3>4 DEF PairsCover, InRun
    <3>7. /\ \A i \in 1 .. Len(dst) : dst'[i] = dst[i]
          /\ dst'[Len(dst) + 1] = count /\ dst'[Len(dst) + 2] = color
      BY <2>1, EmittedPair
    <3>8. ASSUME NEW k \in 1 .. Len(ends'), dst'[2 * k - 1] < MAX_COUNT, ends'[k] < Len(src')
          PROVE  src'[ends'[k] + 1] # dst'[2 * k]
      <4>1. CASE k <= n
        <5>1. k \in 1 .. n /\ 2 * k - 1 \in 1 .. Len(dst) /\ 2 * k \in 1 .. Len(dst)
          BY <3>3, <4>1
        <5>2. dst'[2 * k - 1] = dst[2 * k - 1] /\ dst'[2 * k] = dst[2 * k] /\ ends'[k] = ends[k]
          BY <3>5, <3>7, <5>1
        <5>3. QED
          BY <3>4, <3>8, <5>1, <5>2 DEF LongestRuns
      <4>2. CASE k = n + 1
        <5>1. 2 * k - 1 = Len(dst) + 1 /\ 2 * k = Len(dst) + 2
          BY <3>3, <4>2
        <5>2. dst'[2 * k - 1] = count /\ dst'[2 * k] = color /\ ends'[k] = src_idx
          BY <3>5, <3>7, <4>2, <5>1
        <5>3. src_idx < Len(src) /\ count < MAX_COUNT
          BY <3>4, <3>8, <5>2
        <5>4. QED
          BY <3>4, <5>2, <5>3 DEF ScalarGoes
      <4>3. QED
        BY <3>3, <3>5, <4>1, <4>2
    <3>9. QED
      BY <3>8 DEF LongestRuns
  <2>2. CASE ~ Emit
    <3>1. UNCHANGED <<src, dst, ends>>
      BY <2>2 DEF RleNext, Compress, Decompress, Terminated, NextRun, AfterFirst, VectorStep, VectorDone,
                  ScalarStep, Compressed, ReadPair, WriteColor, PairDone, Decompressed,
                  codeVars, rleVars
    <3>2. QED
      BY <3>1 DEF LongestRuns
  <2>3. QED
    BY <2>1, <2>2
<1>3. QED
  BY <1>1, <1>2, LoopInvariant, PTL DEF RleSpec

(* How much is decompressed, in every phase. *)
LEMMA DecodedRange ==
  ASSUME LoopInv
  PROVE  /\ Decoded \in 0 .. Len(src) /\ Len(src) \in Nat
         /\ Len(dst) \in Nat /\ read_idx \in Nat /\ read_idx <= Len(dst)
<1>1. RleTypeOK /\ InBounds /\ PairsAreRuns /\ DecodedSoFar
  BY DEF LoopInv
<1>2. /\ Len(src) \in Nat /\ Len(dst) \in Nat /\ read_idx \in Nat /\ read_idx <= Len(dst)
      /\ count \in Nat /\ Len(ends) \in Nat /\ \A k \in 1 .. Len(ends) : ends[k] \in Nat
  BY <1>1, CodecTypes DEF InBounds
<1>3. PICK k \in 0 .. Len(ends) :
        /\ read_idx = 2 * k /\ UpTo(k) \in 0 .. Len(src)
        /\ Decoded = UpTo(k) - (IF phase = "write" THEN count ELSE 0)
  BY AtPair
<1>4. phase = "write" => count <= UpTo(k)
  <2> SUFFICES ASSUME phase = "write" PROVE count <= UpTo(k)
    OBVIOUS
  <2>1. read_idx > 0 /\ count <= dst[read_idx - 1]
    BY <1>1 DEF DecodedSoFar
  <2>2. k \in 1 .. Len(ends) /\ read_idx - 1 = 2 * k - 1 /\ k # 0
    BY <1>2, <1>3, <2>1
  <2>3. count <= ends[k] - UpTo(k - 1) /\ UpTo(k) = ends[k]
    BY <1>1, <2>1, <2>2 DEF PairsAreRuns, UpTo
  <2>4. UpTo(k - 1) \in Nat
    BY <1>2, <2>2 DEF UpTo
  <2>5. QED
    BY <1>2, <2>2, <2>3, <2>4
<1>5. Decoded \in 0 .. Len(src)
  BY <1>2, <1>3, <1>4
<1>6. QED
  BY <1>2, <1>5

(* A pass over the bytes of the canvas that are left. *)
LEMMA CompressShrinks ==
  ASSUME LoopInv, LoopInv', Compress
  PROVE  StepsLeft' \in Nat /\ StepsLeft' < StepsLeft
<1>1. /\ Len(src) \in Nat /\ src_idx \in Nat /\ Len(dst) \in Nat /\ LANES \in Nat \ {0}
      /\ src_idx <= Len(src) /\ Len(dst) <= 2 * Len(src) /\ RleTypeOK
  BY CodecTypes, RleAssumption DEF LoopInv, InBounds
<1>2. Len(src') = Len(src) /\ src_idx' \in Nat /\ src_idx' <= Len(src)
  <2>1. src' = src
    BY DEF Compress, NextRun, AfterFirst, VectorStep, VectorDone, ScalarStep, Emit, Compressed, codeVars
  <2>2. QED
    BY <2>1 DEF LoopInv, RleTypeOK, InBounds
<1> DEFINE Left(i) == 4 * (Len(src) - i) + 4 * Len(src) + 2
<1>3. /\ phase = "next" => StepsLeft = Left(src_idx)
      /\ phase = "scalar" => StepsLeft = Left(src_idx) + 1
      /\ phase = "vector" => StepsLeft = Left(src_idx) + 2
  BY <1>1 DEF StepsLeft
<1>4. /\ phase' = "next" => StepsLeft' = Left(src_idx')
      /\ phase' = "scalar" => StepsLeft' = Left(src_idx') + 1
      /\ phase' = "vector" => StepsLeft' = Left(src_idx') + 2
  BY <1>1, <1>2 DEF StepsLeft
<1>5. CASE NextRun
  <2>1. phase = "next" /\ phase' = "vector" /\ src_idx' = src_idx + 1
    BY <1>5 DEF NextRun, AfterFirst
  <2>2. QED
    BY <1>1, <1>2, <1>3, <1>4, <2>1
<1>6. CASE VectorStep
  <2>1. PICK m \in 0 .. LANES : m = Matching
    BY <1>1, MatchingIs
  <2>2. /\ phase = "vector" /\ src_idx' = src_idx + m
        /\ phase' = IF m = LANES THEN "vector" ELSE "scalar"
    BY <1>6, <2>1 DEF VectorStep, AfterVector
  <2>3. CASE m = LANES
    <3>1. phase' = "vector" /\ m >= 1 /\ m \in Nat
      BY <1>1, <2>2, <2>3
    <3>2. QED
      BY <1>1, <1>2, <1>3, <1>4, <2>2, <3>1
  <2>4. CASE m # LANES
    <3>1. phase' = "scalar" /\ m \in Nat
      BY <2>1, <2>2, <2>4, <1>1
    <3>2. QED
      BY <1>1, <1>2, <1>3, <1>4, <2>2, <3>1
  <2>5. QED
    BY <2>3, <2>4
<1>7. CASE VectorDone
  <2>1. phase = "vector" /\ phase' = "scalar" /\ src_idx' = src_idx
    BY <1>7 DEF VectorDone, codeVars
  <2>2. QED
    BY <1>1, <1>2, <1>3, <1>4, <2>1
<1>8. CASE ScalarStep
  <2>1. phase = "scalar" /\ phase' = "scalar" /\ src_idx' = src_idx + 1
    BY <1>8 DEF ScalarStep
  <2>2. QED
    BY <1>1, <1>2, <1>3, <1>4, <2>1
<1>9. CASE Emit
  <2>1. phase = "scalar" /\ phase' = "next" /\ src_idx' = src_idx
    BY <1>9 DEF Emit
  <2>2. QED
    BY <1>1, <1>2, <1>3, <1>4, <2>1
<1>10. CASE Compressed
  <2>1. /\ phase = "next" /\ phase' = "pair" /\ src_idx = Len(src) /\ dst' = dst
        /\ read_idx' = read_idx
    BY <1>10 DEF Compressed, codeVars
  <2>2. read_idx = 0
    BY <2>1 DEF LoopInv, DecodedSoFar
  <2>3. Decoded' = 0
    <3>1. read_idx' \div 2 = 0 /\ phase' # "write"
      BY <2>1, <2>2
    <3>2. QED
      BY <3>1 DEF Decoded, UpTo
  <2>4. StepsLeft' = 2 * (Len(src) - 0) + (Len(dst) - 0) + 1
    BY <1>2, <2>1, <2>2, <2>3 DEF StepsLeft
  <2>5. QED
    BY <1>1, <1>3, <2>1, <2>4
<1>11. QED
  BY <1>5, <1>6, <1>7, <1>8, <1>9, <1>10 DEF Compress

(* A pass over the pairs that are left. *)
LEMMA DecompressShrinks ==
  ASSUME LoopInv, LoopInv', Decompress
  PROVE  StepsLeft' \in Nat /\ StepsLeft' < StepsLeft
<1>1. /\ Decoded \in 0 .. Len(src) /\ Len(src) \in Nat
      /\ Len(dst) \in Nat /\ read_idx \in Nat /\ read_idx <= Len(dst)
  BY DecodedRange
<1>2. src' = src /\ dst' = dst /\ ends' = ends
  BY DEF Decompress, ReadPair, WriteColor, PairDone, Decompressed, codeVars
<1>3. PICK k \in 0 .. Len(ends) :
        /\ read_idx = 2 * k /\ read_idx \div 2 = k /\ Len(dst) = 2 * Len(ends)
        /\ UpTo(k) \in 0 .. Len(src)
        /\ Decoded = UpTo(k) - (IF phase = "write" THEN count ELSE 0)
  BY AtPair
<1>4. Len(ends) \in Nat /\ count \in Nat
  BY CodecTypes DEF LoopInv
<1> DEFINE Left(d, r) == 2 * (Len(src) - d) + (Len(dst) - r)
<1>5. /\ phase = "pair" => StepsLeft = Left(Decoded, read_idx) + 1
      /\ phase = "write" => StepsLeft = Left(Decoded, read_idx) + 2
  BY <1>1 DEF StepsLeft
<1>6. /\ phase' = "pair" => StepsLeft' = Left(Decoded', read_idx') + 1
      /\ phase' = "write" => StepsLeft' = Left(Decoded', read_idx') + 2
      /\ phase' = "done" => StepsLeft' = Left(Decoded', read_idx') + 0
  BY <1>2 DEF StepsLeft
<1>7. CASE ReadPair
  <2>1. /\ phase = "pair" /\ phase' = "write" /\ read_idx' = read_idx + 2
        /\ read_idx + 1 < Len(dst) /\ count' = dst[read_idx + 1]
    BY <1>7 DEF ReadPair, HasPair
  <2>2. /\ k + 1 \in 1 .. Len(ends) /\ read_idx + 1 = 2 * (k + 1) - 1 /\ (k + 1) - 1 = k
        /\ read_idx' \div 2 = k + 1 /\ k + 1 # 0 /\ read_idx + 2 <= Len(dst)
    BY <1>3, <1>4, <2>1
  <2>3. ends[k + 1] \in Nat /\ count' = ends[k + 1] - UpTo(k)
    <3>1. \A j \in 1 .. Len(ends) : ends[j] \in Nat
      BY CodecTypes DEF LoopInv
    <3>2. QED
      BY <2>1, <2>2, <3>1 DEF LoopInv, PairsAreRuns
  <2>4. Decoded' = ends[k + 1] - count'
    BY <1>2, <2>1, <2>2 DEF Decoded, UpTo
  <2>5. Decoded' = Decoded
    BY <1>1, <1>3, <2>1, <2>3, <2>4
  <2>6. QED
    BY <1>1, <1>5, <1>6, <2>1, <2>2, <2>5
<1>8. CASE WriteColor
  <2>1. phase = "write" /\ phase' = "write" /\ read_idx' = read_idx /\ count > 0
        /\ count' = count - 1
    BY <1>8 DEF WriteColor
  <2>2. Decoded' = UpTo(k) - (count - 1)
    BY <1>2, <1>3, <2>1 DEF Decoded, UpTo
  <2>3. Decoded' = Decoded + 1 /\ Decoded + 1 <= Len(src)
    BY <1>1, <1>3, <1>4, <2>1, <2>2
  <2>4. QED
    BY <1>1, <1>5, <1>6, <2>1, <2>3
<1>9. CASE PairDone
  <2>1. phase = "write" /\ phase' = "pair" /\ read_idx' = read_idx /\ count = 0
    BY <1>9 DEF PairDone
  <2>2. Decoded' = UpTo(k) - 0
    BY <1>1, <1>2, <1>3, <2>1 DEF Decoded, UpTo
  <2>3. Decoded' = Decoded
    BY <1>1, <1>3, <2>1, <2>2
  <2>4. QED
    BY <1>1, <1>5, <1>6, <2>1, <2>3
<1>10. CASE Decompressed
  <2>1. phase = "pair" /\ phase' = "done" /\ read_idx' = read_idx
    BY <1>10 DEF Decompressed
  <2>2. Decoded' = UpTo(k) - 0
    BY <1>1, <1>2, <1>3, <2>1 DEF Decoded, UpTo
  <2>3. Decoded' = Decoded
    BY <1>1, <1>3, <2>1, <2>2
  <2>4. QED
    BY <1>1, <1>5, <1>6, <2>1, <2>3
<1>11. QED
  BY <1>7, <1>8, <1>9, <1>10 DEF Decompress

(* For every canvas and every buffer: each step of the loops lowers the     *)
(* number of steps left, which is at first eight for each pixel and two     *)
(* more (master.rs:23-78).  CompressShrinks and DecompressShrinks say so of *)
(* every turn, so there is none that changes nothing.                       *)
THEOREM StepsShrinkHolds == RleSpec => StepsShrink
<1>1. LoopInv /\ LoopInv' /\ [RleNext]_rleVars
        => [StepsLeft' \in Nat /\ StepsLeft' < StepsLeft]_rleVars
  BY CompressShrinks, DecompressShrinks DEF RleNext, Terminated
<1>2. QED
  BY <1>1, LoopInvariant, PTL DEF RleSpec, StepsShrink
=============================================================================
