----------------------------- MODULE Main_proofs -----------------------------
(***************************************************************************)
(* The two programs and the loop that the server's main ends in: the start *)
(* of the server (Startup), the master's loop (Master) and the load        *)
(* generator (LoadClient), for every number of cores, workers, users and   *)
(* starts, every canvas size and every width of the counters.              *)
(***************************************************************************)
EXTENDS Startup, Master, LoadClient, ModArith, SequenceTheorems, FiniteSetTheorems

-----------------------------------------------------------------------------
(* The start of the server: the certificate files.                          *)

(* Where in the two writes a start is, and what the files are then. *)
Writing == {"open_cert", "fill_cert", "open_key", "fill_key"}
FilesInv ==
  /\ pair \in Nat /\ cert_crt \in Int /\ key_key \in Int
  /\ key_key # Absent => cert_crt > 0 /\ key_key \in {cert_crt, Broken}
  /\ pc \in Writing => pair > 0
  /\ pc \in {"open_cert", "fill_cert", "open_key"} => key_key = Absent
  /\ pc \in {"open_key", "fill_key"} => cert_crt = pair
  /\ pc \in {"topology", "load"} => Exists

(* The invariant is inductive.  A key file is created only after the        *)
(* certificate is whole, so a key that exists, even if it is broken, never  *)
(* stands beside a certificate of another pair; and create_certificates     *)
(* writes only when no key exists (main.rs:33-38).                          *)
LEMMA FilesStep ==
  ASSUME FilesInv, [StartupNext]_startupVars
  PROVE  FilesInv'
<1> USE DEF Absent, Broken
<1>1. CASE CheckFiles
  <2>1. CASE Exists
    BY <1>1, <2>1 DEF CheckFiles, FilesInv, Writing, Exists, coreVars
  <2>2. CASE ~ Exists
    <3>1. key_key = Absent
      BY <2>2 DEF FilesInv, Exists
    <3>2. QED
      BY <1>1, <2>2, <3>1 DEF CheckFiles, FilesInv, Writing, Exists, coreVars
  <2>3. QED
    BY <2>1, <2>2
<1>2. CASE WriteCert
  BY <1>2 DEF WriteCert, FilesInv, Writing, Exists, coreVars
<1>3. CASE WriteKey
  BY <1>3 DEF WriteKey, FilesInv, Writing, Exists, coreVars
<1>4. CASE Topology
  BY <1>4 DEF Topology, FilesInv, Writing, Exists, fileVars
<1>5. CASE LoadFiles
  BY <1>5 DEF LoadFiles, FilesInv, Writing, Exists, fileVars
<1>6. CASE Restart
  BY <1>6 DEF Restart, FilesInv, Writing, Exists, fileVars
<1>7. CASE UNCHANGED startupVars
  BY <1>7 DEF startupVars, FilesInv, Writing, Exists
<1>8. QED
  BY <1>1, <1>2, <1>3, <1>4, <1>5, <1>6, <1>7 DEF StartupNext

(* transport.rs:63: a worker that loads the files finds a whole certificate *)
(* and its key, or the one file that a start died filling.                  *)
THEOREM FilesLoadHolds == StartupSpec => []FilesLoad
<1>1. StartupInit => FilesInv
  BY DEF StartupInit, FilesInv, Writing, Absent, Broken
<1>2. FilesInv => FilesLoad
  BY DEF FilesInv, FilesLoad, Exists
<1>3. QED
  BY <1>1, <1>2, FilesStep, PTL DEF StartupSpec

-----------------------------------------------------------------------------
(* The start of the server: the cores.                                      *)

(* An injection bounds a cardinality. *)
LEMMA InjectionBounds ==
  ASSUME NEW S, NEW T, IsFiniteSet(T), NEW f \in [S -> T],
         \A x, y \in S : f[x] = f[y] => x = y
  PROVE  IsFiniteSet(S) /\ Cardinality(S) <= Cardinality(T)
<1>1. f \in Injection(S, T)
  BY DEF Injection, IsInjective
<1>2. QED
  BY <1>1, FS_Injection

(* The numbers of 0 .. N - 1 whose successors leave remainder d. *)
Class(n, N, d) == {i \in 0 .. N - 1 : (i + 1) % n = d}

(* A class is finite. *)
LEMMA ClassFinite ==
  ASSUME NEW n \in Nat \ {0}, NEW N \in Nat, NEW d
  PROVE  IsFiniteSet(Class(n, N, d)) /\ Cardinality(Class(n, N, d)) \in Nat
<1>1. 0 \in Int /\ N - 1 \in Int
  OBVIOUS
<1>2. IsFiniteSet(0 .. N - 1)
  BY <1>1, FS_Interval
<1>3. Class(n, N, d) \in SUBSET (0 .. N - 1)
  BY DEF Class
<1>4. IsFiniteSet(Class(n, N, d))
  BY <1>2, <1>3, FS_Subset
<1>5. QED
  BY <1>4, FS_CardinalityType

(* The first class is the smallest: a number of it can be moved down into   *)
(* any other.                                                               *)
LEMMA FirstClassSmallest ==
  ASSUME NEW n \in Nat \ {0}, NEW N \in Nat, NEW c \in 1 .. n - 1
  PROVE  Cardinality(Class(n, N, 0)) <= Cardinality(Class(n, N, c))
<1> DEFINE S == Class(n, N, 0)
           T == Class(n, N, c)
           f == [i \in S |-> i - (n - c)]
<1>1. ASSUME NEW i \in S PROVE i - (n - c) \in T
  <2>1. i \in 0 .. N - 1 /\ (i + 1) % n = 0 /\ i + 1 \in Int
    BY DEF Class
  <2>2. ~ (i + 1 < n)
    <3>1. i + 1 < n => i + 1 \in 0 .. n - 1
      BY <2>1
    <3>2. i + 1 \in 0 .. n - 1 => (i + 1) % n = i + 1
      BY ModSmall, Zenon
    <3>3. QED
      BY <2>1, <3>1, <3>2
  <2> DEFINE a == i + 1 - n
  <2>3. a \in Int /\ i + 1 = a + n
    BY <2>1
  <2>4. a % n = 0
    BY <2>1, <2>3, ModTurn
  <2> HIDE DEF a
  <2>5. (a + c) % n = c
    <3>1. (a % n) + c \in 0 .. n - 1 /\ c \in Int /\ (a % n) + c = c
      BY <2>4
    <3>2. (a + c) % n = (a % n) + c
      BY <2>3, <3>1, ModShift
    <3>3. QED
      BY <3>1, <3>2
  <2>6. i - (n - c) \in 0 .. N - 1 /\ (i - (n - c)) + 1 = a + c
    BY <2>1, <2>2, <2>3
  <2>7. QED
    BY <2>5, <2>6 DEF Class
<1>2. f \in [S -> T]
  BY <1>1
<1>3. \A x, y \in S : f[x] = f[y] => x = y
  <2>1. \A x \in S : x \in Int
    BY DEF Class
  <2>2. QED
    BY <2>1
<1>4. IsFiniteSet(T)
  BY ClassFinite
<1> HIDE DEF S, T, f
<1>5. Cardinality(S) <= Cardinality(T)
  BY <1>2, <1>3, <1>4, InjectionBounds
<1>6. QED
  BY <1>5 DEF S, T

(* No class has two more: all but its last number can be moved up into the  *)
(* first.                                                                   *)
LEMMA FirstClassNotMuchSmaller ==
  ASSUME NEW n \in Nat \ {0}, NEW N \in Nat, NEW c \in 1 .. n - 1
  PROVE  Cardinality(Class(n, N, c)) <= Cardinality(Class(n, N, 0)) + 1
<1> DEFINE S == Class(n, N, c)
           T == Class(n, N, 0)
           A == {i \in S : i + (n - c) <= N - 1}
           f == [i \in A |-> i + (n - c)]
<1>1. ASSUME NEW i \in A PROVE i + (n - c) \in T
  <2>1. i \in 0 .. N - 1 /\ (i + 1) % n = c /\ i + 1 \in Int /\ i + (n - c) <= N - 1
    BY DEF Class
  <2>2. i + 1 - c \in Int /\ (i + 1 - c) % n = 0
    <3> DEFINE b == i + 1
               k == 0 - c
    <3>1. b \in Int /\ k \in Int /\ b % n = c /\ (b % n) + k \in 0 .. n - 1 /\ (b % n) + k = 0
      BY <2>1
    <3> HIDE DEF b, k
    <3>2. (b + k) % n = (b % n) + k
      BY <3>1, ModShift
    <3>3. b + k = i + 1 - c
      BY <2>1 DEF b, k
    <3>4. QED
      BY <2>1, <3>1, <3>2, <3>3
  <2> DEFINE a == i + 1 - c
  <2>3. a \in Int /\ a % n = 0
    BY <2>2
  <2>4. i + (n - c) \in 0 .. N - 1 /\ (i + (n - c)) + 1 = a + n
    BY <2>1
  <2> HIDE DEF a
  <2>5. (a + n) % n = 0
    BY <2>3, ModTurn
  <2>6. QED
    BY <2>4, <2>5 DEF Class
<1>2. f \in [A -> T]
  BY <1>1
<1>3. \A x, y \in A : f[x] = f[y] => x = y
  <2>1. \A x \in A : x \in Int
    BY DEF Class
  <2>2. QED
    BY <2>1
<1>4. /\ IsFiniteSet(T) /\ Cardinality(T) \in Nat
      /\ IsFiniteSet(S) /\ Cardinality(S) \in Nat
  BY ClassFinite
<1>5. \A x, y \in S : x \notin A /\ y \notin A => x = y
  <2> SUFFICES ASSUME NEW x \in S, NEW y \in S, x \notin A, y \notin A PROVE x = y
    OBVIOUS
  <2>1. /\ x \in 0 .. N - 1 /\ y \in 0 .. N - 1
        /\ (x + 1) % n = (y + 1) % n
        /\ x + (n - c) > N - 1 /\ y + (n - c) > N - 1
    BY DEF Class
  <2> DEFINE a == x + 1
             b == y + 1
  <2>2. a \in Int /\ b \in Int /\ a % n = b % n
        /\ (a <= b => b - a < n) /\ (b <= a => a - b < n) /\ (a <= b \/ b <= a)
    BY <2>1
  <2> HIDE DEF a, b
  <2>3. a = b
    <3>1. CASE a <= b
      BY <2>2, <3>1, ModApart
    <3>2. CASE b <= a
      BY <2>2, <3>2, ModApart
    <3>3. QED
      BY <2>2, <3>1, <3>2
  <2>4. QED
    BY <2>1, <2>3 DEF a, b
<1>6. A \subseteq S
  OBVIOUS
<1> HIDE DEF S, T, A, f
<1>7. IsFiniteSet(A) /\ Cardinality(A) <= Cardinality(T)
  BY <1>2, <1>3, <1>4, InjectionBounds
<1>8. Cardinality(A) \in Nat
  BY <1>7, FS_CardinalityType
<1>9. CASE S = A
  BY <1>4, <1>7, <1>8, <1>9 DEF S, T
<1>10. CASE S # A
  <2>1. PICK x \in S : x \notin A
    BY <1>6, <1>10
  <2>2. S = A \cup {x}
    BY <1>5, <1>6, <2>1
  <2>3. Cardinality(S) = Cardinality(A) + 1
    BY <1>7, <2>1, <2>2, FS_AddElement
  <2>4. QED
    BY <1>4, <1>7, <1>8, <2>3 DEF S, T
<1>11. QED
  BY <1>9, <1>10

(* What main has decided about cores when the workers are started. *)
CoresInv ==
  /\ num_cores \in Nat \ {0}
  /\ num_workers_arg \in Nat \cup {None}
  /\ pc \in {"load", "running"}
       => worker_cores = [i \in 0 .. NumWorkers - 1 |-> CoreOf(i)]

(* The cores are assigned once in a start, and the next start forgets them. *)
LEMMA CoresStep ==
  ASSUME CoresInv, [StartupNext]_startupVars
  PROVE  CoresInv'
<1>1. CASE CheckFiles
  BY <1>1 DEF CheckFiles, CoresInv, coreVars, NumWorkers, CoreOf
<1>2. CASE WriteCert
  BY <1>2 DEF WriteCert, CoresInv, coreVars, NumWorkers, CoreOf
<1>3. CASE WriteKey
  BY <1>3 DEF WriteKey, CoresInv, coreVars, NumWorkers, CoreOf
<1>4. CASE Topology
  BY <1>4 DEF Topology, CoresInv, NumWorkers, CoreOf
<1>5. CASE LoadFiles
  BY <1>5 DEF LoadFiles, CoresInv, NumWorkers, CoreOf
<1>6. CASE Restart
  BY <1>6, StartupAssumption DEF Restart, CoresInv, None
<1>7. CASE UNCHANGED startupVars
  BY <1>7 DEF startupVars, CoresInv, NumWorkers, CoreOf
<1>8. QED
  BY <1>1, <1>2, <1>3, <1>4, <1>5, <1>6, <1>7 DEF StartupNext

(* main.rs:78-80, for every number of cores and workers: no core gets two   *)
(* workers more than another, and the master's gets another one last.       *)
THEOREM CoresSharedHolds == StartupSpec => []CoresShared
<1>1. StartupInit => CoresInv
  BY StartupAssumption DEF StartupInit, CoresInv, None
<1>2. ASSUME CoresInv PROVE CoresShared
  <2> DEFINE On(c) == Cardinality({i \in DOMAIN worker_cores : worker_cores[i] = c})
             n == num_cores
             N == NumWorkers
  <2> SUFFICES ASSUME pc = "running", NEW c \in 0 .. num_cores - 1
               PROVE  On(c) - On(0) \in {0, 1}
    BY DEF CoresShared
  <2>1. n \in Nat \ {0} /\ N \in Nat
    BY <1>2 DEF CoresInv, NumWorkers, None
  <2>2. worker_cores = [i \in 0 .. N - 1 |-> (i + 1) % n]
    BY <1>2 DEF CoresInv, CoreOf
  <2>3. \A d : {i \in DOMAIN worker_cores : worker_cores[i] = d} = Class(n, N, d)
    BY <2>2 DEF Class
  <2>4. On(c) = Cardinality(Class(n, N, c)) /\ On(0) = Cardinality(Class(n, N, 0))
    BY <2>3
  <2> HIDE DEF On, N, n
  <2>5. Cardinality(Class(n, N, c)) \in Nat /\ Cardinality(Class(n, N, 0)) \in Nat
    BY <2>1, ClassFinite
  <2>6. CASE c = 0
    BY <2>4, <2>5, <2>6
  <2>7. CASE c # 0
    <3>1. c \in 1 .. n - 1
      BY <2>1, <2>7 DEF n
    <3>2. Cardinality(Class(n, N, 0)) <= Cardinality(Class(n, N, c))
      BY <2>1, <3>1, FirstClassSmallest
    <3>3. Cardinality(Class(n, N, c)) <= Cardinality(Class(n, N, 0)) + 1
      BY <2>1, <3>1, FirstClassNotMuchSmaller
    <3>4. QED
      BY <2>4, <2>5, <3>2, <3>3
  <2>8. QED
    BY <2>6, <2>7
<1>3. QED
  BY <1>1, <1>2, CoresStep, PTL DEF StartupSpec

-----------------------------------------------------------------------------
(* The master's loop.                                                       *)

(* The place of a pair of coordinates in the canvas. *)
Place(x, y) == y * CANVAS_WIDTH + x

(* Coordinates in range have a place in the canvas ...                      *)
LEMMA PlaceInBounds ==
  ASSUME NEW x \in 0 .. CANVAS_WIDTH - 1, NEW y \in 0 .. CANVAS_HEIGHT - 1
  PROVE  Place(x, y) \in Index
<1> DEFINE w == CANVAS_WIDTH
           h == CANVAS_HEIGHT
           z == h - 1 - y
<1>1. w \in Nat \ {0} /\ h \in Nat \ {0} /\ y \in Nat /\ z \in Nat /\ x \in 0 .. w - 1
  BY MasterAssumption
<1>2. h = y + 1 + z
  BY <1>1
<1> HIDE DEF w, h, z
<1>3. w * z >= 0 /\ y * w >= 0
  BY <1>1
<1>4. w * h = y * w + w + w * z
  BY <1>1, <1>2
<1>5. y * w + x \in 0 .. w * h - 1
  <2> DEFINE a == y * w
             b == w * z
             c == w * h
  <2>1. a \in Int /\ b \in Int /\ c \in Int
    BY <1>1
  <2> HIDE DEF a, b, c
  <2>2. a >= 0 /\ b >= 0 /\ c = a + w + b
    BY <1>3, <1>4 DEF a, b, c
  <2>3. a + x \in 0 .. c - 1
    BY <1>1, <2>1, <2>2
  <2>4. QED
    BY <2>3 DEF a, c
<1>6. QED
  BY <1>5 DEF Place, Index, CANVAS_SIZE, w, h

(* ... of their own.                                                        *)
LEMMA PlaceInjective ==
  ASSUME NEW x \in 0 .. CANVAS_WIDTH - 1, NEW y \in 0 .. CANVAS_HEIGHT - 1,
         NEW v \in 0 .. CANVAS_WIDTH - 1, NEW u \in 0 .. CANVAS_HEIGHT - 1,
         Place(x, y) = Place(v, u)
  PROVE  x = v /\ y = u
<1>1. CANVAS_WIDTH \in Nat \ {0} /\ CANVAS_HEIGHT \in Nat /\ y \in Int /\ u \in Int
  BY MasterAssumption
<1>2. CANVAS_WIDTH * y + x = CANVAS_WIDTH * u + v
  BY <1>1 DEF Place
<1>3. QED
  BY <1>1, <1>2, DivModUnique

(* What a pixel of a client does to the canvas and to the history of what   *)
(* was painted: the two still agree.                                        *)
LEMMA SetPixelPaints ==
  ASSUME MasterInv, NEW p \in Pixel
  PROVE  LET next == [c \in Coordinates |-> IF c = <<p.x, p.y>> THEN p.color ELSE painted[c]]
         IN  /\ SetPixel(p) \in [Index -> Nat]
             /\ next \in [Coordinates -> Nat]
             /\ \A c \in Coordinates : SetPixel(p)[Place(c[1], c[2])] = next[c]
<1>1. p.x \in Nat /\ p.y \in Nat /\ p.color \in Nat
  BY MasterAssumption
<1>2. pixels \in [Index -> Nat] /\ painted \in [Coordinates -> Nat]
  BY DEF MasterInv, MasterTypeOK
<1>3. CANVAS_WIDTH \in Nat /\ CANVAS_HEIGHT \in Nat
  BY MasterAssumption
<1> DEFINE next == [c \in Coordinates |-> IF c = <<p.x, p.y>> THEN p.color ELSE painted[c]]
           inside == p.x < CANVAS_WIDTH /\ p.y < CANVAS_HEIGHT
<1>4. SetPixel(p) = IF inside THEN [pixels EXCEPT ![Place(p.x, p.y)] = p.color] ELSE pixels
  BY DEF SetPixel, Place
<1>5. inside => p.x \in 0 .. CANVAS_WIDTH - 1 /\ p.y \in 0 .. CANVAS_HEIGHT - 1
  BY <1>1, <1>3
<1>6. SetPixel(p) \in [Index -> Nat]
  BY <1>1, <1>2, <1>4
<1>7. next \in [Coordinates -> Nat]
  BY <1>1, <1>2
<1>8. ASSUME NEW c \in Coordinates
      PROVE  SetPixel(p)[Place(c[1], c[2])] = next[c]
  <2>1. c = <<c[1], c[2]>> /\ c[1] \in 0 .. CANVAS_WIDTH - 1 /\ c[2] \in 0 .. CANVAS_HEIGHT - 1
    BY DEF Coordinates
  <2>2. Place(c[1], c[2]) \in Index
    BY <2>1, PlaceInBounds
  <2>3. pixels[Place(c[1], c[2])] = painted[c]
    BY DEF MasterInv, CanvasByCoordinates, Place
  <2>4. CASE inside
    <3>1. c = <<p.x, p.y>> <=> c[1] = p.x /\ c[2] = p.y
      BY <2>1
    <3>2. Place(c[1], c[2]) = Place(p.x, p.y) => c[1] = p.x /\ c[2] = p.y
      BY <1>5, <2>1, <2>4, PlaceInjective
    <3>3. CASE c = <<p.x, p.y>>
      <4>1. next[c] = p.color
        BY <3>3
      <4>2. Place(c[1], c[2]) = Place(p.x, p.y)
        BY <3>1, <3>3
      <4>3. QED
        BY <1>2, <1>4, <2>2, <2>4, <4>1, <4>2
    <3>4. CASE c # <<p.x, p.y>>
      <4>1. next[c] = painted[c]
        BY <3>4
      <4>2. Place(c[1], c[2]) # Place(p.x, p.y)
        BY <3>1, <3>2, <3>4
      <4>3. QED
        BY <1>2, <1>4, <2>2, <2>3, <2>4, <4>1, <4>2
    <3>5. QED
      BY <3>3, <3>4
  <2>5. CASE ~ inside
    <3>1. c # <<p.x, p.y>>
      BY <1>1, <1>3, <2>1, <2>5
    <3>2. QED
      BY <1>4, <2>3, <2>5, <3>1
  <2>6. QED
    BY <2>4, <2>5
<1>9. QED
  BY <1>6, <1>7, <1>8

(* The master starts with an empty canvas. *)
LEMMA InitMasterInv == MasterInit => MasterInv
<1> SUFFICES ASSUME MasterInit PROVE MasterInv
  OBVIOUS
<1>1. MasterTypeOK
  <2>1. queues \in [Worker -> Seq(Pixel)] /\ \A w \in Worker : Len(queues[w]) <= SPSC_CAPACITY
    BY MasterAssumption DEF MasterInit
  <2>2. at \in 1 .. NUM_WORKERS + 1 /\ drained \in 0 .. MASTER_BATCH_DRAIN
    BY MasterAssumption DEF MasterInit
  <2>3. {pixels, snapshot} \subseteq [Index -> Nat] /\ painted \in [Coordinates -> Nat]
    BY DEF MasterInit
  <2>4. QED
    BY <2>1, <2>2, <2>3 DEF MasterTypeOK
<1>2. CanvasByCoordinates
  <2> SUFFICES ASSUME NEW c \in Coordinates
               PROVE  pixels[Place(c[1], c[2])] = painted[c]
    BY DEF CanvasByCoordinates, Place
  <2>1. c[1] \in 0 .. CANVAS_WIDTH - 1 /\ c[2] \in 0 .. CANVAS_HEIGHT - 1
    BY DEF Coordinates
  <2>2. Place(c[1], c[2]) \in Index
    BY <2>1, PlaceInBounds
  <2>3. QED
    BY <2>2 DEF MasterInit
<1>3. QED
  BY <1>1, <1>2 DEF MasterInv

(* Every step keeps the invariant. *)
LEMMA NextMasterInv == MasterInv /\ [MasterNext]_masterVars => MasterInv'
<1> SUFFICES ASSUME MasterInv, [MasterNext]_masterVars PROVE MasterInv'
  OBVIOUS
<1>1. /\ queues \in [Worker -> Seq(Pixel)]
      /\ \A w \in Worker : Len(queues[w]) <= SPSC_CAPACITY
      /\ at \in 1 .. NUM_WORKERS + 1
      /\ drained \in 0 .. MASTER_BATCH_DRAIN
      /\ pixels \in [Index -> Nat] /\ snapshot \in [Index -> Nat]
      /\ painted \in [Coordinates -> Nat]
  BY DEF MasterInv, MasterTypeOK
<1>2. NUM_WORKERS \in Nat \ {0} /\ SPSC_CAPACITY \in Nat \ {0} /\ MASTER_BATCH_DRAIN \in Nat \ {0}
  BY MasterAssumption
<1>3. ASSUME NEW w \in Worker, NEW p \in Pixel, Push(w, p)
      PROVE  MasterInv'
  <2>1. /\ Append(queues[w], p) \in Seq(Pixel)
        /\ Len(Append(queues[w], p)) = Len(queues[w]) + 1
    BY <1>1, AppendProperties
  <2>2. Len(queues[w]) \in Nat
    BY <1>1, LenProperties
  <2>3. queues' = [queues EXCEPT ![w] = Append(queues[w], p)] /\ Len(queues[w]) < SPSC_CAPACITY
    BY <1>3 DEF Push
  <2> DEFINE longer == Append(queues[w], p)
  <2> HIDE DEF longer
  <2>4. queues' = [queues EXCEPT ![w] = longer] /\ longer \in Seq(Pixel) /\ Len(longer) <= SPSC_CAPACITY
    BY <1>2, <2>1, <2>2, <2>3 DEF longer
  <2>5. queues' \in [Worker -> Seq(Pixel)] /\ \A v \in Worker : Len(queues'[v]) <= SPSC_CAPACITY
    BY <1>1, <2>4
  <2>6. QED
    BY <1>3, <2>5 DEF Push, MasterInv, MasterTypeOK, CanvasByCoordinates
<1>4. ASSUME PopPixel PROVE MasterInv'
  <2>1. at \in Worker /\ queues[at] \in Seq(Pixel) /\ queues[at] # << >>
    BY <1>1, <1>4 DEF PopPixel, BatchEnds
  <2> DEFINE p == Head(queues[at])
             rest == Tail(queues[at])
             next == [c \in Coordinates |-> IF c = <<p.x, p.y>> THEN p.color ELSE painted[c]]
  <2>2. p \in Pixel /\ rest \in Seq(Pixel) /\ Len(rest) = Len(queues[at]) - 1
    BY <2>1, HeadTailProperties
  <2>3. Len(queues[at]) \in Nat
    BY <2>1, LenProperties
  <2>4. /\ pixels' = SetPixel(p)
        /\ painted' = next
        /\ queues' = [queues EXCEPT ![at] = rest]
        /\ drained' = drained + 1 /\ drained # MASTER_BATCH_DRAIN
        /\ at' = at /\ snapshot' = snapshot
    BY <1>4 DEF PopPixel, BatchEnds
  <2>5. /\ SetPixel(p) \in [Index -> Nat]
        /\ next \in [Coordinates -> Nat]
        /\ \A c \in Coordinates : SetPixel(p)[Place(c[1], c[2])] = next[c]
    BY <2>2, SetPixelPaints
  <2> HIDE DEF p, rest, next
  <2>6. queues' \in [Worker -> Seq(Pixel)] /\ \A w \in Worker : Len(queues'[w]) <= SPSC_CAPACITY
    <3>1. Len(rest) <= SPSC_CAPACITY
      BY <1>1, <1>2, <2>1, <2>2, <2>3
    <3>2. QED
      BY <1>1, <2>1, <2>2, <2>4, <3>1
  <2>7. drained' \in 0 .. MASTER_BATCH_DRAIN
    BY <1>1, <1>2, <2>4
  <2>8. MasterTypeOK'
    BY <1>1, <2>4, <2>5, <2>6, <2>7 DEF MasterTypeOK
  <2>9. CanvasByCoordinates'
    BY <2>4, <2>5 DEF CanvasByCoordinates, Place
  <2>10. QED
    BY <2>8, <2>9 DEF MasterInv
<1>5. ASSUME NextQueue PROVE MasterInv'
  BY <1>1, <1>2, <1>5 DEF NextQueue, After, Worker, MasterInv, MasterTypeOK, CanvasByCoordinates
<1>6. ASSUME Publish PROVE MasterInv'
  BY <1>1, <1>2, <1>6 DEF Publish, Published, MasterInv, MasterTypeOK, CanvasByCoordinates
<1>7. ASSUME NotDue PROVE MasterInv'
  BY <1>1, <1>2, <1>7 DEF NotDue, MasterInv, MasterTypeOK, CanvasByCoordinates
<1>8. ASSUME UNCHANGED masterVars PROVE MasterInv'
  BY <1>8 DEF masterVars, MasterInv, MasterTypeOK, CanvasByCoordinates
<1>9. QED
  BY <1>3, <1>4, <1>5, <1>6, <1>7, <1>8 DEF MasterNext, Run

(* The types, and that the canvas shows at each place what was last sent to *)
(* exactly its coordinates (canvas.rs:74), for every canvas size: an index  *)
(* belongs to one pair of coordinates only.                                 *)
THEOREM MasterInvariant == MasterSpec => []MasterInv
<1>1. QED
  BY InitMasterInv, NextMasterInv, PTL DEF MasterSpec

(* Every step within a pass of the master brings its end nearer, or is a    *)
(* push.                                                                    *)
LEMMA PassStep ==
  ASSUME MasterInv, MasterNext, at \in Worker
  PROVE  \/ TurnsLeft' < TurnsLeft /\ TurnsLeft' \in Nat
         \/ TurnsLeft' = TurnsLeft /\ \E w \in Worker : Len(queues'[w]) > Len(queues[w])
<1> DEFINE turns == MASTER_BATCH_DRAIN + 1
           rest == NUM_WORKERS - at
           later == rest * turns
<1>1. /\ NUM_WORKERS \in Nat /\ MASTER_BATCH_DRAIN \in Nat /\ at \in 1 .. NUM_WORKERS
      /\ drained \in 0 .. MASTER_BATCH_DRAIN
  BY MasterAssumption DEF MasterInv, MasterTypeOK, Worker
<1>2. rest \in Nat /\ turns \in Nat /\ NUM_WORKERS + 1 - at = rest + 1
  BY <1>1
<1>3. turns = MASTER_BATCH_DRAIN + 1
  OBVIOUS
<1>4. TurnsLeft = (rest + 1) * turns - drained
  BY <1>2 DEF TurnsLeft
<1>5. /\ at' = at => TurnsLeft' = (rest + 1) * turns - drained'
      /\ at' = at + 1 => TurnsLeft' = rest * turns - drained'
  <2>1. at' = at => TurnsLeft' = (rest + 1) * turns - drained'
    BY <1>2 DEF TurnsLeft
  <2>2. at' = at + 1 => NUM_WORKERS + 1 - at' = rest
    BY <1>1
  <2>3. at' = at + 1 => TurnsLeft' = rest * turns - drained'
    BY <2>2 DEF TurnsLeft
  <2>4. QED
    BY <2>1, <2>3
<1> HIDE DEF turns, rest
<1> DEFINE all == (rest + 1) * turns
<1>6. later \in Nat /\ all = later + turns
  BY <1>2
<1> HIDE DEF later, all
<1>7. /\ TurnsLeft = all - drained
      /\ at' = at => TurnsLeft' = all - drained'
      /\ at' = at + 1 => TurnsLeft' = later - drained'
  BY <1>4, <1>5, Zenon DEF later, all
<1>8. CASE PopPixel
  <2>1. at' = at /\ drained' = drained + 1 /\ drained # MASTER_BATCH_DRAIN
    BY <1>8 DEF PopPixel, BatchEnds
  <2>2. QED
    BY <1>1, <1>2, <1>3, <1>6, <1>7, <2>1
<1>9. CASE NextQueue
  <2>1. at' = at + 1 /\ drained' = 0
    BY <1>9 DEF NextQueue, After
  <2>2. QED
    BY <1>1, <1>2, <1>3, <1>6, <1>7, <2>1
<1>10. CASE Publish \/ NotDue
  BY <1>10 DEF Publish, NotDue
<1>11. ASSUME NEW w \in Worker, NEW p \in Pixel, Push(w, p)
       PROVE  TurnsLeft' = TurnsLeft /\ \E v \in Worker : Len(queues'[v]) > Len(queues[v])
  <2>1. queues \in [Worker -> Seq(Pixel)]
    BY DEF MasterInv, MasterTypeOK
  <2>2. Len(Append(queues[w], p)) = Len(queues[w]) + 1 /\ Len(queues[w]) \in Nat
    BY <2>1, AppendProperties, LenProperties
  <2>3. queues'[w] = Append(queues[w], p) /\ at' = at /\ drained' = drained
    BY <1>11, <2>1 DEF Push
  <2>4. QED
    BY <1>7, <2>2, <2>3
<1>12. QED
  BY <1>8, <1>9, <1>10, <1>11 DEF MasterNext, Run

(* For every number of workers, size of batch and speed of the workers, a   *)
(* pass of the master over its queues ends after (MASTER_BATCH_DRAIN + 1)   *)
(* turns for each queue at most (master.rs:102-113).                        *)
THEOREM PassIsBoundedHolds == MasterSpec => PassIsBounded
<1>1. MasterInv /\ [MasterNext]_masterVars
        => [(at \in Worker) =>
              \/ TurnsLeft' < TurnsLeft /\ TurnsLeft' \in Nat
              \/ TurnsLeft' = TurnsLeft /\ \E w \in Worker : Len(queues'[w]) > Len(queues[w])
           ]_masterVars
  BY PassStep
<1>2. QED
  BY <1>1, MasterInvariant, PTL DEF MasterSpec, PassIsBounded

-----------------------------------------------------------------------------
(* The load generator.                                                      *)

(* The users that a function puts into a state. *)
Occupants(f, state) == {u \in User : f[u] = state}

(* They are finitely many, and users in two states are different users. *)
LEMMA OccupantsCount ==
  ASSUME NEW f, NEW a, NEW b, a # b
  PROVE  /\ IsFiniteSet(Occupants(f, a)) /\ IsFiniteSet(Occupants(f, b))
         /\ Cardinality(Occupants(f, a)) \in Nat
         /\ Cardinality(Occupants(f, b)) \in Nat
         /\ Cardinality(User) \in Nat
         /\ Cardinality(Occupants(f, a)) + Cardinality(Occupants(f, b)) <= Cardinality(User)
<1> DEFINE A == Occupants(f, a)
           B == Occupants(f, b)
<1>1. IsFiniteSet(User) /\ Cardinality(User) \in Nat
  BY LoadClientAssumption, FS_CardinalityType
<1>2. A \in SUBSET User /\ B \in SUBSET User /\ A \cup B \in SUBSET User /\ A \cap B = {}
  BY DEF Occupants
<1> HIDE DEF A, B
<1>3. IsFiniteSet(A) /\ IsFiniteSet(B) /\ Cardinality(A \cup B) <= Cardinality(User)
  BY <1>1, <1>2, FS_Subset
<1>4. Cardinality(A) \in Nat /\ Cardinality(B) \in Nat
  BY <1>3, FS_CardinalityType
<1>5. Cardinality(A \cup B) = Cardinality(A) + Cardinality(B)
  <2>1. Cardinality(A \cup B) = Cardinality(A) + Cardinality(B) - Cardinality(A \cap B)
    BY <1>3, FS_Union
  <2>2. Cardinality(A \cap B) = 0
    BY <1>2, FS_EmptySet
  <2>3. QED
    BY <1>4, <2>1, <2>2
<1>6. QED
  BY <1>1, <1>3, <1>4, <1>5 DEF A, B

(* fetch_add of one to a counter that has room, and of usize::MAX to one    *)
(* that is not zero.                                                        *)
LEMMA AddOne ==
  ASSUME NEW a \in Nat, a + 1 < WORD
  PROVE  Add(a, 1) = a + 1
<1>1. WORD \in Nat \ {0} /\ a + 1 \in 0 .. WORD - 1
  BY LoadClientAssumption
<1>2. (a + 1) % WORD = a + 1
  BY <1>1, ModSmall, Zenon
<1>3. QED
  BY <1>2 DEF Add

LEMMA AddAllOnes ==
  ASSUME NEW a \in Nat, 0 < a, a < WORD
  PROVE  Add(a, WORD - 1) = a - 1
<1>1. WORD \in Nat \ {0} /\ a - 1 \in 0 .. WORD - 1 /\ 1 \in Int
  BY LoadClientAssumption
<1>2. (WORD * 1 + (a - 1)) % WORD = a - 1
  BY <1>1, ModIs, Zenon
<1>3. a + (WORD - 1) = WORD * 1 + (a - 1)
  BY <1>1
<1>4. QED
  BY <1>2, <1>3 DEF Add

(* fetch_add keeps a counter in its word. *)
LEMMA AddRange ==
  ASSUME NEW a \in Nat, NEW k \in Nat
  PROVE  Add(a, k) \in 0 .. WORD - 1
<1>1. WORD \in Nat /\ Cardinality(User) \in Nat /\ Cardinality(User) < WORD
  BY LoadClientAssumption, FS_CardinalityType
<1>2. WORD \in Nat \ {0} /\ a + k \in Int
  BY <1>1
<1>3. QED
  BY <1>2, ModRange, Zenon DEF Add

(* Between two rows, the exporter remembers what it reported. *)
ExporterInv == exporter = "sleep" => last = current

(* The inductive invariant.  That reported stays within a word is only so   *)
(* because the rates add up.                                                *)
ClientIInv == ClientInv /\ RowsAddUp /\ ExporterInv

(* Initially all users wait. *)
LEMMA InitClientInv == ClientInit => ClientIInv
<1> SUFFICES ASSUME ClientInit PROVE ClientIInv
  OBVIOUS
<1>1. WORD \in Nat /\ Cardinality(User) \in Nat /\ Cardinality(User) < WORD
  BY LoadClientAssumption, FS_CardinalityType
<1>2. /\ user = [u \in User |-> "waiting"]
      /\ active = 0 /\ failed = 0
      /\ count = Zero /\ current = Zero /\ last = Zero /\ reported = Zero
      /\ row = [active |-> 0, failed |-> 0, tx_pixels |-> 0, rate |-> Zero]
      /\ file \in BOOLEAN /\ exporter = "sleep"
  BY DEF ClientInit, OpenFile
<1>3. Zero \in [Counter -> 0 .. WORD - 1]
  BY <1>1 DEF Zero
<1>4. TypeOK
  <2>1. {active, failed} \subseteq 0 .. WORD - 1
    BY <1>1, <1>2
  <2>2. user \in [User -> {"waiting", "connecting", "active", "failed", "ended"}]
    BY <1>2
  <2>3. {count, current, last, reported} \subseteq [Counter -> 0 .. WORD - 1]
    BY <1>2, <1>3
  <2>4. QED
    BY <1>2, <2>1, <2>2, <2>3 DEF TypeOK
<1>5. In("active") = 0 /\ In("failed") = 0
  <2>1. {u \in User : user[u] = "active"} = {} /\ {u \in User : user[u] = "failed"} = {}
    BY <1>2
  <2>2. QED
    BY <2>1, FS_EmptySet DEF In
<1>6. CountsAreExact
  BY <1>1, <1>2, <1>5 DEF CountsAreExact
<1>7. RowsAddUp
  BY <1>2 DEF RowsAddUp, Zero, Counter
<1>8. QED
  BY <1>2, <1>4, <1>6, <1>7 DEF ClientIInv, ClientInv, ExporterInv

(* The bounds that the counts obey. *)
LEMMA CountBounds ==
  ASSUME ClientInv
  PROVE  /\ WORD \in Nat \ {0} /\ Cardinality(User) \in Nat /\ Cardinality(User) < WORD
         /\ active = Cardinality(Occupants(user, "active")) /\ active \in Nat
         /\ failed = Cardinality(Occupants(user, "failed")) /\ failed \in Nat
         /\ active + failed <= Cardinality(User)
         /\ DOMAIN user = User
         /\ IsFiniteSet(Occupants(user, "active")) /\ IsFiniteSet(Occupants(user, "failed"))
<1>1. /\ active = Cardinality(Occupants(user, "active"))
      /\ failed = Cardinality(Occupants(user, "failed"))
  BY DEF ClientInv, CountsAreExact, In, Occupants
<1>2. /\ IsFiniteSet(Occupants(user, "active")) /\ IsFiniteSet(Occupants(user, "failed"))
      /\ Cardinality(Occupants(user, "active")) \in Nat
      /\ Cardinality(Occupants(user, "failed")) \in Nat
      /\ Cardinality(User) \in Nat
      /\ Cardinality(Occupants(user, "active")) + Cardinality(Occupants(user, "failed"))
           <= Cardinality(User)
  <2>1. "active" # "failed"
    OBVIOUS
  <2>2. QED
    BY <2>1, OccupantsCount
<1>3. WORD \in Nat /\ Cardinality(User) < WORD
  BY LoadClientAssumption
<1>4. DOMAIN user = User
  BY DEF ClientInv, TypeOK
<1>5. QED
  BY <1>1, <1>2, <1>3, <1>4

(* A user fails: one more in failed, none less in active. *)
LEMMA UserFails ==
  ASSUME ClientInv, NEW u \in User, user[u] \in {"waiting", "connecting"},
         user' = [user EXCEPT ![u] = "failed"], failed' = Add(failed, 1),
         active' = active, row' = row
  PROVE  CountsAreExact' /\ {active', failed'} \subseteq 0 .. WORD - 1
<1>1. /\ WORD \in Nat \ {0} /\ Cardinality(User) \in Nat /\ Cardinality(User) < WORD
      /\ active = Cardinality(Occupants(user, "active")) /\ active \in Nat
      /\ failed = Cardinality(Occupants(user, "failed")) /\ failed \in Nat
      /\ active + failed <= Cardinality(User)
      /\ DOMAIN user = User
      /\ IsFiniteSet(Occupants(user, "active")) /\ IsFiniteSet(Occupants(user, "failed"))
  BY CountBounds
<1>2. /\ Cardinality(Occupants(user', "failed")) = failed + 1
      /\ Cardinality(Occupants(user', "active")) = active
  <2>1. /\ Occupants(user', "failed") = Occupants(user, "failed") \cup {u}
        /\ u \notin Occupants(user, "failed")
        /\ Occupants(user', "active") = Occupants(user, "active")
    BY <1>1 DEF Occupants
  <2> DEFINE A == Occupants(user, "failed")
  <2>2. IsFiniteSet(A) /\ u \notin A
    BY <1>1, <2>1
  <2> HIDE DEF A
  <2>3. Cardinality(A \cup {u}) = Cardinality(A) + 1
    BY <2>2, FS_AddElement
  <2>4. QED
    BY <1>1, <2>1, <2>3 DEF A
<1>3. Cardinality(Occupants(user', "active")) + Cardinality(Occupants(user', "failed"))
        <= Cardinality(User)
  <2>1. "active" # "failed"
    OBVIOUS
  <2>2. QED
    BY <2>1, OccupantsCount
<1>4. failed' = failed + 1
  BY <1>1, <1>2, <1>3, AddOne
<1>5. QED
  BY <1>1, <1>2, <1>3, <1>4 DEF CountsAreExact, In, Occupants, ClientInv

(* A user connects. *)
LEMMA UserConnects ==
  ASSUME ClientInv, NEW u \in User, user[u] = "connecting",
         user' = [user EXCEPT ![u] = "active"], active' = Add(active, 1),
         failed' = failed, row' = row
  PROVE  CountsAreExact' /\ {active', failed'} \subseteq 0 .. WORD - 1
<1>1. /\ WORD \in Nat \ {0} /\ Cardinality(User) \in Nat /\ Cardinality(User) < WORD
      /\ active = Cardinality(Occupants(user, "active")) /\ active \in Nat
      /\ failed = Cardinality(Occupants(user, "failed")) /\ failed \in Nat
      /\ active + failed <= Cardinality(User)
      /\ DOMAIN user = User
      /\ IsFiniteSet(Occupants(user, "active")) /\ IsFiniteSet(Occupants(user, "failed"))
  BY CountBounds
<1>2. /\ Cardinality(Occupants(user', "active")) = active + 1
      /\ Cardinality(Occupants(user', "failed")) = failed
  <2>1. /\ Occupants(user', "active") = Occupants(user, "active") \cup {u}
        /\ u \notin Occupants(user, "active")
        /\ Occupants(user', "failed") = Occupants(user, "failed")
    BY <1>1 DEF Occupants
  <2> DEFINE A == Occupants(user, "active")
  <2>2. IsFiniteSet(A) /\ u \notin A
    BY <1>1, <2>1
  <2> HIDE DEF A
  <2>3. Cardinality(A \cup {u}) = Cardinality(A) + 1
    BY <2>2, FS_AddElement
  <2>4. QED
    BY <1>1, <2>1, <2>3 DEF A
<1>3. Cardinality(Occupants(user', "active")) + Cardinality(Occupants(user', "failed"))
        <= Cardinality(User)
  <2>1. "active" # "failed"
    OBVIOUS
  <2>2. QED
    BY <2>1, OccupantsCount
<1>4. active' = active + 1
  BY <1>1, <1>2, <1>3, AddOne
<1>5. QED
  BY <1>1, <1>2, <1>3, <1>4 DEF CountsAreExact, In, Occupants, ClientInv

(* A connection ends: adding usize::MAX takes one off. *)
LEMMA UserEnds ==
  ASSUME ClientInv, NEW u \in User, user[u] = "active",
         user' = [user EXCEPT ![u] = "ended"], active' = Add(active, WORD - 1),
         failed' = failed, row' = row
  PROVE  CountsAreExact' /\ {active', failed'} \subseteq 0 .. WORD - 1
<1>1. /\ WORD \in Nat \ {0} /\ Cardinality(User) \in Nat /\ Cardinality(User) < WORD
      /\ active = Cardinality(Occupants(user, "active")) /\ active \in Nat
      /\ failed = Cardinality(Occupants(user, "failed")) /\ failed \in Nat
      /\ active + failed <= Cardinality(User)
      /\ DOMAIN user = User
      /\ IsFiniteSet(Occupants(user, "active")) /\ IsFiniteSet(Occupants(user, "failed"))
  BY CountBounds
<1>2. /\ Cardinality(Occupants(user', "active")) = active - 1
      /\ Cardinality(Occupants(user', "failed")) = failed
  <2>1. /\ Occupants(user', "active") = Occupants(user, "active") \ {u}
        /\ u \in Occupants(user, "active")
        /\ Occupants(user', "failed") = Occupants(user, "failed")
    BY <1>1 DEF Occupants
  <2> DEFINE A == Occupants(user, "active")
  <2>2. IsFiniteSet(A) /\ u \in A
    BY <1>1, <2>1
  <2> HIDE DEF A
  <2>3. Cardinality(A \ {u}) = Cardinality(A) - 1
    BY <2>2, FS_RemoveElement
  <2>4. QED
    BY <1>1, <2>1, <2>3 DEF A
<1>3. Cardinality(Occupants(user', "active")) \in Nat
  <2>1. "active" # "failed"
    OBVIOUS
  <2>2. QED
    BY <2>1, OccupantsCount
<1>4. active' = active - 1
  BY <1>1, <1>2, <1>3, AddAllOnes
<1>5. QED
  BY <1>1, <1>2, <1>3, <1>4 DEF CountsAreExact, In, Occupants, ClientInv

(* A user that goes from waiting to connecting is not counted. *)
LEMMA UserWaits ==
  ASSUME ClientInv, NEW u \in User, user[u] = "waiting",
         user' = [user EXCEPT ![u] = "connecting"], active' = active,
         failed' = failed, row' = row
  PROVE  CountsAreExact' /\ {active', failed'} \subseteq 0 .. WORD - 1
<1>1. /\ WORD \in Nat \ {0} /\ Cardinality(User) \in Nat /\ Cardinality(User) < WORD
      /\ active = Cardinality(Occupants(user, "active")) /\ active \in Nat
      /\ failed = Cardinality(Occupants(user, "failed")) /\ failed \in Nat
      /\ active + failed <= Cardinality(User)
      /\ DOMAIN user = User
      /\ IsFiniteSet(Occupants(user, "active")) /\ IsFiniteSet(Occupants(user, "failed"))
  BY CountBounds
<1>2. /\ Cardinality(Occupants(user', "active")) = active
      /\ Cardinality(Occupants(user', "failed")) = failed
  <2>1. /\ Occupants(user', "active") = Occupants(user, "active")
        /\ Occupants(user', "failed") = Occupants(user, "failed")
    BY <1>1 DEF Occupants
  <2>2. QED
    BY <1>1, <2>1
<1>3. QED
  BY <1>1, <1>2 DEF CountsAreExact, In, Occupants, ClientInv

(* A step of a user. *)
LEMMA UserStep ==
  ASSUME ClientIInv, NEW u \in User,
         StartConnecting(u) \/ Connected(u) \/ Disconnected(u)
  PROVE  ClientIInv'
<1>1. TypeOK /\ CountsAreExact /\ RowsAddUp /\ ExporterInv /\ ClientInv
  BY DEF ClientIInv, ClientInv
<1>2. UNCHANGED <<count, exporterVars>>
  BY DEF StartConnecting, Connected, Disconnected
<1>3. count' = count /\ current' = current /\ last' = last /\ reported' = reported
      /\ row' = row /\ file' = file /\ exporter' = exporter
  BY <1>2 DEF exporterVars
<1>4. CountsAreExact' /\ {active', failed'} \subseteq 0 .. WORD - 1
  <2>1. CASE user' = [user EXCEPT ![u] = "failed"] /\ failed' = Add(failed, 1)
             /\ active' = active /\ user[u] \in {"waiting", "connecting"}
    BY <1>1, <1>3, <2>1, UserFails
  <2>2. CASE user' = [user EXCEPT ![u] = "connecting"] /\ failed' = failed
             /\ active' = active /\ user[u] = "waiting"
    BY <1>1, <1>3, <2>2, UserWaits
  <2>3. CASE user' = [user EXCEPT ![u] = "active"] /\ failed' = failed
             /\ active' = Add(active, 1) /\ user[u] = "connecting"
    BY <1>1, <1>3, <2>3, UserConnects
  <2>4. CASE user' = [user EXCEPT ![u] = "ended"] /\ failed' = failed
             /\ active' = Add(active, WORD - 1) /\ user[u] = "active"
    BY <1>1, <1>3, <2>4, UserEnds
  <2>5. QED
    BY <2>1, <2>2, <2>3, <2>4 DEF StartConnecting, Connected, Disconnected
<1>5. user' \in [User -> {"waiting", "connecting", "active", "failed", "ended"}]
  BY <1>1 DEF TypeOK, StartConnecting, Connected, Disconnected
<1>6. TypeOK'
  BY <1>1, <1>3, <1>4, <1>5 DEF TypeOK
<1>7. QED
  BY <1>1, <1>3, <1>4, <1>6 DEF ClientIInv, ClientInv, RowsAddUp, ExporterInv

(* Traffic of a user changes the counters of traffic only. *)
LEMMA TrafficStep ==
  ASSUME ClientIInv, NEW u \in User, ReadDatagram(u) \/ SendPixel(u)
  PROVE  ClientIInv'
<1>1. TypeOK /\ CountsAreExact /\ RowsAddUp /\ ExporterInv
  BY DEF ClientIInv, ClientInv
<1>2. UNCHANGED <<user, active, failed, current, last, reported, row, file, exporter>>
  BY DEF ReadDatagram, SendPixel, exporterVars
<1>3. count \in [Counter -> 0 .. WORD - 1] /\ WORD \in Nat /\ DGRAM_LEN \in Nat
  BY <1>1, LoadClientAssumption DEF TypeOK
<1>4. \A c \in Counter : count[c] \in Nat
  BY <1>3
<1>5. /\ Add(count["rx_datagrams"], 1) \in 0 .. WORD - 1
      /\ Add(count["rx_bytes"], DGRAM_LEN) \in 0 .. WORD - 1
      /\ Add(count["tx_pixels"], 1) \in 0 .. WORD - 1
  BY <1>3, <1>4, AddRange DEF Counter
<1>6. count' \in [Counter -> 0 .. WORD - 1]
  <2>1. CASE ReadDatagram(u)
    BY <1>3, <1>5, <2>1 DEF ReadDatagram, Counter
  <2>2. CASE SendPixel(u)
    BY <1>3, <1>5, <2>2 DEF SendPixel, Counter
  <2>3. QED
    BY <2>1, <2>2
<1>7. TypeOK'
  BY <1>1, <1>2, <1>6 DEF TypeOK
<1>8. QED
  BY <1>1, <1>2, <1>7 DEF ClientIInv, ClientInv, CountsAreExact, In, RowsAddUp, ExporterInv

(* Making a row: what was reported before is what is remembered, so the     *)
(* rates of all rows telescope.                                             *)
LEMMA MakeRowStep ==
  ASSUME ClientIInv, MakeRow
  PROVE  ClientIInv'
<1>1. TypeOK /\ CountsAreExact /\ RowsAddUp /\ ExporterInv /\ ClientInv
  BY DEF ClientIInv, ClientInv
<1>2. /\ exporter = "sleep" /\ current' = count
      /\ UNCHANGED <<user, active, failed, count, file>>
      /\ row'.active = active /\ row'.failed = failed
      /\ row'.tx_pixels = count["tx_pixels"]
      /\ reported' = [c \in Counter |-> reported[c] + (count[c] - last[c])]
      /\ \/ file /\ exporter' = "write" /\ last' = last
         \/ ~ file /\ exporter' = exporter /\ last' = count
  BY DEF MakeRow, userVars
<1>3. {count, current, last, reported} \subseteq [Counter -> 0 .. WORD - 1] /\ WORD \in Nat
  BY <1>1, LoadClientAssumption DEF TypeOK
<1>4. reported = last
  BY <1>1, <1>2 DEF RowsAddUp, ExporterInv
<1>5. \A c \in Counter : reported[c] + (count[c] - last[c]) = count[c]
  BY <1>3, <1>4
<1>6. reported' = count
  BY <1>2, <1>3, <1>5
<1>7. TypeOK'
  BY <1>1, <1>2, <1>3, <1>6 DEF TypeOK
<1>8. CountsAreExact'
  <2>1. active + failed <= Cardinality(User)
    BY <1>1, CountBounds
  <2>2. QED
    BY <1>1, <1>2, <2>1 DEF CountsAreExact, In
<1>9. RowsAddUp' /\ ExporterInv'
  BY <1>2, <1>6 DEF RowsAddUp, ExporterInv
<1>10. QED
  BY <1>7, <1>8, <1>9 DEF ClientIInv, ClientInv

(* The row is written: the exporter remembers the copy that it reported. *)
LEMMA RowWrittenStep ==
  ASSUME ClientIInv, RowWritten
  PROVE  ClientIInv'
BY DEF ClientIInv, ClientInv, TypeOK, CountsAreExact, In, RowsAddUp, ExporterInv,
       RowWritten, Remembered, userVars

(* Every step preserves the invariant. *)
LEMMA ClientStep == ClientIInv /\ [ClientNext]_clientVars => ClientIInv'
<1> SUFFICES ASSUME ClientIInv, [ClientNext]_clientVars PROVE ClientIInv'
  OBVIOUS
<1>1. CASE UNCHANGED clientVars
  BY <1>1 DEF clientVars, userVars, exporterVars, ClientIInv, ClientInv, TypeOK,
              CountsAreExact, In, RowsAddUp, ExporterInv
<1>2. CASE \E u \in User : StartConnecting(u) \/ Connected(u) \/ Disconnected(u)
  BY <1>2, UserStep
<1>3. CASE \E u \in User : ReadDatagram(u) \/ SendPixel(u)
  BY <1>3, TrafficStep
<1>4. QED
  BY <1>1, <1>2, <1>3, MakeRowStep, RowWrittenStep DEF ClientNext

(* For every number of users below 2^64: the counters of the load generator *)
(* are exact although a connection that ends adds usize::MAX (main.rs:135), *)
(* and no row counts more users than there are.                             *)
THEOREM ClientInvariant == ClientSpec => []ClientInv
<1>1. ClientIInv => ClientInv
  BY DEF ClientIInv
<1>2. QED
  BY <1>1, InitClientInv, ClientStep, PTL DEF ClientSpec

(* For every number of users and traffic: the rates of all rows add up to   *)
(* the counters of the last one, whatever happens while a row is written.   *)
THEOREM RowsAddUpHolds == ClientSpec => []RowsAddUp
<1>1. ClientIInv => RowsAddUp
  BY DEF ClientIInv
<1>2. QED
  BY <1>1, InitClientInv, ClientStep, PTL DEF ClientSpec
=============================================================================
