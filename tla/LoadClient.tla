----------------------------- MODULE LoadClient -----------------------------
(***************************************************************************)
(* The load generator (client/src/main.rs, client/src/metrics.rs): users   *)
(* that connect, receive and place pixels, the counters they share, and    *)
(* the exporter that makes a row of them every second.  All are tasks of   *)
(* one thread, so a task runs undisturbed from one await to the next; the  *)
(* exporter waits for its file between taking the counters and remembering *)
(* them.                                                                   *)
(*                                                                         *)
(* Network, server and file are external: any await may end well or badly. *)
(***************************************************************************)
EXTENDS Integers, FiniteSets

CONSTANTS
  User,
  WORD,        \* 2^64: counters wrap
  DGRAM_LEN,   \* bytes of a datagram from the server
  MAX_COUNT    \* bound on pixels sent and on datagrams received

ASSUME LoadClientAssumption ==
  /\ IsFiniteSet(User) /\ Cardinality(User) < WORD
  /\ {WORD, DGRAM_LEN, MAX_COUNT} \subseteq Nat
  /\ MAX_COUNT < WORD /\ MAX_COUNT * DGRAM_LEN < WORD

VARIABLES
  user,           \* where each user is
  active, failed, \* LoadMetrics: connections open and failed
  count,          \* LoadMetrics: tx_pixels, rx_datagrams and rx_bytes
  file,           \* a metrics file could be opened
  exporter,       \* what it awaits
  current, last,  \* the exporter's copies of count
  row,            \* the row it made last
  reported        \* history: sum of the rates of all rows made, also of
                  \* those whose write failed or that had no file

userVars == <<user, active, failed, count>>
exporterVars == <<file, exporter, current, last, row, reported>>
clientVars == <<userVars, exporterVars>>

Counter == {"tx_pixels", "rx_datagrams", "rx_bytes"}
Zero == [c \in Counter |-> 0]

(* The exporter opens its file, or the fallback, or neither. *)
OpenFile == file \in BOOLEAN

ClientInit ==
  /\ user = [u \in User |-> "waiting"]
  /\ active = 0 /\ failed = 0
  /\ count = Zero
  /\ OpenFile
  /\ exporter = "sleep"
  /\ current = Zero /\ last = Zero /\ reported = Zero
  /\ row = [active |-> 0, failed |-> 0, tx_pixels |-> 0, rate |-> Zero]

-----------------------------------------------------------------------------
(* AlignedAtomic::add is fetch_add, which wraps. *)
Add_Saturating(a, n) == IF a + n >= WORD THEN WORD - 1 ELSE a + n
Add(a, n) == (a + n) % WORD

(* The jitter is over: endpoint.connect fails at once, or is awaited. *)
StartConnecting(u) ==
  /\ user[u] = "waiting"
  /\ \/ /\ user' = [user EXCEPT ![u] = "connecting"]
        /\ UNCHANGED failed
     \/ /\ user' = [user EXCEPT ![u] = "failed"]
        /\ failed' = Add(failed, 1)
  /\ UNCHANGED <<active, count, exporterVars>>
Connected(u) ==
  /\ user[u] = "connecting"
  /\ \/ /\ user' = [user EXCEPT ![u] = "active"]
        /\ active' = Add(active, 1)
        /\ UNCHANGED failed
     \/ /\ user' = [user EXCEPT ![u] = "failed"]
        /\ failed' = Add(failed, 1)
        /\ UNCHANGED active
  /\ UNCHANGED <<count, exporterVars>>

(* The two branches of select!, and the error that ends the loop in either. *)
ReadDatagram(u) ==
  /\ user[u] = "active"
  /\ count["rx_datagrams"] < MAX_COUNT
  /\ count' = [count EXCEPT !["rx_datagrams"] = Add(@, 1), !["rx_bytes"] = Add(@, DGRAM_LEN)]
  /\ UNCHANGED <<user, active, failed, exporterVars>>
SendPixel(u) ==
  /\ user[u] = "active"
  /\ count["tx_pixels"] < MAX_COUNT
  /\ count' = [count EXCEPT !["tx_pixels"] = Add(@, 1)]
  /\ UNCHANGED <<user, active, failed, exporterVars>>
Disconnected(u) ==
  /\ user[u] = "active"
  /\ user' = [user EXCEPT ![u] = "ended"]
  /\ active' = Add(active, WORD - 1)
  /\ UNCHANGED <<failed, count, exporterVars>>

(* The exporter wakes up, reads the counters and makes a row ... *)
MakeRow ==
  LET rate == [c \in Counter |-> count[c] - last[c]]
  IN  /\ exporter = "sleep"
      /\ current' = count
      /\ row' = [active |-> active, failed |-> failed, tx_pixels |-> count["tx_pixels"],
                 rate |-> rate]
      /\ reported' = [c \in Counter |-> reported[c] + rate[c]]
      /\ IF file THEN exporter' = "write" /\ UNCHANGED last
                 ELSE last' = count /\ UNCHANGED exporter
      /\ UNCHANGED <<userVars, file>>
(* ... and goes on when it is written; an error is ignored. *)
Remembered_Reread == count
Remembered == current
RowWritten ==
  /\ exporter = "write"
  /\ exporter' = "sleep"
  /\ last' = Remembered
  /\ UNCHANGED <<userVars, file, current, row, reported>>

ClientNext ==
  \/ \E u \in User :
       \/ StartConnecting(u) \/ Connected(u) \/ Disconnected(u)
       \/ ReadDatagram(u) \/ SendPixel(u)
  \/ MakeRow \/ RowWritten
ClientSpec == ClientInit /\ [][ClientNext]_clientVars

-----------------------------------------------------------------------------
In(state) == Cardinality({u \in User : user[u] = state})

(* Every variable has its type. *)
TypeOK ==
  /\ user \in [User -> {"waiting", "connecting", "active", "failed", "ended"}]
  /\ {active, failed} \subseteq 0 .. WORD - 1
  /\ {count, current, last, reported} \subseteq [Counter -> 0 .. WORD - 1]
  /\ file \in BOOLEAN /\ exporter \in {"sleep", "write"}

(* The counters are what they are called, although a connection that ends   *)
(* is taken off by adding usize::MAX (main.rs:135), and a row never counts  *)
(* more users than there are.                                               *)
CountsAreExact ==
  /\ active = In("active")
  /\ failed = In("failed")
  /\ row.active + row.failed <= Cardinality(User)

(* The types and the counters. *)
ClientInv == TypeOK /\ CountsAreExact

(* The rates of all rows made, whether or not their write succeeded, add up *)
(* to the counters of the last one, whatever happens while a row is being   *)
(* written (metrics.rs:116-121): no second is counted twice or not at all.  *)
RowsAddUp == reported = current /\ row.tx_pixels = reported["tx_pixels"]
=============================================================================
