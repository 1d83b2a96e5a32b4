------------------------------ MODULE Startup ------------------------------
(***************************************************************************)
(* A start of the server (main, server/src/main.rs): the certificate files *)
(* that survive it, the choice of the number of workers, the assignment of *)
(* cores, and the load of the files by every worker (TransportState::new,  *)
(* server/src/transport.rs).  A start may be cut short anywhere, by a crash*)
(* or by a write that fails, and the server is then started again.         *)
(*                                                                         *)
(* fs::write creates or empties the file and then fills it.  A file is     *)
(* Absent, Broken (empty or cut off) or the number of the key pair that it *)
(* belongs to.                                                             *)
(***************************************************************************)
EXTENDS Integers, FiniteSets

CONSTANTS
  MAX_CORES, MAX_WORKERS,  \* bounds on the machine and on the argument -w
  MAX_STARTS               \* bound on starts

ASSUME StartupAssumption == {MAX_CORES, MAX_WORKERS, MAX_STARTS} \subseteq Nat \ {0}

VARIABLES
  pc,
  cert_crt, key_key,   \* the files
  pair,                \* number of the key pair generated last
  starts,
  num_cores, num_workers_arg,
  worker_cores,        \* the core of each worker
  loaded               \* workers that have loaded the files

startupVars == <<pc, cert_crt, key_key, pair, starts, num_cores, num_workers_arg, worker_cores, loaded>>
fileVars == <<cert_crt, key_key, pair>>
coreVars == <<starts, num_cores, num_workers_arg, worker_cores, loaded>>

None == 0 - 1
Absent == 0
Broken == 0 - 1

StartupInit ==
  /\ pc = "check"
  /\ cert_crt = Absent /\ key_key = Absent
  /\ pair = 0
  /\ starts = 1
  /\ num_cores \in 1 .. MAX_CORES
  /\ num_workers_arg \in {None} \cup (0 .. MAX_WORKERS)
  /\ worker_cores = << >>
  /\ loaded = 0

-----------------------------------------------------------------------------
(* create_certificates. *)
Exists_CertOnly == cert_crt # Absent
Exists == cert_crt # Absent /\ key_key # Absent
CheckFiles ==
  /\ pc = "check"
  /\ IF Exists THEN pc' = "topology" /\ UNCHANGED pair
               ELSE pc' = "open_cert" /\ pair' = pair + 1
  /\ UNCHANGED <<cert_crt, key_key, coreVars>>
WriteCert ==
  /\ \/ pc = "open_cert" /\ pc' = "fill_cert" /\ cert_crt' = Broken
     \/ pc = "fill_cert" /\ pc' = "open_key" /\ cert_crt' = pair
  /\ UNCHANGED <<key_key, pair, coreVars>>
WriteKey ==
  /\ \/ pc = "open_key" /\ pc' = "fill_key" /\ key_key' = Broken
     \/ pc = "fill_key" /\ pc' = "topology" /\ key_key' = pair
  /\ UNCHANGED <<cert_crt, pair, coreVars>>

(* Number of workers and partition of the cores; core_ids[c] is c. *)
NumWorkers ==
  IF num_workers_arg # None THEN num_workers_arg
  ELSE IF num_cores > 0 THEN num_cores - 1 ELSE 0
CoreOf_FromZero(i) == i % num_cores
CoreOf(i) == (i + 1) % num_cores
Topology ==
  /\ pc = "topology"
  /\ IF NumWorkers = 0 \/ (num_cores < 2 /\ num_workers_arg = None)
     THEN pc' = "panicked" /\ UNCHANGED worker_cores
     ELSE pc' = "load" /\ worker_cores' = [i \in 0 .. NumWorkers - 1 |-> CoreOf(i)]
  /\ UNCHANGED <<fileVars, starts, num_cores, num_workers_arg, loaded>>

(* WorkerCore::new for each worker; the master then runs. *)
Usable == cert_crt > 0 /\ key_key = cert_crt
LoadFiles ==
  /\ pc = "load"
  /\ IF ~ Usable THEN pc' = "panicked" /\ UNCHANGED loaded
     ELSE /\ loaded' = loaded + 1
          /\ pc' = IF loaded' = NumWorkers THEN "running" ELSE "load"
  /\ UNCHANGED <<fileVars, starts, num_cores, num_workers_arg, worker_cores>>

(* A start is cut short, fails, or has been running: the next one finds the *)
(* files as they are, perhaps on another machine or with other arguments.   *)
Restart ==
  /\ starts < MAX_STARTS
  /\ starts' = starts + 1
  /\ pc' = "check"
  /\ num_cores' \in 1 .. MAX_CORES
  /\ num_workers_arg' \in {None} \cup (0 .. MAX_WORKERS)
  /\ worker_cores' = << >>
  /\ loaded' = 0
  /\ UNCHANGED fileVars

StartupNext == CheckFiles \/ WriteCert \/ WriteKey \/ Topology \/ LoadFiles \/ Restart
StartupSpec == StartupInit /\ [][StartupNext]_startupVars

-----------------------------------------------------------------------------
(* transport.rs:63 counts on main for the files.  Wherever earlier starts   *)
(* were cut short, a worker finds two whole files of one key pair, but for  *)
(* one case: key.key was created and not filled (main.rs:38).               *)
FilesLoad == pc = "load" => cert_crt > 0 /\ key_key \in {cert_crt, Broken}

(* Workers are spread over the cores evenly, and the master's core, the     *)
(* first, is the last to get another one (main.rs:78-80).                   *)
CoresShared ==
  LET On(c) == Cardinality({i \in DOMAIN worker_cores : worker_cores[i] = c})
  IN  pc = "running" => \A c \in 0 .. num_cores - 1 : On(c) - On(0) \in {0, 1}
=============================================================================
