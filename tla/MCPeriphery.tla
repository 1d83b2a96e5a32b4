---------------------------- MODULE MCPeriphery ----------------------------
(***************************************************************************)
(* The two programs at the edge of the system: a start of the server and   *)
(* the load generator.  They share no state, so a behaviour is one of the  *)
(* first or one of the second, and not an interleaving of both.            *)
(***************************************************************************)
EXTENDS Startup, LoadClient, TLC

VARIABLE part  \* the program that runs

Init ==
  /\ part \in {"startup", "client"}
  /\ StartupInit /\ ClientInit
  /\ part = "startup" => file = TRUE
  /\ part = "client" => num_cores = 1 /\ num_workers_arg = None

Next ==
  \/ /\ part = "startup" /\ StartupNext
     /\ UNCHANGED <<part, clientVars>>
  \/ /\ part = "client" /\ ClientNext
     /\ UNCHANGED <<part, startupVars>>
Spec == Init /\ [][Next]_<<part, startupVars, clientVars>>

UserSymmetry == Permutations(User)
=============================================================================
