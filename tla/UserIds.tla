------------------------------ MODULE UserIds ------------------------------
(***************************************************************************)
(* The user ids of one worker (server/src/const_settings.rs): as many as   *)
(* it may have connections.  The connection table hands them out, the      *)
(* cooldown is kept by them.                                               *)
(***************************************************************************)
EXTENDS Integers

CONSTANT MAX_CONNECTIONS_PER_WORKER

ASSUME UsersAssumption == MAX_CONNECTIONS_PER_WORKER \in Nat \ {0}

User == 0 .. MAX_CONNECTIONS_PER_WORKER - 1
=============================================================================
