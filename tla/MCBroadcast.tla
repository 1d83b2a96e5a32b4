---------------------------- MODULE MCBroadcast ----------------------------
(* Instance of Broadcast on two cells: a full canvas and a diff are each    *)
(* one chunk or two, with a queue for one.                                  *)
EXTENDS Broadcast
=============================================================================
