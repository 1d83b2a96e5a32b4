----------------------------- MODULE MCIngress -----------------------------
(* Instance of Ingress; connection ids are interchangeable. *)
EXTENDS Ingress, TLC

Symmetry == Permutations(ConnId)
=============================================================================
