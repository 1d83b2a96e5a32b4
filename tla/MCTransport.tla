---------------------------- MODULE MCTransport ----------------------------
(***************************************************************************)
(* The connection table, and the clock with its timers, the throttle of    *)
(* the table's sweep among them.  They share no state, so a behaviour is   *)
(* one of the first or one of the second.                                  *)
(*                                                                         *)
(* There are more connection ids than user ids, so that ids of dead        *)
(* connections come back as ids of new ones while the worker is full.  A   *)
(* second is two milliseconds.                                             *)
(***************************************************************************)
EXTENDS Transport, Clock

VARIABLE part  \* what runs

allVars == <<part, tableVars, vars>>
Table(A) == part = "table" /\ A /\ UNCHANGED <<part, vars>>
Timer(A) == part = "clock" /\ A /\ UNCHANGED <<part, tableVars>>

MCInit ==
  /\ part \in {"table", "clock"}
  /\ TransportInit /\ Init
  /\ part = "table" => system_ms = 0
MCNext == Table(TransportNext) \/ Timer(Next)

(* The fairness of both. *)
MCSpec ==
  /\ MCInit /\ [][MCNext]_allVars
  /\ WF_allVars(Table(MaintainConnections))
  /\ WF_allVars(Timer(Update))
  /\ WF_allVars(Timer(MasterCheck))
  /\ WF_allVars(Timer(ThrottleSweep))
=============================================================================
