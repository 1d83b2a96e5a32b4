----------------------------- MODULE Transport -----------------------------
(***************************************************************************)
(* TransportState (server/src/transport.rs): the QUIC connections of one   *)
(* worker.  A connection is kept under the source id that the server drew  *)
(* for it; until the client has learnt that id, its packets carry the      *)
(* destination id that the client drew, which cid_map leads back to the    *)
(* connection.  Each connection owns a user id, the key of its cooldown.   *)
(*                                                                         *)
(* The hash map of tuples is a set of live source ids and one function per *)
(* field of the tuple.  quiche's Connection is external: of it the model   *)
(* keeps whether the handshake is done and whether the connection is over. *)
(***************************************************************************)
EXTENDS UserIds, Sequences

CONSTANT ConnId   \* connection ids, of clients and of the server

VARIABLES
  connections,    \* source ids of the live connections
  user_id,        \* tuple.0 of each
  conn,           \* tuple.1 of each: the state of the quiche connection
  dcid_of,        \* tuple.2 of each
  cid_map,        \* client's destination id -> source id
  free_user_ids   \* a Vec used as a stack

fields == <<user_id, conn, dcid_of>>
tableVars == <<connections, user_id, conn, dcid_of, cid_map, free_user_ids>>

ConnState == {"handshaking", "established", "closed"}
PacketType == {"Initial", "Other"}

(* Elements of a stack. *)
Elems(s) == {s[i] : i \in 1 .. Len(s)}

TransportInit ==
  /\ connections = {}
  /\ user_id = << >>
  /\ conn = << >>
  /\ dcid_of = << >>
  /\ cid_map = << >>
  /\ free_user_ids = [i \in 1 .. MAX_CONNECTIONS_PER_WORKER |-> i - 1]

-----------------------------------------------------------------------------
(* quiche: a packet or a timeout may finish the handshake or the            *)
(* connection, and neither is ever undone.                                  *)
ConnAfter(state) ==
  CASE state = "handshaking" -> ConnState
    [] state = "established" -> {"established", "closed"}
    [] state = "closed"      -> {"closed"}

(* The connection that a packet for this destination id belongs to, if any. *)
Resolve(dcid) == IF dcid \in DOMAIN cid_map THEN cid_map[dcid] ELSE dcid

(* A packet of a connection the worker has: conn.recv. *)
RecvKnown(dcid) ==
  LET s == Resolve(dcid)
  IN  /\ s \in connections
      /\ \E after \in ConnAfter(conn[s]) : conn' = [conn EXCEPT ![s] = after]
      /\ UNCHANGED <<connections, user_id, dcid_of, cid_map, free_user_ids>>

(* Only an Initial packet opens a connection. *)
DropUnknown(dcid, ty) ==
  /\ Resolve(dcid) \notin connections
  /\ ty # "Initial"
  /\ UNCHANGED tableVars

(* Every user id is taken: Err(Done). *)
RejectAtCapacity(dcid, ty) ==
  /\ Resolve(dcid) \notin connections
  /\ ty = "Initial"
  /\ free_user_ids = << >>
  /\ UNCHANGED tableVars

(* quiche::accept fails; no user id has been taken yet. *)
AcceptFails_IdTaken(dcid, ty) ==
  /\ Resolve(dcid) \notin connections
  /\ ty = "Initial"
  /\ free_user_ids # << >>
  /\ free_user_ids' = SubSeq(free_user_ids, 1, Len(free_user_ids) - 1)
  /\ UNCHANGED <<connections, fields, cid_map>>
AcceptFails(dcid, ty) ==
  /\ Resolve(dcid) \notin connections
  /\ ty = "Initial"
  /\ free_user_ids # << >>
  /\ UNCHANGED tableVars

(* A new connection under a random source id: 20 random bytes, taken to     *)
(* differ from every id in use.  The Initial packet is then received on it. *)
AcceptNew(dcid, ty, scid) ==
  LET n == Len(free_user_ids)
      With(f, x) == [s \in connections \cup {scid} |-> IF s = scid THEN x ELSE f[s]]
  IN  /\ Resolve(dcid) \notin connections
      /\ ty = "Initial"
      /\ n > 0
      /\ scid \notin connections \cup DOMAIN cid_map \cup {dcid}
      /\ connections' = connections \cup {scid}
      /\ user_id' = With(user_id, free_user_ids[n])
      /\ dcid_of' = With(dcid_of, dcid)
      /\ \E after \in ConnAfter("handshaking") : conn' = With(conn, after)
      /\ cid_map' = [d \in DOMAIN cid_map \cup {dcid} |->
                       IF d = dcid THEN scid ELSE cid_map[d]]
      /\ free_user_ids' = SubSeq(free_user_ids, 1, n - 1)

HandleIncoming(dcid, ty) ==
  \/ RecvKnown(dcid)
  \/ DropUnknown(dcid, ty)
  \/ RejectAtCapacity(dcid, ty)
  \/ AcceptFails(dcid, ty)
  \/ \E scid \in ConnId : AcceptNew(dcid, ty, scid)

-----------------------------------------------------------------------------
(* The order in which the hash map yields the freed ids is arbitrary. *)
Orderings(S) ==
  {f \in UNION {[1 .. n -> S] : n \in 0 .. MAX_CONNECTIONS_PER_WORKER} :
     /\ \A i, j \in DOMAIN f : f[i] = f[j] => i = j
     /\ \A x \in S : \E i \in DOMAIN f : f[i] = x}

(* The destination ids that cleanup_connections takes out of cid_map. *)
FreedDcids_Everyone(gone) == DOMAIN cid_map
FreedDcids(gone) == {dcid_of[s] : s \in gone}

(* The user ids that it gives back. *)
FreedIds_None(gone) == {}
FreedIds(gone) == {user_id[s] : s \in gone}

(* The part of a function over the connections that are kept. *)
Retain(f, kept) == [s \in kept |-> f[s]]

(* maintain_connections: on_timeout of every connection, then               *)
(* cleanup_connections of the ones that are closed.  expired are those that *)
(* their own on_timeout closes.                                             *)
MaintainConnections ==
  \E expired \in SUBSET connections :
    LET gone == {s \in connections : conn[s] = "closed" \/ s \in expired}
        kept == connections \ gone
    IN  /\ connections' = kept
        /\ user_id' = Retain(user_id, kept)
        /\ conn' = Retain(conn, kept)
        /\ dcid_of' = Retain(dcid_of, kept)
        /\ cid_map' = [d \in DOMAIN cid_map \ FreedDcids(gone) |-> cid_map[d]]
        /\ \E freed \in Orderings(FreedIds(gone)) :
             free_user_ids' = free_user_ids \o freed

TransportNext ==
  \/ \E dcid \in ConnId, ty \in PacketType : HandleIncoming(dcid, ty)
  \/ MaintainConnections

SafeSpec == TransportInit /\ [][TransportNext]_tableVars

(* run_linux calls maintain_connections on every pass of its loop, and the  *)
(* sweep runs once the clock has advanced by CONN_TIMEOUT_THROTTLE_MS.      *)
TransportSpec == SafeSpec /\ WF_tableVars(MaintainConnections)

-----------------------------------------------------------------------------
(* Every variable has its type. *)
TransportTypeOK ==
  /\ connections \in SUBSET ConnId
  /\ user_id \in [connections -> User]
  /\ conn \in [connections -> ConnState]
  /\ dcid_of \in [connections -> ConnId]
  /\ DOMAIN cid_map \in SUBSET ConnId
  /\ cid_map \in [DOMAIN cid_map -> connections]
  /\ free_user_ids \in Seq(User)

(* User ids are conserved: each is either free, once, or owned by exactly   *)
(* one live connection.  No two connections share a cooldown, and a failed  *)
(* accept or a closed connection never costs the worker a place.            *)
IdsConserved ==
  /\ \A i, j \in 1 .. Len(free_user_ids) :
       free_user_ids[i] = free_user_ids[j] => i = j
  /\ \A s, t \in connections : user_id[s] = user_id[t] => s = t
  /\ \A s \in connections : user_id[s] \notin Elems(free_user_ids)
  /\ \A u \in User :
       u \in Elems(free_user_ids) \/ \E s \in connections : user_id[s] = u

(* cid_map holds exactly one entry per live connection, that of its own     *)
(* destination id, and never shadows a source id: a packet for either id of *)
(* a connection reaches that connection.                                    *)
RoutesAgree ==
  /\ \A s \in connections : dcid_of[s] \in DOMAIN cid_map /\ cid_map[dcid_of[s]] = s
  /\ \A d \in DOMAIN cid_map : dcid_of[cid_map[d]] = d
  /\ DOMAIN cid_map \cap connections = {}

(* The inductive invariant. *)
TransportInv == TransportTypeOK /\ IdsConserved /\ RoutesAgree

(* Packets of a client stay with its connection: as long as the connection  *)
(* lives, no accept and no cleanup of another connection moves the          *)
(* connection id of a packet elsewhere, and its user id does not change.    *)
RoutesAreSticky ==
  [][\A dcid \in ConnId :
       Resolve(dcid) \in connections /\ Resolve(dcid) \in connections'
         => /\ Resolve(dcid)' = Resolve(dcid)
            /\ user_id'[Resolve(dcid)] = user_id[Resolve(dcid)]]_tableVars

(* A full worker recovers: once a connection is closed, a user id is free   *)
(* for a new client.                                                        *)
CapacityRecovers ==
  (\E s \in connections : conn[s] = "closed") ~> (free_user_ids # << >>)
=============================================================================
