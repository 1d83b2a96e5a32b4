--------------------------- MODULE Ingress_proofs ---------------------------
(***************************************************************************)
(* The ingress path of a worker, for every number of user ids, set of      *)
(* connection ids, length of the cooldown, capacity of the queue that is   *)
(* no smaller than the number of user ids, and number of pixels in a       *)
(* packet: what the cooldown, the connection table and the queue promise   *)
(* together.                                                               *)
(***************************************************************************)
EXTENDS Ingress, Cooldown_proofs, SequenceTheorems, FiniteSetTheorems, TLAPS

-----------------------------------------------------------------------------
(* The connection table: its bookkeeping is consistent for every number of  *)
(* user ids and every set of connection ids.                                *)

(* The first k elements of a sequence. *)
LEMMA PrefixIs ==
  ASSUME NEW S, NEW s, NEW k \in Nat, \A i \in 1 .. k : s[i] \in S
  PROVE  /\ SubSeq(s, 1, k) \in Seq(S)
         /\ Len(SubSeq(s, 1, k)) = k
         /\ \A i \in 1 .. k : SubSeq(s, 1, k)[i] = s[i]
<1> DEFINE p == SubSeq(s, 1, k)
<1>1. 1 \in Int /\ k \in Int
  OBVIOUS
<1>2. /\ p \in Seq(S)
      /\ Len(p) = IF 1 <= k THEN k - 1 + 1 ELSE 0
      /\ \A i \in 1 .. k - 1 + 1 : p[i] = s[1 + i - 1]
  BY <1>1, SubSeqProperties
<1> HIDE DEF p
<1>3. QED
  BY <1>2 DEF p

(* The initial stack holds every user id once. *)
LEMMA InitTransportInv == TransportInit => TransportInv
<1> SUFFICES ASSUME TransportInit PROVE TransportInv
  OBVIOUS
<1> USE UsersAssumption DEF TransportInit
<1>1. free_user_ids \in Seq(User) /\ Len(free_user_ids) = MAX_CONNECTIONS_PER_WORKER
  BY DEF User
<1>2. TransportTypeOK
  <2>1. DOMAIN cid_map = {}
    OBVIOUS
  <2>2. QED
    BY <1>1, <2>1 DEF TransportTypeOK
<1>3. IdsConserved
  <2>1. \A u \in User : u \in Elems(free_user_ids)
    <3> SUFFICES ASSUME NEW u \in User PROVE u \in Elems(free_user_ids)
      OBVIOUS
    <3>1. u + 1 \in 1 .. Len(free_user_ids) /\ free_user_ids[u + 1] = u
      BY <1>1 DEF User
    <3>2. QED
      BY <3>1 DEF Elems
  <2>2. \A i, j \in 1 .. Len(free_user_ids) :
          free_user_ids[i] = free_user_ids[j] => i = j
    <3>1. \A i \in 1 .. MAX_CONNECTIONS_PER_WORKER : free_user_ids[i] = i - 1
      OBVIOUS
    <3>2. QED
      BY <1>1, <3>1
  <2>3. connections = {}
    OBVIOUS
  <2>4. QED
    BY <2>1, <2>2, <2>3 DEF IdsConserved
<1>4. RoutesAgree
  BY DEF RoutesAgree
<1>5. QED
  BY <1>2, <1>3, <1>4 DEF TransportInv

(* Receiving on a known connection changes only its QUIC state. *)
LEMMA RecvPreserves ==
  ASSUME TransportInv, NEW dcid \in ConnId, RecvKnown(dcid)
  PROVE  TransportInv'
<1>1. TransportTypeOK'
  BY DEF TransportInv, TransportTypeOK, RecvKnown, ConnAfter, ConnState
<1>2. IdsConserved'
  BY DEF TransportInv, IdsConserved, RecvKnown, Elems
<1>3. RoutesAgree'
  BY DEF TransportInv, RoutesAgree, RecvKnown
<1>4. QED
  BY <1>1, <1>2, <1>3 DEF TransportInv

(* Accepting a connection moves one user id from the stack to it. *)
LEMMA AcceptPreserves ==
  ASSUME TransportInv, NEW dcid \in ConnId, NEW ty \in PacketType,
         NEW scid \in ConnId, AcceptNew(dcid, ty, scid)
  PROVE  TransportInv'
<1> DEFINE n == Len(free_user_ids)
           u == free_user_ids[n]
<1>1. TransportTypeOK /\ IdsConserved /\ RoutesAgree
  BY DEF TransportInv
<1>2. /\ n \in Nat /\ n > 0 /\ u \in User
      /\ free_user_ids' \in Seq(User) /\ Len(free_user_ids') = n - 1
      /\ \A i \in 1 .. n - 1 : free_user_ids'[i] = free_user_ids[i]
  <2>1. free_user_ids \in Seq(User) /\ n \in Nat /\ n > 0
    BY <1>1 DEF AcceptNew, TransportTypeOK
  <2>2. free_user_ids' = SubSeq(free_user_ids, 1, n - 1)
    BY DEF AcceptNew
  <2>3. u \in User
    BY <2>1
  <2>4. n - 1 \in Nat /\ \A i \in 1 .. n - 1 : free_user_ids[i] \in User
    BY <2>1
  <2>5. /\ SubSeq(free_user_ids, 1, n - 1) \in Seq(User)
        /\ Len(SubSeq(free_user_ids, 1, n - 1)) = n - 1
        /\ \A i \in 1 .. n - 1 : SubSeq(free_user_ids, 1, n - 1)[i] = free_user_ids[i]
    <3> DEFINE k == n - 1
    <3>1. k \in Nat /\ \A i \in 1 .. k : free_user_ids[i] \in User
      BY <2>4
    <3> HIDE DEF k
    <3>2. /\ SubSeq(free_user_ids, 1, k) \in Seq(User)
          /\ Len(SubSeq(free_user_ids, 1, k)) = k
          /\ \A i \in 1 .. k : SubSeq(free_user_ids, 1, k)[i] = free_user_ids[i]
      BY <3>1, PrefixIs
    <3>3. QED
      BY <3>2 DEF k
  <2>6. QED
    BY <2>1, <2>2, <2>3, <2>5
<1>3. /\ scid \notin connections /\ scid \notin DOMAIN cid_map /\ scid # dcid
      /\ connections' = connections \cup {scid}
      /\ DOMAIN cid_map' = DOMAIN cid_map \cup {dcid}
      /\ user_id' \in [connections' -> User]
      /\ dcid_of' \in [connections' -> ConnId]
      /\ cid_map' \in [DOMAIN cid_map' -> connections']
      /\ user_id'[scid] = u /\ dcid_of'[scid] = dcid /\ cid_map'[dcid] = scid
      /\ \A s \in connections : user_id'[s] = user_id[s] /\ dcid_of'[s] = dcid_of[s]
      /\ \A d \in DOMAIN cid_map : d # dcid => cid_map'[d] = cid_map[d]
  BY <1>1, <1>2 DEF AcceptNew, TransportTypeOK
<1>4. conn' \in [connections' -> ConnState]
  BY <1>1 DEF AcceptNew, TransportTypeOK, ConnAfter, ConnState
<1>5. dcid \notin DOMAIN cid_map /\ dcid \notin connections
  <2>1. Resolve(dcid) \notin connections
    BY DEF AcceptNew
  <2>2. QED
    BY <1>1, <2>1 DEF Resolve, TransportTypeOK
<1> HIDE DEF n, u
<1>6. TransportTypeOK'
  BY <1>1, <1>2, <1>3, <1>4 DEF TransportTypeOK
<1>7. Elems(free_user_ids') = Elems(free_user_ids) \ {u}
  <2>1. Elems(free_user_ids') \subseteq Elems(free_user_ids) \ {u}
    BY <1>1, <1>2 DEF Elems, IdsConserved, n, u
  <2>2. Elems(free_user_ids) \ {u} \subseteq Elems(free_user_ids')
    BY <1>2 DEF Elems, n, u
  <2>3. QED
    BY <2>1, <2>2
<1>8. u \in Elems(free_user_ids)
  BY <1>2 DEF Elems, n, u
<1>9. IdsConserved'
  <2>1. \A i, j \in 1 .. Len(free_user_ids') :
          free_user_ids'[i] = free_user_ids'[j] => i = j
    BY <1>1, <1>2 DEF IdsConserved, n
  <2>2. \A s, t \in connections' : user_id'[s] = user_id'[t] => s = t
    BY <1>1, <1>3, <1>8 DEF IdsConserved
  <2>3. \A s \in connections' : user_id'[s] \notin Elems(free_user_ids')
    BY <1>1, <1>3, <1>7 DEF IdsConserved
  <2>4. \A v \in User :
          v \in Elems(free_user_ids') \/ \E s \in connections' : user_id'[s] = v
    BY <1>1, <1>3, <1>7 DEF IdsConserved
  <2>5. QED
    BY <2>1, <2>2, <2>3, <2>4 DEF IdsConserved, Elems
<1>10. RoutesAgree'
  BY <1>1, <1>3, <1>5 DEF RoutesAgree, TransportTypeOK
<1>11. QED
  BY <1>6, <1>9, <1>10 DEF TransportInv

(* Cleaning up gives back exactly the user ids and the routes of the        *)
(* connections it removes.                                                  *)
LEMMA MaintainPreserves ==
  ASSUME TransportInv, MaintainConnections
  PROVE  TransportInv'
<1>1. TransportTypeOK /\ IdsConserved /\ RoutesAgree
  BY DEF TransportInv
<1>2. PICK expired \in SUBSET connections :
        LET gone == {s \in connections : conn[s] = "closed" \/ s \in expired}
            kept == connections \ gone
        IN  /\ connections' = kept
            /\ user_id' = Retain(user_id, kept)
            /\ conn' = Retain(conn, kept)
            /\ dcid_of' = Retain(dcid_of, kept)
            /\ cid_map' = [d \in DOMAIN cid_map \ FreedDcids(gone) |-> cid_map[d]]
            /\ \E freed \in Orderings(FreedIds(gone)) :
                 free_user_ids' = free_user_ids \o freed
  BY DEF MaintainConnections
<1> DEFINE gone == {s \in connections : conn[s] = "closed" \/ s \in expired}
           kept == connections \ gone
<1>3. PICK freed \in Orderings(FreedIds(gone)) : free_user_ids' = free_user_ids \o freed
  BY <1>2
<1>4. gone \subseteq connections /\ kept \subseteq connections
  OBVIOUS
<1>5. /\ connections' = kept
      /\ user_id' = Retain(user_id, kept)
      /\ conn' = Retain(conn, kept)
      /\ dcid_of' = Retain(dcid_of, kept)
      /\ cid_map' = [d \in DOMAIN cid_map \ FreedDcids(gone) |-> cid_map[d]]
  BY <1>2
<1>6. \A s \in connections : s \in gone \/ s \in kept
  OBVIOUS
<1>7. \A s \in kept : s \notin gone
  OBVIOUS
<1> HIDE DEF gone, kept
<1>8. /\ freed \in Seq(User)
      /\ \A i \in 1 .. Len(freed) : freed[i] \in FreedIds(gone)
      /\ \A i, j \in 1 .. Len(freed) : freed[i] = freed[j] => i = j
      /\ \A v \in FreedIds(gone) : \E i \in 1 .. Len(freed) : freed[i] = v
  <2>1. PICK k \in 0 .. MAX_CONNECTIONS_PER_WORKER : freed \in [1 .. k -> FreedIds(gone)]
    BY <1>3 DEF Orderings
  <2>2. FreedIds(gone) \subseteq User
    BY <1>1, <1>4 DEF FreedIds, TransportTypeOK
  <2>3. DOMAIN freed = 1 .. k /\ k \in Nat
    BY <2>1, UsersAssumption
  <2>4. freed \in Seq(User) /\ Len(freed) = k
    BY <2>1, <2>2, <2>3
  <2>5. QED
    BY <1>3, <2>1, <2>3, <2>4 DEF Orderings
<1>9. DOMAIN cid_map' = DOMAIN cid_map \ FreedDcids(gone)
      /\ \A d \in DOMAIN cid_map' : cid_map'[d] = cid_map[d] /\ cid_map[d] \in kept
  BY <1>1, <1>5, <1>6 DEF FreedDcids, TransportTypeOK, RoutesAgree
<1>10. TransportTypeOK'
  <2>1. connections' \in SUBSET ConnId /\ DOMAIN cid_map' \in SUBSET ConnId
    BY <1>1, <1>4, <1>5, <1>9 DEF TransportTypeOK
  <2>2. /\ user_id' \in [connections' -> User]
        /\ conn' \in [connections' -> ConnState]
        /\ dcid_of' \in [connections' -> ConnId]
    BY <1>1, <1>4, <1>5 DEF TransportTypeOK, Retain
  <2>3. cid_map' \in [DOMAIN cid_map' -> connections']
    BY <1>5, <1>9
  <2>4. free_user_ids' \in Seq(User)
    BY <1>1, <1>3, <1>8 DEF TransportTypeOK
  <2>5. QED
    BY <2>1, <2>2, <2>3, <2>4 DEF TransportTypeOK
<1>11. Elems(free_user_ids') = Elems(free_user_ids) \cup FreedIds(gone)
  <2> DEFINE n == Len(free_user_ids)
             m == Len(freed)
  <2>1. /\ n \in Nat /\ m \in Nat /\ Len(free_user_ids') = n + m
        /\ \A i \in 1 .. n : free_user_ids'[i] = free_user_ids[i]
        /\ \A i \in 1 .. m : free_user_ids'[n + i] = freed[i]
        /\ \A i \in n + 1 .. n + m : free_user_ids'[i] = freed[i - n]
    BY <1>1, <1>3, <1>8 DEF TransportTypeOK
  <2> HIDE DEF n, m
  <2>2. Elems(free_user_ids') \subseteq Elems(free_user_ids) \cup FreedIds(gone)
    <3> SUFFICES ASSUME NEW i \in 1 .. n + m
                 PROVE  free_user_ids'[i] \in Elems(free_user_ids) \cup FreedIds(gone)
      BY <2>1 DEF Elems
    <3>1. CASE i \in 1 .. n
      BY <2>1, <3>1 DEF Elems, n
    <3>2. CASE i \notin 1 .. n
      <4>1. i - n \in 1 .. m /\ i \in n + 1 .. n + m
        BY <2>1, <3>2
      <4>2. QED
        BY <1>8, <2>1, <4>1 DEF m
    <3>3. QED
      BY <3>1, <3>2
  <2>3. Elems(free_user_ids) \subseteq Elems(free_user_ids')
    BY <2>1 DEF Elems, n
  <2>4. FreedIds(gone) \subseteq Elems(free_user_ids')
    <3> SUFFICES ASSUME NEW v \in FreedIds(gone) PROVE v \in Elems(free_user_ids')
      OBVIOUS
    <3>1. PICK i \in 1 .. m : freed[i] = v
      BY <1>8 DEF m
    <3>2. n + i \in 1 .. Len(free_user_ids') /\ free_user_ids'[n + i] = v
      BY <2>1, <3>1
    <3>3. QED
      BY <3>2 DEF Elems
  <2>5. QED
    BY <2>2, <2>3, <2>4
<1>12. \A s \in kept : user_id'[s] = user_id[s] /\ dcid_of'[s] = dcid_of[s]
  BY <1>5 DEF Retain
<1>13. \A v \in FreedIds(gone) : v \notin Elems(free_user_ids)
  BY <1>1, <1>4 DEF FreedIds, IdsConserved
<1>14. IdsConserved'
  <2>1. \A i, j \in 1 .. Len(free_user_ids') :
          free_user_ids'[i] = free_user_ids'[j] => i = j
    <3> DEFINE n == Len(free_user_ids)
               m == Len(freed)
    <3>1. /\ n \in Nat /\ m \in Nat /\ Len(free_user_ids') = n + m
          /\ \A i \in 1 .. n : free_user_ids'[i] = free_user_ids[i]
          /\ \A i \in n + 1 .. n + m : free_user_ids'[i] = freed[i - n]
      BY <1>1, <1>3, <1>8 DEF TransportTypeOK
    <3>2. \A i, j \in 1 .. n : free_user_ids[i] = free_user_ids[j] => i = j
      BY <1>1 DEF IdsConserved
    <3>3. \A i \in 1 .. n, j \in 1 .. m : free_user_ids[i] # freed[j]
      BY <1>8, <1>13 DEF Elems
    <3>4. \A i, j \in 1 .. m : freed[i] = freed[j] => i = j
      BY <1>8
    <3> HIDE DEF n, m
    <3> SUFFICES ASSUME NEW i \in 1 .. n + m, NEW j \in 1 .. n + m,
                        free_user_ids'[i] = free_user_ids'[j]
                 PROVE  i = j
      BY <3>1
    <3>5. /\ i \in 1 .. n \/ (i - n \in 1 .. m /\ i \in n + 1 .. n + m)
          /\ j \in 1 .. n \/ (j - n \in 1 .. m /\ j \in n + 1 .. n + m)
      BY <3>1
    <3>6. CASE i \in 1 .. n /\ j \in 1 .. n
      BY <3>1, <3>2, <3>6
    <3>7. CASE i \notin 1 .. n /\ j \notin 1 .. n
      <4>1. i - n = j - n
        BY <3>1, <3>4, <3>5, <3>7
      <4>2. QED
        BY <3>1, <4>1
    <3>8. CASE i \in 1 .. n /\ j \notin 1 .. n
      BY <3>1, <3>3, <3>5, <3>8
    <3>9. CASE i \notin 1 .. n /\ j \in 1 .. n
      BY <3>1, <3>3, <3>5, <3>9
    <3>10. QED
      BY <3>6, <3>7, <3>8, <3>9
  <2>2. \A s, t \in connections' : user_id'[s] = user_id'[t] => s = t
    BY <1>1, <1>4, <1>5, <1>12 DEF IdsConserved
  <2>3. \A s \in connections' : user_id'[s] \notin Elems(free_user_ids')
    BY <1>1, <1>4, <1>5, <1>7, <1>11, <1>12 DEF IdsConserved, FreedIds
  <2>4. \A v \in User :
          v \in Elems(free_user_ids') \/ \E s \in connections' : user_id'[s] = v
    BY <1>1, <1>5, <1>6, <1>11, <1>12 DEF IdsConserved, FreedIds
  <2>5. QED
    BY <2>1, <2>2, <2>3, <2>4 DEF IdsConserved, Elems
<1>15. RoutesAgree'
  <2>1. \A s \in connections' :
          dcid_of'[s] \in DOMAIN cid_map' /\ cid_map'[dcid_of'[s]] = s
    BY <1>1, <1>4, <1>5, <1>7, <1>9, <1>12 DEF RoutesAgree, FreedDcids
  <2>2. \A d \in DOMAIN cid_map' : dcid_of'[cid_map'[d]] = d
    BY <1>1, <1>9, <1>12 DEF RoutesAgree
  <2>3. DOMAIN cid_map' \cap connections' = {}
    BY <1>1, <1>4, <1>5, <1>9 DEF RoutesAgree
  <2>4. QED
    BY <2>1, <2>2, <2>3 DEF RoutesAgree
<1>16. QED
  BY <1>10, <1>14, <1>15 DEF TransportInv

(* Every step preserves the invariant. *)
LEMMA TransportStep == TransportInv /\ [TransportNext]_tableVars => TransportInv'
<1> SUFFICES ASSUME TransportInv, [TransportNext]_tableVars PROVE TransportInv'
  OBVIOUS
<1>1. CASE UNCHANGED tableVars
  BY <1>1 DEF tableVars, TransportInv, TransportTypeOK, IdsConserved, RoutesAgree, Elems
<1>2. CASE MaintainConnections
  BY <1>2, MaintainPreserves
<1>3. CASE \E dcid \in ConnId, ty \in PacketType : HandleIncoming(dcid, ty)
  <2>1. PICK dcid \in ConnId, ty \in PacketType : HandleIncoming(dcid, ty)
    BY <1>3
  <2>2. CASE RecvKnown(dcid)
    BY <2>2, RecvPreserves
  <2>3. CASE \E scid \in ConnId : AcceptNew(dcid, ty, scid)
    BY <2>3, AcceptPreserves
  <2>4. QED
    BY <1>1, <2>1, <2>2, <2>3
       DEF HandleIncoming, DropUnknown, RejectAtCapacity, AcceptFails
<1>4. QED
  BY <1>1, <1>2, <1>3 DEF TransportNext

(* For every number of user ids and every set of connection ids: user ids   *)
(* are conserved and every packet of a live connection reaches it.          *)
THEOREM TransportInvariant == SafeSpec => []TransportInv
<1>1. QED
  BY InitTransportInv, TransportStep, PTL DEF SafeSpec

(* Accepting a client moves no route of a live connection. *)
LEMMA AcceptSticky ==
  ASSUME TransportInv, NEW dcid \in ConnId, NEW ty \in PacketType,
         NEW scid \in ConnId, AcceptNew(dcid, ty, scid),
         NEW d \in ConnId, Resolve(d) \in connections
  PROVE  Resolve(d)' = Resolve(d) /\ user_id'[Resolve(d)] = user_id[Resolve(d)]
<1>1. TransportTypeOK /\ RoutesAgree
  BY DEF TransportInv
<1>2. /\ scid \notin connections
      /\ cid_map' = [e \in DOMAIN cid_map \cup {dcid} |->
                       IF e = dcid THEN scid ELSE cid_map[e]]
      /\ \A s \in connections : user_id'[s] = user_id[s]
      /\ Resolve(dcid) \notin connections
  BY <1>1 DEF AcceptNew, TransportTypeOK
<1>3. d # dcid
  BY <1>2
<1>4. QED
  BY <1>2, <1>3 DEF Resolve

(* Cleaning up moves no route of a connection that it keeps. *)
LEMMA MaintainSticky ==
  ASSUME TransportInv, MaintainConnections,
         NEW d \in ConnId, Resolve(d) \in connections, Resolve(d) \in connections'
  PROVE  Resolve(d)' = Resolve(d) /\ user_id'[Resolve(d)] = user_id[Resolve(d)]
<1>1. TransportTypeOK /\ RoutesAgree
  BY DEF TransportInv
<1>2. PICK expired \in SUBSET connections :
        LET gone == {s \in connections : conn[s] = "closed" \/ s \in expired}
            kept == connections \ gone
        IN  /\ connections' = kept
            /\ user_id' = Retain(user_id, kept)
            /\ cid_map' = [e \in DOMAIN cid_map \ FreedDcids(gone) |-> cid_map[e]]
  BY DEF MaintainConnections
<1> DEFINE gone == {s \in connections : conn[s] = "closed" \/ s \in expired}
<1>3. /\ gone \subseteq connections
      /\ connections' = connections \ gone
      /\ user_id' = Retain(user_id, connections')
      /\ cid_map' = [e \in DOMAIN cid_map \ FreedDcids(gone) |-> cid_map[e]]
  BY <1>2
<1> HIDE DEF gone
<1>4. CASE d \in DOMAIN cid_map
  <2>1. Resolve(d) = cid_map[d]
    BY <1>4 DEF Resolve
  <2>2. d \notin FreedDcids(gone)
    BY <1>1, <1>3, <2>1 DEF FreedDcids, RoutesAgree
  <2>3. QED
    BY <1>3, <1>4, <2>1, <2>2 DEF Resolve, Retain
<1>5. CASE d \notin DOMAIN cid_map
  BY <1>3, <1>5 DEF Resolve, Retain
<1>6. QED
  BY <1>4, <1>5

(* For every number of user ids and every set of connection ids, packets of *)
(* a client stay with its connection, and its user id, while it lives.      *)
THEOREM RoutesSticky == SafeSpec => RoutesAreSticky
<1> DEFINE Sticky ==
      \A dcid \in ConnId :
        Resolve(dcid) \in connections /\ Resolve(dcid) \in connections'
          => /\ Resolve(dcid)' = Resolve(dcid)
             /\ user_id'[Resolve(dcid)] = user_id[Resolve(dcid)]
<1>1. ASSUME TransportInv, [TransportNext]_tableVars PROVE [Sticky]_tableVars
  <2>1. CASE UNCHANGED tableVars
    BY <2>1
  <2>2. CASE MaintainConnections
    BY <1>1, <2>2, MaintainSticky
  <2>3. CASE \E dcid \in ConnId, ty \in PacketType : HandleIncoming(dcid, ty)
    <3>1. PICK dcid \in ConnId, ty \in PacketType : HandleIncoming(dcid, ty)
      BY <2>3
    <3>2. CASE RecvKnown(dcid)
      BY <3>2 DEF RecvKnown, Resolve
    <3>3. CASE \E scid \in ConnId : AcceptNew(dcid, ty, scid)
      BY <1>1, <3>3, AcceptSticky
    <3>4. QED
      BY <2>1, <3>1, <3>2, <3>3
         DEF HandleIncoming, DropUnknown, RejectAtCapacity, AcceptFails
  <2>4. QED
    BY <1>1, <2>1, <2>2, <2>3 DEF TransportNext
<1>2. QED
  BY <1>1, TransportInvariant, PTL DEF SafeSpec, RoutesAreSticky

-----------------------------------------------------------------------------
(* The components of the ingress path together.                             *)

(* A user id is never charged for a pixel of the future, even while it is   *)
(* on cooldown: the bucket that releases it is at most a turn away.         *)
LEMMA ChargedInThePast ==
  ASSUME WheelInv, NEW u \in User
  PROVE  charged[u] \in Int /\ charged[u] <= last_tick_sec
<1>1. TypeOK /\ OneReleasePerUser /\ NotReleasedEarly /\ ReleasedNotOwing
  BY DEF WheelInv
<1>2. charged[u] \in Int /\ last_tick_sec \in Int /\ TIMING_WHEEL_TICKS \in Nat
  BY <1>1, TicksAssumption DEF TypeOK
<1>3. CASE is_on_cooldown(cooldown_master, u)
  <2>1. PICK b \in Bucket : is_on_cooldown(wheel[b], u)
    BY <1>1, <1>3 DEF OneReleasePerUser
  <2>2. last_tick_sec + TicksTo(b) >= charged[u] + TIMING_WHEEL_TICKS
    BY <1>1, <2>1 DEF NotReleasedEarly
  <2>3. TicksTo(b) \in 1 .. TIMING_WHEEL_TICKS
    BY <1>1, TickDistances DEF TicksTo, TypeOK
  <2>4. QED
    BY <1>2, <2>2, <2>3
<1>4. CASE ~ is_on_cooldown(cooldown_master, u)
  BY <1>1, <1>2, <1>4 DEF ReleasedNotOwing
<1>5. QED
  BY <1>3, <1>4

(* A packet closes no connection and changes no user id. *)
LEMMA PacketKeepsUsers ==
  ASSUME TransportInv, NEW dcid \in ConnId, NEW ty \in PacketType,
         HandleIncoming(dcid, ty)
  PROVE  /\ connections \subseteq connections'
         /\ \A s \in connections : user_id'[s] = user_id[s]
<1>1. CASE UNCHANGED <<connections, user_id>>
  BY <1>1
<1>2. CASE \E scid \in ConnId : AcceptNew(dcid, ty, scid)
  BY <1>2 DEF AcceptNew
<1>3. QED
  BY <1>1, <1>2 DEF HandleIncoming, RecvKnown, DropUnknown, RejectAtCapacity,
                    AcceptFails, tableVars

(* The sweep opens no connection and changes no user id. *)
LEMMA SweepKeepsUsers ==
  ASSUME MaintainConnections
  PROVE  /\ connections' \subseteq connections
         /\ \A s \in connections' : user_id'[s] = user_id[s]
BY DEF MaintainConnections, Retain

(* Two connections do not share a user id. *)
LEMMA OwnersDiffer ==
  ASSUME TransportInv, NEW s \in connections, NEW t \in connections,
         user_id[s] = user_id[t]
  PROVE  s = t
BY DEF TransportInv, IdsConserved

(* A step that leaves a component alone preserves its invariant. *)
LEMMA CooldownIdle == WheelInv /\ UNCHANGED vars => WheelInv'
BY StepPreserves

LEMMA TableIdle == TransportInv /\ UNCHANGED tableVars => TransportInv'
BY TransportStep

-----------------------------------------------------------------------------
(* Each action preserves the invariant.                                     *)

(* Nothing is connected, queued or charged at first. *)
LEMMA InitIngressInv == IngressInit => IngressInv
<1> SUFFICES ASSUME IngressInit PROVE IngressInv
  OBVIOUS
<1>1. WheelInv /\ TransportInv
  BY InitWheelInv, InitTransportInv DEF IngressInit
<1>2. connections = {} /\ pixels_scratch = << >> /\ queued = << >>
      /\ joined = << >> /\ placed = << >>
  BY DEF IngressInit, TransportInit
<1>3. Len(queued) = 0
  BY <1>2
<1>4. IngressTypeOK
  BY <1>1, <1>2, <1>3, QueueAssumption DEF IngressTypeOK, TransportInv
<1>5. QueueSpaced
  BY <1>3 DEF QueueSpaced
<1>6. QED
  BY <1>1, <1>2, <1>4, <1>5 DEF IngressInv, ChargesExplained

(* A packet: a new connection starts with the charge its user id had. *)
LEMMA PacketPreserves ==
  ASSUME IngressInv, NEW dcid \in ConnId, NEW ty \in PacketType,
         HandlePacket(dcid, ty)
  PROVE  IngressInv'
<1>1. WheelInv /\ TransportInv /\ IngressTypeOK /\ QueueSpaced /\ ChargesExplained
  BY DEF IngressInv
<1>2. WheelInv'
  BY <1>1, CooldownIdle DEF HandlePacket
<1>3. TransportInv'
  <2>1. TransportNext
    BY DEF HandlePacket, TransportNext
  <2>2. QED
    BY <1>1, <2>1, TransportStep
<1>4. /\ connections \subseteq connections'
      /\ \A s \in connections : user_id'[s] = user_id[s]
  BY <1>1, PacketKeepsUsers DEF HandlePacket
<1>5. /\ charged' = charged /\ last_tick_sec' = last_tick_sec /\ queued' = queued
  BY DEF HandlePacket, vars
<1>6. /\ joined' = [t \in connections' |-> IF t \in connections THEN joined[t] ELSE last_tick_sec]
      /\ placed' = [t \in connections' |-> IF t \in connections THEN placed[t] ELSE Never]
  BY DEF HandlePacket
<1>7. pixels_scratch' \in Seq(connections')
  <2>1. CASE pixels_scratch' = << >>
    BY <2>1
  <2>2. CASE \E s \in connections' : \E n \in 0 .. MAX_PIXELS :
               pixels_scratch' = [i \in 1 .. n |-> s]
    BY <2>2, PixelsAssumption
  <2>3. QED
    BY <2>1, <2>2 DEF HandlePacket, Pixels
<1>8. IngressTypeOK'
  <2>1. joined' \in [connections' -> Nat] /\ placed' \in [connections' -> Nat \cup {Never}]
    BY <1>1, <1>4, <1>6 DEF IngressTypeOK, WheelInv, TypeOK
  <2>2. QED
    BY <1>1, <1>3, <1>5, <1>7, <2>1 DEF IngressTypeOK, TransportInv
<1>9. QueueSpaced'
  BY <1>1, <1>5 DEF QueueSpaced
<1>10. ChargesExplained'
  <2> SUFFICES ASSUME NEW s \in connections'
               PROVE  IF placed'[s] = Never THEN charged'[user_id'[s]] <= joined'[s]
                      ELSE placed'[s] = charged'[user_id'[s]]
    BY DEF ChargesExplained, Never
  <2>1. CASE s \in connections
    BY <1>1, <1>4, <1>5, <1>6, <2>1 DEF ChargesExplained
  <2>2. CASE s \notin connections
    <3>1. user_id'[s] \in User
      BY <1>3 DEF TransportInv, TransportTypeOK
    <3>2. charged[user_id'[s]] <= last_tick_sec
      BY <1>1, <3>1, ChargedInThePast
    <3>3. QED
      BY <1>5, <1>6, <2>2, <3>2
  <2>3. QED
    BY <2>1, <2>2
<1>11. QED
  BY <1>2, <1>3, <1>8, <1>9, <1>10 DEF IngressInv

(* The connection of the next pixel and its user id. *)
LEMMA NextPixel ==
  ASSUME IngressTypeOK, pixels_scratch # << >>
  PROVE  /\ Head(pixels_scratch) \in connections
         /\ user_id[Head(pixels_scratch)] \in User
         /\ Tail(pixels_scratch) \in Seq(connections)
<1>1. pixels_scratch \in Seq(connections) /\ user_id \in [connections -> User]
  BY DEF IngressTypeOK, TransportTypeOK
<1>2. Head(pixels_scratch) \in connections /\ Tail(pixels_scratch) \in Seq(connections)
  BY <1>1
<1>3. QED
  BY <1>1, <1>2

(* The pixels of the queue. *)
LEMMA QueueEntries ==
  ASSUME IngressTypeOK
  PROVE  /\ Len(queued) \in Nat
         /\ \A i \in 1 .. Len(queued) : queued[i].user \in User /\ queued[i].sec \in Nat
<1> DEFINE Entry == [user : User, sec : Nat]
<1>1. \A e \in Entry : e.user \in User /\ e.sec \in Nat
  OBVIOUS
<1>2. queued \in Seq(Entry)
  BY DEF IngressTypeOK
<1> HIDE DEF Entry
<1>3. Len(queued) \in Nat /\ \A i \in 1 .. Len(queued) : queued[i] \in Entry
  BY <1>2
<1>4. QED
  BY <1>1, <1>3

(* What a push does to the queue. *)
LEMMA PushedIs ==
  ASSUME IngressTypeOK, WheelInv, NEW u \in User
  PROVE  /\ Pushed(u) \in Seq([user : User, sec : Nat])
         /\ Len(Pushed(u)) <= SPSC_CAPACITY
         /\ Len(Pushed(u)) \in {Len(queued), Len(queued) + 1}
         /\ \A i \in 1 .. Len(queued) : Pushed(u)[i] = queued[i]
         /\ Len(Pushed(u)) = Len(queued) + 1
              => Pushed(u)[Len(queued) + 1] = [user |-> u, sec |-> last_tick_sec]
<1>1. /\ queued \in Seq([user : User, sec : Nat]) /\ Len(queued) \in Nat
      /\ Len(queued) <= SPSC_CAPACITY /\ SPSC_CAPACITY \in Nat
  BY QueueAssumption DEF IngressTypeOK
<1> DEFINE e == [user |-> u, sec |-> last_tick_sec]
<1>2. e \in [user : User, sec : Nat]
  BY DEF WheelInv, TypeOK
<1> HIDE DEF e
<1>3. CASE Len(queued) >= SPSC_CAPACITY
  BY <1>1, <1>3 DEF Pushed
<1>4. CASE ~ (Len(queued) >= SPSC_CAPACITY)
  <2>1. Pushed(u) = Append(queued, e)
    BY <1>4 DEF Pushed, e
  <2>2. QED
    BY <1>1, <1>2, <1>4, <2>1 DEF e
<1>5. QED
  BY <1>3, <1>4

(* A pixel let through: it is the youngest of the queue, and a cooldown     *)
(* younger than any other of its user id.                                   *)
LEMMA PlacePreserves ==
  ASSUME IngressInv, PlacePixel
  PROVE  IngressInv'
<1> DEFINE s == Head(pixels_scratch)
           u == user_id[s]
<1>1. WheelInv /\ TransportInv /\ IngressTypeOK /\ QueueSpaced /\ ChargesExplained
  BY DEF IngressInv
<1>2. /\ pixels_scratch' = Tail(pixels_scratch)
      /\ AdmitPixel(u)
      /\ queued' = Pushed(u)
      /\ placed' = [placed EXCEPT ![s] = last_tick_sec]
      /\ UNCHANGED tableVars /\ UNCHANGED joined
  BY DEF PlacePixel
<1>3. s \in connections /\ u \in User /\ Tail(pixels_scratch) \in Seq(connections)
  BY <1>1, NextPixel DEF PlacePixel
<1> HIDE DEF s, u
<1>4. WheelInv'
  BY <1>1, <1>2, <1>3, AdmitPreserves
<1>5. TransportInv' /\ connections' = connections /\ user_id' = user_id
  BY <1>1, <1>2, TableIdle DEF tableVars
<1>6. /\ last_tick_sec' = last_tick_sec /\ last_tick_sec \in Nat
      /\ last_tick_sec >= charged[u] + TIMING_WHEEL_TICKS
      /\ \A v \in User : charged'[v] = IF v = u THEN last_tick_sec ELSE charged[v]
  BY <1>1, <1>2, <1>3 DEF AdmitPixel, WheelInv, TypeOK, ReleasedNotOwing
<1>7. /\ queued' \in Seq([user : User, sec : Nat])
      /\ Len(queued') <= SPSC_CAPACITY
      /\ Len(queued') \in {Len(queued), Len(queued) + 1}
      /\ \A i \in 1 .. Len(queued) : queued'[i] = queued[i]
      /\ Len(queued') = Len(queued) + 1
           => queued'[Len(queued) + 1] = [user |-> u, sec |-> last_tick_sec]
  BY <1>1, <1>2, <1>3, PushedIs
<1>8. /\ Len(queued) \in Nat
      /\ \A i \in 1 .. Len(queued) : queued[i].user \in User /\ queued[i].sec \in Nat
  BY <1>1, QueueEntries
<1>9. IngressTypeOK'
  <2>1. placed' \in [connections' -> Nat \cup {Never}] /\ joined' \in [connections' -> Nat]
    BY <1>1, <1>2, <1>5, <1>6 DEF IngressTypeOK
  <2>2. QED
    BY <1>2, <1>3, <1>5, <1>7, <2>1 DEF IngressTypeOK, TransportInv
<1>10. \A i \in 1 .. Len(queued) :
         /\ queued[i].sec <= last_tick_sec
         /\ queued[i].user = u => queued[i].sec + TIMING_WHEEL_TICKS <= last_tick_sec
  <2> SUFFICES ASSUME NEW i \in 1 .. Len(queued)
               PROVE  /\ queued[i].sec <= last_tick_sec
                      /\ queued[i].user = u
                           => queued[i].sec + TIMING_WHEEL_TICKS <= last_tick_sec
    OBVIOUS
  <2>1. queued[i].sec <= charged[queued[i].user]
    BY <1>1 DEF QueueSpaced
  <2>2. charged[queued[i].user] \in Int /\ charged[queued[i].user] <= last_tick_sec
    BY <1>1, <1>8, ChargedInThePast
  <2>3. QED
    BY <1>6, <1>8, <2>1, <2>2, TicksAssumption
<1>11. QueueSpaced'
  <2>1. ASSUME NEW i \in 1 .. Len(queued'), NEW j \in 1 .. Len(queued'), i < j
        PROVE  /\ queued'[i].sec <= queued'[j].sec
               /\ queued'[i].user = queued'[j].user
                    => queued'[i].sec + TIMING_WHEEL_TICKS <= queued'[j].sec
    <3>1. i \in 1 .. Len(queued) /\ queued'[i] = queued[i]
      BY <1>7, <1>8, <2>1
    <3>2. CASE j \in 1 .. Len(queued)
      BY <1>1, <1>7, <2>1, <3>1, <3>2 DEF QueueSpaced
    <3>3. CASE j \notin 1 .. Len(queued)
      <4>1. queued'[j] = [user |-> u, sec |-> last_tick_sec]
        BY <1>7, <1>8, <3>3
      <4>2. QED
        BY <1>10, <3>1, <4>1
    <3>4. QED
      BY <3>2, <3>3
  <2>2. ASSUME NEW i \in 1 .. Len(queued')
        PROVE  queued'[i].sec <= charged'[queued'[i].user]
    <3>1. CASE i \in 1 .. Len(queued)
      BY <1>1, <1>6, <1>7, <1>8, <1>10, <3>1 DEF QueueSpaced
    <3>2. CASE i \notin 1 .. Len(queued)
      <4>1. queued'[i] = [user |-> u, sec |-> last_tick_sec]
        BY <1>7, <1>8, <3>2
      <4>2. QED
        BY <1>3, <1>6, <4>1
    <3>3. QED
      BY <3>1, <3>2
  <2>3. QED
    BY <2>1, <2>2 DEF QueueSpaced
<1>12. ChargesExplained'
  <2> SUFFICES ASSUME NEW t \in connections
               PROVE  IF placed'[t] = Never THEN charged'[user_id[t]] <= joined[t]
                      ELSE placed'[t] = charged'[user_id[t]]
    BY <1>2, <1>5 DEF ChargesExplained, Never
  <2>1. user_id[t] \in User
    BY <1>1 DEF TransportInv, TransportTypeOK
  <2>2. placed'[t] = IF t = s THEN last_tick_sec ELSE placed[t]
    BY <1>1, <1>2, <1>3 DEF IngressTypeOK
  <2>3. CASE t = s
    BY <1>6, <2>1, <2>2, <2>3 DEF Never, u
  <2>4. CASE t # s
    <3>1. user_id[t] # u
      BY <1>1, <1>3, <2>4, OwnersDiffer DEF u
    <3>2. QED
      BY <1>1, <1>6, <2>1, <2>2, <2>4, <3>1 DEF ChargesExplained
  <2>5. QED
    BY <2>3, <2>4
<1>13. QED
  BY <1>4, <1>5, <1>9, <1>11, <1>12 DEF IngressInv

(* A pixel refused changes nothing but the pixels in hand. *)
LEMMA DropPreserves ==
  ASSUME IngressInv, DropPixel
  PROVE  IngressInv'
<1>1. WheelInv /\ TransportInv /\ IngressTypeOK /\ QueueSpaced /\ ChargesExplained
  BY DEF IngressInv
<1>2. /\ pixels_scratch' = Tail(pixels_scratch)
      /\ UNCHANGED vars /\ UNCHANGED tableVars /\ UNCHANGED <<queued, placed, joined>>
  BY DEF DropPixel, RefusePixel
<1>3. Tail(pixels_scratch) \in Seq(connections)
  BY <1>1, NextPixel DEF DropPixel
<1>4. WheelInv' /\ TransportInv'
  BY <1>1, <1>2, CooldownIdle, TableIdle
<1>5. charged' = charged /\ connections' = connections /\ user_id' = user_id
  BY <1>2 DEF vars, tableVars
<1>6. IngressTypeOK'
  BY <1>1, <1>2, <1>3, <1>4, <1>5 DEF IngressTypeOK, TransportInv
<1>7. QED
  BY <1>1, <1>2, <1>4, <1>5, <1>6 DEF IngressInv, QueueSpaced, ChargesExplained

(* A tick releases users and charges none. *)
LEMMA TickStepPreserves ==
  ASSUME IngressInv, NEW now_sec \in 0 .. MAX_SEC, Tick(now_sec)
  PROVE  IngressInv'
<1>1. WheelInv /\ TransportInv /\ IngressTypeOK /\ QueueSpaced /\ ChargesExplained
  BY DEF IngressInv
<1>2. /\ HandleTick(now_sec)
      /\ UNCHANGED tableVars /\ UNCHANGED <<pixels_scratch, queued, placed, joined>>
  BY DEF Tick, loopVars
<1>3. WheelInv' /\ TransportInv'
  BY <1>1, <1>2, TickPreserves, TableIdle
<1>4. charged' = charged /\ connections' = connections /\ user_id' = user_id
  BY <1>2 DEF HandleTick, tableVars
<1>5. IngressTypeOK'
  BY <1>1, <1>2, <1>3, <1>4 DEF IngressTypeOK, TransportInv
<1>6. QED
  BY <1>1, <1>2, <1>3, <1>4, <1>5 DEF IngressInv, QueueSpaced, ChargesExplained

(* The sweep forgets connections; no pixel in hand is of one of them. *)
LEMMA SweepPreserves ==
  ASSUME IngressInv, Maintain
  PROVE  IngressInv'
<1>1. WheelInv /\ TransportInv /\ IngressTypeOK /\ QueueSpaced /\ ChargesExplained
  BY DEF IngressInv
<1>2. /\ pixels_scratch' = << >>
      /\ joined' = [s \in connections' |-> joined[s]]
      /\ placed' = [s \in connections' |-> placed[s]]
      /\ UNCHANGED vars /\ UNCHANGED queued
  BY DEF Maintain
<1>3. WheelInv'
  BY <1>1, <1>2, CooldownIdle
<1>4. TransportInv'
  BY <1>1, MaintainPreserves DEF Maintain
<1>5. /\ connections' \subseteq connections
      /\ \A s \in connections' : user_id'[s] = user_id[s]
  BY SweepKeepsUsers DEF Maintain
<1>6. charged' = charged
  BY <1>2 DEF vars
<1>7. IngressTypeOK'
  <2>1. joined' \in [connections' -> Nat] /\ placed' \in [connections' -> Nat \cup {Never}]
    BY <1>1, <1>2, <1>5 DEF IngressTypeOK
  <2>2. QED
    BY <1>1, <1>2, <1>4, <2>1 DEF IngressTypeOK, TransportInv
<1>8. QueueSpaced'
  BY <1>1, <1>2, <1>6 DEF QueueSpaced
<1>9. ChargesExplained'
  BY <1>1, <1>2, <1>5, <1>6 DEF ChargesExplained, Never
<1>10. QED
  BY <1>3, <1>4, <1>7, <1>8, <1>9 DEF IngressInv

(* A pop takes the oldest pixel away. *)
LEMMA PopPreserves ==
  ASSUME IngressInv, SeePop
  PROVE  IngressInv'
<1>1. WheelInv /\ TransportInv /\ IngressTypeOK /\ QueueSpaced /\ ChargesExplained
  BY DEF IngressInv
<1>2. /\ queued # << >> /\ queued' = Tail(queued)
      /\ UNCHANGED vars /\ UNCHANGED tableVars /\ UNCHANGED <<pixels_scratch, placed, joined>>
  BY DEF SeePop
<1>3. WheelInv' /\ TransportInv'
  BY <1>1, <1>2, CooldownIdle, TableIdle
<1>4. charged' = charged /\ connections' = connections /\ user_id' = user_id
  BY <1>2 DEF vars, tableVars
<1>5. /\ queued' \in Seq([user : User, sec : Nat])
      /\ Len(queued) \in Nat /\ Len(queued') = Len(queued) - 1
      /\ \A i \in 1 .. Len(queued') : queued'[i] = queued[i + 1]
  BY <1>1, <1>2 DEF IngressTypeOK
<1>6. IngressTypeOK'
  BY <1>1, <1>2, <1>3, <1>4, <1>5, QueueAssumption DEF IngressTypeOK, TransportInv
<1>7. QueueSpaced'
  <2>1. \A i \in 1 .. Len(queued') : i + 1 \in 1 .. Len(queued)
    BY <1>5
  <2>2. ASSUME NEW i \in 1 .. Len(queued'), NEW j \in 1 .. Len(queued'), i < j
        PROVE  /\ queued'[i].sec <= queued'[j].sec
               /\ queued'[i].user = queued'[j].user
                    => queued'[i].sec + TIMING_WHEEL_TICKS <= queued'[j].sec
    <3>1. /\ i + 1 \in 1 .. Len(queued) /\ j + 1 \in 1 .. Len(queued) /\ i + 1 < j + 1
          /\ queued'[i] = queued[i + 1] /\ queued'[j] = queued[j + 1]
      BY <1>5, <2>1, <2>2
    <3>2. QED
      BY <1>1, <3>1 DEF QueueSpaced
  <2>3. \A i \in 1 .. Len(queued') : queued'[i].sec <= charged'[queued'[i].user]
    BY <1>1, <1>4, <1>5, <2>1 DEF QueueSpaced
  <2>4. QED
    BY <2>2, <2>3 DEF QueueSpaced
<1>8. QED
  BY <1>1, <1>2, <1>3, <1>4, <1>6, <1>7 DEF IngressInv, ChargesExplained

-----------------------------------------------------------------------------
(* The theorems.                                                            *)

(* Every step preserves the invariant. *)
LEMMA IngressStep == IngressInv /\ [IngressNext]_ingressVars => IngressInv'
<1> SUFFICES ASSUME IngressInv, [IngressNext]_ingressVars PROVE IngressInv'
  OBVIOUS
<1>1. CASE UNCHANGED ingressVars
  <2>1. WheelInv /\ TransportInv /\ IngressTypeOK /\ QueueSpaced /\ ChargesExplained
    BY DEF IngressInv
  <2>2. /\ UNCHANGED vars /\ UNCHANGED tableVars
        /\ UNCHANGED <<pixels_scratch, queued, placed, joined>>
    BY <1>1 DEF ingressVars, loopVars
  <2>3. WheelInv' /\ TransportInv'
    BY <2>1, <2>2, CooldownIdle, TableIdle
  <2>4. charged' = charged /\ connections' = connections /\ user_id' = user_id
    BY <2>2 DEF vars, tableVars
  <2>5. IngressTypeOK'
    BY <2>1, <2>2, <2>3, <2>4 DEF IngressTypeOK, TransportInv
  <2>6. QED
    BY <2>1, <2>2, <2>3, <2>4, <2>5 DEF IngressInv, QueueSpaced, ChargesExplained
<1>2. CASE \E dcid \in ConnId, ty \in PacketType : HandlePacket(dcid, ty)
  BY <1>2, PacketPreserves
<1>3. CASE PlacePixel
  BY <1>3, PlacePreserves
<1>4. CASE DropPixel
  BY <1>4, DropPreserves
<1>5. CASE \E now_sec \in 0 .. MAX_SEC : Tick(now_sec)
  BY <1>5, TickStepPreserves
<1>6. CASE Maintain
  BY <1>6, SweepPreserves
<1>7. CASE SeePop
  BY <1>7, PopPreserves
<1>8. QED
  BY <1>1, <1>2, <1>3, <1>4, <1>5, <1>6, <1>7 DEF IngressNext

(* For every value of the constants: the wheel and the connection table     *)
(* keep their invariants when handle_incoming_cqe drives both, the pixels   *)
(* in hand are always of live connections, the queue is ordered and spaced  *)
(* by the cooldown, and every charge belongs to one client.                 *)
THEOREM IngressInvariant == IngressSpec => []IngressInv
<1>1. QED
  BY InitIngressInv, IngressStep, PTL DEF IngressSpec

(* A full queue holds two pixels of one user id, or one of every user id. *)
LEMMA FullQueue ==
  ASSUME IngressTypeOK, Len(queued) = SPSC_CAPACITY, NEW u \in User,
         \A i \in 1 .. Len(queued) : queued[i].user # u
  PROVE  \E i, j \in 1 .. Len(queued) : i < j /\ queued[i].user = queued[j].user
<1> DEFINE n == SPSC_CAPACITY
           m == MAX_CONNECTIONS_PER_WORKER
           Slot == 1 .. n
           Others == User \ {u}
           f == [i \in Slot |-> queued[i].user]
<1>1. n \in Nat /\ m \in Nat \ {0} /\ n >= m
  BY QueueAssumption, UsersAssumption
<1>2. IsFiniteSet(Slot) /\ Cardinality(Slot) = n
  <2>1. 1 \in Int /\ n \in Int
    BY <1>1
  <2>2. QED
    BY <1>1, <2>1, FS_Interval
<1>3. IsFiniteSet(User) /\ Cardinality(User) = m
  <2>1. 0 \in Int /\ m - 1 \in Int /\ ~ (0 > m - 1) /\ (m - 1) - 0 + 1 = m
    BY <1>1
  <2>2. QED
    BY <2>1, FS_Interval DEF User
<1>4. IsFiniteSet(Others) /\ Cardinality(Others) = m - 1
  BY <1>3, FS_RemoveElement
<1>5. f \in [Slot -> Others]
  BY QueueEntries
<1>6. Cardinality(Others) < Cardinality(Slot)
  BY <1>1, <1>2, <1>4
<1> HIDE DEF n, m, Slot, Others, f
<1>7. \E i, j \in Slot : i # j /\ f[i] = f[j]
  BY <1>2, <1>4, <1>5, <1>6, FS_PigeonHole
<1>8. PICK i \in Slot, j \in Slot : i # j /\ f[i] = f[j]
  BY <1>7
<1>9. i \in 1 .. Len(queued) /\ j \in 1 .. Len(queued) /\ queued[i].user = queued[j].user
  BY <1>8 DEF Slot, f, n
<1>10. CASE i < j
  BY <1>9, <1>10
<1>11. CASE j < i
  BY <1>9, <1>11
<1>12. QED
  BY <1>8, <1>9, <1>10, <1>11

(* For every value of the constants: handle_incoming_cqe loses a pixel that *)
(* it has charged for only when the master has left the oldest pixel of the *)
(* queue where it is for a whole cooldown.                                  *)
THEOREM LossMeansStallHolds == IngressSpec => []LossMeansStall
<1>1. ASSUME IngressInv PROVE LossMeansStall
  <2> SUFFICES ASSUME Len(queued) = SPSC_CAPACITY, NEW u \in User,
                      ~ is_on_cooldown(cooldown_master, u)
               PROVE  queued[1].sec + TIMING_WHEEL_TICKS <= last_tick_sec
    BY DEF LossMeansStall
  <2>1. WheelInv /\ IngressTypeOK /\ QueueSpaced
    BY <1>1 DEF IngressInv
  <2>2. /\ Len(queued) \in Nat /\ last_tick_sec \in Nat /\ TIMING_WHEEL_TICKS \in Nat
        /\ \A i \in 1 .. Len(queued) : queued[i].user \in User /\ queued[i].sec \in Nat
    BY <2>1, TicksAssumption, QueueEntries DEF WheelInv, TypeOK
  <2>3. \A i \in 1 .. Len(queued) : 1 \in 1 .. Len(queued) /\ queued[1].sec <= queued[i].sec
    <3> SUFFICES ASSUME NEW i \in 1 .. Len(queued)
                 PROVE  1 \in 1 .. Len(queued) /\ queued[1].sec <= queued[i].sec
      OBVIOUS
    <3>1. 1 \in 1 .. Len(queued) /\ (i = 1 \/ 1 < i)
      BY <2>2
    <3>2. QED
      BY <2>1, <2>2, <3>1 DEF QueueSpaced
  <2>4. \A i \in 1 .. Len(queued) :
          queued[i].sec <= charged[queued[i].user]
          /\ charged[queued[i].user] \in Int /\ charged[queued[i].user] <= last_tick_sec
    BY <2>1, <2>2, ChargedInThePast DEF QueueSpaced
  <2>5. CASE \E i \in 1 .. Len(queued) : queued[i].user = u
    <3>1. PICK i \in 1 .. Len(queued) : queued[i].user = u
      BY <2>5
    <3>2. charged[u] + TIMING_WHEEL_TICKS <= last_tick_sec
      BY <2>1 DEF WheelInv, ReleasedNotOwing
    <3>3. QED
      BY <2>2, <2>3, <2>4, <3>1, <3>2
  <2>6. CASE \A i \in 1 .. Len(queued) : queued[i].user # u
    <3>1. PICK i \in 1 .. Len(queued), j \in 1 .. Len(queued) :
            i < j /\ queued[i].user = queued[j].user
      BY <2>1, <2>6, FullQueue
    <3>2. queued[i].sec + TIMING_WHEEL_TICKS <= queued[j].sec
      BY <2>1, <3>1 DEF QueueSpaced
    <3>3. /\ queued[1].sec \in Nat /\ queued[i].sec \in Nat /\ queued[j].sec \in Nat
          /\ queued[1].sec <= queued[i].sec /\ queued[j].sec <= last_tick_sec
      BY <2>2, <2>3, <2>4
    <3>4. QED
      BY <2>2, <3>2, <3>3
  <2>7. QED
    BY <2>5, <2>6
<1>2. QED
  BY <1>1, IngressInvariant, PTL

(* For every value of the constants: handle_incoming_cqe lets no connection *)
(* place two pixels within a cooldown, whatever connections come and go.    *)
THEOREM ConnectionRateHolds == IngressSpec => ConnectionRate
<1> DEFINE Apart == \A s \in connections \cap connections' :
                      placed'[s] # placed[s] /\ placed[s] # Never
                        => placed'[s] >= placed[s] + TIMING_WHEEL_TICKS
<1>1. ASSUME IngressInv, [IngressNext]_ingressVars PROVE [Apart]_ingressVars
  <2>1. CASE \A s \in connections \cap connections' : placed'[s] = placed[s]
    BY <2>1
  <2>2. CASE PlacePixel
    <3> DEFINE s == Head(pixels_scratch)
    <3>1. /\ WheelInv /\ IngressTypeOK /\ ChargesExplained
      BY <1>1 DEF IngressInv
    <3>2. s \in connections /\ user_id[s] \in User
      BY <2>2, <3>1, NextPixel DEF PlacePixel
    <3>3. last_tick_sec >= charged[user_id[s]] + TIMING_WHEEL_TICKS
      BY <2>2, <3>1, <3>2 DEF PlacePixel, AdmitPixel, WheelInv, ReleasedNotOwing
    <3>4. \A t \in connections : placed'[t] = IF t = s THEN last_tick_sec ELSE placed[t]
      BY <2>2, <3>1, <3>2 DEF PlacePixel, IngressTypeOK
    <3>5. placed[s] # Never => placed[s] = charged[user_id[s]]
      BY <3>1, <3>2 DEF ChargesExplained
    <3> HIDE DEF s
    <3>6. QED
      BY <3>3, <3>4, <3>5
  <2>3. CASE \E dcid \in ConnId, ty \in PacketType : HandlePacket(dcid, ty)
    BY <2>1, <2>3 DEF HandlePacket
  <2>4. CASE Maintain
    BY <2>1, <2>4 DEF Maintain
  <2>5. QED
    BY <1>1, <2>1, <2>2, <2>3, <2>4
       DEF IngressNext, DropPixel, Tick, SeePop, ingressVars, loopVars
<1>2. QED
  BY <1>1, IngressInvariant, PTL DEF IngressSpec, ConnectionRate

(* The composition is a behaviour of each component, for every value of the *)
(* constants: handle_incoming_cqe calls the cooldown only for user ids that *)
(* are in range, and the connection table as Transport says.  What is       *)
(* proved of a component alone, the rate limit, the countdowns and the      *)
(* sticky routes, therefore holds in the worker.                            *)
THEOREM IngressImplementsComponents ==
  IngressSpec => Spec /\ SafeSpec /\ RateLimit /\ ImplementsTimers /\ RoutesAreSticky
<1>1. IngressInit => Init /\ TransportInit
  BY DEF IngressInit
<1>2. ASSUME IngressInv, [IngressNext]_ingressVars
      PROVE  [Next]_vars /\ [TransportNext]_tableVars
  <2>1. IngressTypeOK
    BY <1>2 DEF IngressInv
  <2>2. CASE UNCHANGED ingressVars
    BY <2>2 DEF ingressVars
  <2>3. CASE \E dcid \in ConnId, ty \in PacketType : HandlePacket(dcid, ty)
    BY <2>3 DEF HandlePacket, TransportNext
  <2>4. CASE PlacePixel
    BY <2>1, <2>4, NextPixel DEF PlacePixel, Next
  <2>5. CASE DropPixel
    BY <2>5 DEF DropPixel, RefusePixel
  <2>6. CASE \E now_sec \in 0 .. MAX_SEC : Tick(now_sec)
    BY <2>6 DEF Tick, Next
  <2>7. CASE Maintain
    BY <2>7 DEF Maintain, TransportNext
  <2>8. CASE SeePop
    BY <2>8 DEF SeePop
  <2>9. QED
    BY <1>2, <2>2, <2>3, <2>4, <2>5, <2>6, <2>7, <2>8 DEF IngressNext
<1>3. IngressSpec => Spec /\ SafeSpec
  BY <1>1, <1>2, IngressInvariant, PTL DEF IngressSpec, Spec, SafeSpec
<1>4. QED
  BY <1>3, RateLimitHolds, TimersRefinement, RoutesSticky
=============================================================================
