---------------------------- MODULE UringWorker ----------------------------
(***************************************************************************)
(* The io_uring event loop of a worker (run_linux, process_pending_cqes,   *)
(* handle_incoming_cqe and flush_outgoing, server/src/worker.rs): who owns *)
(* each TX item, each receive buffer and the multishot receive.            *)
(*                                                                         *)
(* A submission is <<"send", t>>, <<"provide", b>> or <<"recv">>.  Its     *)
(* completion is <<"send", t>>, <<"provide", b>>, <<"packet", b, more>>    *)
(* (a packet in buffer b; more says whether the receive stays armed) or    *)
(* <<"error">> (the receive ended without a buffer: ENOBUFS and the like). *)
(*                                                                         *)
(* The kernel is external.  It executes submissions when the worker enters *)
(* it, completes sends and packets at any time, and queues completions in  *)
(* order; those past the capacity of the completion queue wait in the      *)
(* kernel and are moved into it when the worker next enters.  A packet     *)
(* always comes with a buffer: the early return of handle_incoming_cqe for *)
(* a result that is no error and has none does not happen.                 *)
(***************************************************************************)
EXTENDS SortedSeqs

CONSTANTS
  TX_CAPACITY,   \* number of tx_items
  Buf,           \* receive buffer ids
  SQ_DEPTH,      \* IO_URING_SQ_DEPTH, 32768 in the code
  CQ_CAP,        \* 65536: the kernel makes it twice the submission queue
  PENDING_CAP    \* u16::MAX = 65535

ASSUME TxAssumption == TX_CAPACITY \in Nat
ASSUME QueueAssumption ==
  SQ_DEPTH \in Nat \ {0} /\ CQ_CAP = 2 * SQ_DEPTH /\ PENDING_CAP = CQ_CAP - 1

VARIABLES
  pc,               \* where the loop is
  tx_free_indices,  \* a Vec used as a stack
  pending_cqes,
  sq,               \* submissions not yet given to the kernel
  cq,               \* completions not yet taken by the worker
  sending,          \* kernel: sends in flight from each TX item
  provided,         \* kernel: how often it may fill each buffer
  armed,            \* kernel: receives in progress
  dropped           \* history: completions taken and not processed, but for "provide"

ringVars == <<sq, cq, sending, provided, armed>>
uringVars == <<pc, tx_free_indices, pending_cqes, sq, cq, sending, provided, armed, dropped>>

Tx == 0 .. TX_CAPACITY - 1
Provide == {"provide"} \X Buf
Submission == ({"send"} \X Tx) \cup Provide \cup {<<"recv">>}
Completion == ({"send"} \X Tx) \cup Provide
              \cup ({"packet"} \X Buf \X BOOLEAN) \cup {<<"error">>}

(* How often an entry occurs in a queue. *)
CountOf(queue, entry) == Count(queue, {entry})

(* run_linux up to its loop: all buffers provided, the receive submitted. *)
UringInit ==
  /\ pc = "submit"
  /\ tx_free_indices = [i \in 1 .. TX_CAPACITY |-> i - 1]
  /\ pending_cqes = << >>
  /\ sq = << >>
  /\ cq = << >>
  /\ sending = [t \in Tx |-> 0]
  /\ provided = [b \in Buf |-> 1]
  /\ armed = 1
  /\ dropped = << >>

-----------------------------------------------------------------------------
(* The kernel executes a queue of submissions.  Sends and the receive go on *)
(* in the background, ProvideBuffers completes at once.                     *)
Submit(queue) ==
  /\ sending' = [t \in Tx |-> sending[t] + CountOf(queue, <<"send", t>>)]
  /\ provided' = [b \in Buf |-> provided[b] + CountOf(queue, <<"provide", b>>)]
  /\ armed' = armed + CountOf(queue, <<"recv">>)
  /\ cq' = cq \o Filtered(queue, Provide)

(* submission().push of several entries: when the queue is full, what is in *)
(* it is submitted first.                                                   *)
PushSqes_LostWhenFull(entries) ==
  /\ sq' = IF Len(sq \o entries) > SQ_DEPTH THEN sq ELSE sq \o entries
  /\ UNCHANGED <<cq, sending, provided, armed>>
PushSqes(entries) ==
  LET all  == sq \o entries
      left == ((Len(all) - 1) % SQ_DEPTH) + 1
      n    == Len(all) - left
  IN  /\ sq' = SubSeq(all, n + 1, Len(all))
      /\ Submit(SubSeq(all, 1, n))

(* A send ends, with whatever result. *)
SendDone(t) ==
  /\ sending[t] > 0
  /\ sending' = [sending EXCEPT ![t] = @ - 1]
  /\ cq' = Append(cq, <<"send", t>>)
  /\ UNCHANGED <<pc, tx_free_indices, pending_cqes, sq, provided, armed, dropped>>

(* A packet arrives; the kernel may end the multishot receive with it. *)
Packet(b, more) ==
  /\ armed > 0
  /\ provided[b] > 0
  /\ provided' = [provided EXCEPT ![b] = @ - 1]
  /\ armed' = IF more THEN armed ELSE armed - 1
  /\ cq' = Append(cq, <<"packet", b, more>>)
  /\ UNCHANGED <<pc, tx_free_indices, pending_cqes, sq, sending, dropped>>

(* The receive ends for want of a buffer, or with an error of the socket. *)
RecvError ==
  /\ armed > 0
  /\ armed' = armed - 1
  /\ cq' = Append(cq, <<"error">>)
  /\ UNCHANGED <<pc, tx_free_indices, pending_cqes, sq, sending, provided, dropped>>

-----------------------------------------------------------------------------
(* The loop.                                                                *)

(* submit_and_wait(1) hands over the submissions ... *)
SubmitAndWait ==
  /\ pc = "submit"
  /\ Submit(sq)
  /\ sq' = << >>
  /\ pc' = "wait"
  /\ UNCHANGED <<tx_free_indices, pending_cqes, dropped>>

(* ... and returns when there is a completion.  The completions in the      *)
(* queue are taken, but only PENDING_CAP of them are remembered.            *)
Drain ==
  LET n == IF Len(cq) > CQ_CAP THEN CQ_CAP ELSE Len(cq)
      k == IF n > PENDING_CAP THEN PENDING_CAP ELSE n
  IN  /\ pc = "wait"
      /\ cq # << >>
      /\ cq' = SubSeq(cq, n + 1, Len(cq))
      /\ pending_cqes' = SubSeq(cq, 1, k)
      /\ dropped' = dropped \o Filtered(SubSeq(cq, k + 1, n), Completion \ Provide)
      /\ pc' = "process"
      /\ UNCHANGED <<tx_free_indices, sq, sending, provided, armed>>

(* The loop over the completions taken by the drain; those that arrive     *)
(* meanwhile are not among them.                                           *)
Rest_Live == Tail(pending_cqes) \o cq
Rest == Tail(pending_cqes)
Take(c) ==
  /\ pc = "process"
  /\ pending_cqes # << >>
  /\ Head(pending_cqes) = c
  /\ pending_cqes' = Rest

(* A send has ended: its TX item is free again. *)
Recycle_Forgotten(t) == tx_free_indices
Recycle(t) == Append(tx_free_indices, t)
ProcessSend(t) ==
  /\ Take(<<"send", t>>)
  /\ tx_free_indices' = Recycle(t)
  /\ UNCHANGED <<pc, dropped, ringVars>>

(* handle_incoming_cqe: the packet is handled, its buffer given back, and a *)
(* receive that has ended is submitted again.                               *)
ProcessPacket(b, more) ==
  /\ Take(<<"packet", b, more>>)
  /\ PushSqes(IF more THEN <<<<"provide", b>>>> ELSE <<<<"provide", b>>, <<"recv">>>>)
  /\ UNCHANGED <<pc, tx_free_indices, dropped>>

(* A receive that ended with an error is submitted again. *)
ProcessError ==
  /\ Take(<<"error">>)
  /\ PushSqes(<<<<"recv">>>>)
  /\ UNCHANGED <<pc, tx_free_indices, dropped>>

(* The completion of ProvideBuffers has user_data 0: nothing to do. *)
ProcessProvide(b) ==
  /\ Take(<<"provide", b>>)
  /\ UNCHANGED <<pc, tx_free_indices, dropped, ringVars>>

ProcessDone ==
  /\ pc = "process"
  /\ pending_cqes = << >>
  /\ pc' = "flush"
  /\ UNCHANGED <<tx_free_indices, pending_cqes, dropped, ringVars>>

(* flush_outgoing: a connection with a packet to send takes the TX item on  *)
(* top of the stack.                                                        *)
FlushSend ==
  LET n == Len(tx_free_indices)
  IN  /\ pc = "flush"
      /\ n > 0
      /\ tx_free_indices' = SubSeq(tx_free_indices, 1, n - 1)
      /\ PushSqes(<<<<"send", tx_free_indices[n]>>>>)
      /\ UNCHANGED <<pc, pending_cqes, dropped>>

(* No packet or no TX item is left: the popped item goes back, the loop     *)
(* starts over.                                                             *)
FlushDone ==
  /\ pc = "flush"
  /\ pc' = "submit"
  /\ UNCHANGED <<tx_free_indices, pending_cqes, dropped, ringVars>>

Loop ==
  \/ SubmitAndWait
  \/ Drain
  \/ \E t \in Tx : ProcessSend(t)
  \/ \E b \in Buf, more \in BOOLEAN : ProcessPacket(b, more)
  \/ ProcessError
  \/ \E b \in Buf : ProcessProvide(b)
  \/ ProcessDone
  \/ FlushSend
  \/ FlushDone
Kernel ==
  \/ \E t \in Tx : SendDone(t)
  \/ \E b \in Buf, more \in BOOLEAN : Packet(b, more)
  \/ RecvError
UringNext == Loop \/ Kernel

(* The loop never ends and the kernel completes every send. *)
Fairness == WF_uringVars(Loop) /\ \A t \in Tx : WF_uringVars(SendDone(t))
UringSpec == UringInit /\ [][UringNext]_uringVars /\ Fairness

-----------------------------------------------------------------------------
(* Every variable has its type; the submission queue never overflows. *)
UringTypeOK ==
  /\ pc \in {"submit", "wait", "process", "flush"}
  /\ tx_free_indices \in Seq(Tx)
  /\ pending_cqes \in Seq(Completion) /\ Len(pending_cqes) <= PENDING_CAP
  /\ sq \in Seq(Submission) /\ Len(sq) <= SQ_DEPTH
  /\ cq \in Seq(Completion)
  /\ sending \in [Tx -> Nat]
  /\ provided \in [Buf -> Nat]
  /\ armed \in Nat
  /\ dropped \in Seq(Completion)

(* Places in which the worker still knows of a TX item, of a buffer, and of *)
(* the receive.                                                             *)
TxPlaces(t) ==
  CountOf(tx_free_indices, t) + CountOf(sq, <<"send", t>>) + sending[t]
    + CountOf(cq, <<"send", t>>) + CountOf(pending_cqes, <<"send", t>>)

HoldsBuf(b) == {"packet"} \X {b} \X BOOLEAN
BufPlaces(b) ==
  CountOf(sq, <<"provide", b>>) + provided[b]
    + Count(cq, HoldsBuf(b)) + Count(pending_cqes, HoldsBuf(b))

EndsRecv == {<<"error">>} \cup ({"packet"} \X Buf \X {FALSE})
RecvPlaces ==
  CountOf(sq, <<"recv">>) + armed + Count(cq, EndsRecv) + Count(pending_cqes, EndsRecv)

(* Nothing is owned twice, and nothing is lost but what the cap on          *)
(* pending_cqes drops: a TX item is never written while a send from it is   *)
(* in flight, a buffer never given to the kernel while the worker reads it, *)
(* and no second receive is armed.                                          *)
OwnedOnce ==
  /\ \A t \in Tx : TxPlaces(t) + CountOf(dropped, <<"send", t>>) = 1
  /\ \A b \in Buf : BufPlaces(b) + Count(dropped, HoldsBuf(b)) = 1
  /\ RecvPlaces + Count(dropped, EndsRecv) = 1

(* Ownership, with the types. *)
UringInv == UringTypeOK /\ OwnedOnce

(* A TX item that is in flight comes back, unless the cap drops it. *)
TxComesBack ==
  \A t \in Tx :
    sending[t] > 0 ~> CountOf(tx_free_indices, t) + CountOf(dropped, <<"send", t>>) > 0

(* At most so many steps of the loop are left before it waits again. *)
StepsLeft ==
  CASE pc = "process" -> 2 * Len(pending_cqes) + Len(tx_free_indices) + 2
    [] pc = "flush" -> Len(tx_free_indices) + 1
    [] OTHER -> 0

(* A pass of the loop is over after a number of steps that the completions  *)
(* it took and the TX items determine (worker.rs:503, 433): what completes  *)
(* meanwhile, the sends of the pass itself among it, waits for the next     *)
(* pass and cannot keep the worker from its timers.                         *)
PassIsBounded ==
  [][(pc \in {"process", "flush"}) =>
       \/ StepsLeft' < StepsLeft /\ StepsLeft' \in Nat
       \/ StepsLeft' = StepsLeft /\ Len(cq') = Len(cq) + 1
    ]_uringVars

(* const_settings.rs:120-122: "If that happens, io_uring returns ENOBUFS    *)
(* and RecvMsgMulti is resubmitted": the worker never stops receiving.      *)
ReceiveResubmitted == RecvPlaces > 0
=============================================================================
