------------------------------- MODULE SlapTx -------------------------------
(***************************************************************************)
(* The transmit side of SLAP, src/aj_serial_tx.c: the transmit queue with  *)
(* its single reserved packet for ACK and link control, the list of        *)
(* packets sent but not acknowledged, resends and acknowledgements.        *)
(***************************************************************************)
EXTENDS SlapState

\* Mutant: it does not look whether the packet is queued already.
QueueUnreliable_Twice(q, p) == <<p>> \o q

\* QueueUnreliable: the reserved packet goes to the front of the queue; if it is there
\* already the new contents overwrite the old.
QueueUnreliable(q, p) ==
  IF q # <<>> /\ IsUnreliable(Head(q)) THEN <<p>> \o Tail(q) ELSE <<p>> \o q

\* The k packets QueueReliable appends, the next sequence numbers in order.
NewPackets(e, k) ==
  [i \in 1..k |-> [type |-> "DATA", seq |-> (txSeqNum[e] + i - 1) % 8,
                   len  |-> packetSize[e],
                   item |-> [ep |-> Epoch(e), n |-> Queued(e) + i]]]

\* One round of AJ_SerialSend's loop.  It gives up on a dead link, runs the state
\* machine while there is no free packet or the link is not active, and else fills as
\* many packets as it can; the call ends when the whole buffer is queued.
SendGivesUp(e) ==
  /\ pc[e] # "rx" /\ call[e] = "send" /\ linkState[e] = "DEAD"
  /\ call' = [call EXCEPT ![e] = "none"]
  /\ left' = [left EXCEPT ![e] = 0]
  /\ UNCHANGED <<pc, linkVars, sendVars, txSeqNum, ackVars, recvVars, bufVars, histVars>>

SendWaits(e) ==
  /\ pc[e] # "rx" /\ call[e] = "send" /\ linkState[e] # "DEAD"
  /\ txFree[e] = 0 \/ linkState[e] # "ACTIVE"
  /\ pc' = [pc EXCEPT ![e] = "rx"]
  /\ UNCHANGED <<call, left, linkVars, sendVars, txSeqNum, ackVars, recvVars, bufVars,
                 histVars>>

SendQueues(e) ==
  LET k == Least(txFree[e], left[e]) IN
  /\ pc[e] # "rx" /\ call[e] = "send" /\ linkState[e] = "ACTIVE" /\ txFree[e] > 0
  /\ txQueue' = [txQueue EXCEPT ![e] = @ \o NewPackets(e, k)]
  /\ txFree' = [txFree EXCEPT ![e] = @ - k]
  /\ txSeqNum' = [txSeqNum EXCEPT ![e] = (@ + k) % 8]
  /\ left' = [left EXCEPT ![e] = @ - k]
  /\ call' = [call EXCEPT ![e] = IF left[e] = k THEN "none" ELSE @]
  /\ pc' = [pc EXCEPT ![e] = "app"]
  /\ log' = [log EXCEPT ![e][Epoch(e)] = @ + k]
  /\ UNCHANGED <<linkVars, txSent, resendTimer, resendPrimed, ackVars, recvVars,
                 bufVars, accepted, delivered>>

AJ_SerialSend(e) == SendGivesUp(e) \/ SendWaits(e) \/ SendQueues(e)

\* Where AJ_StateMachine goes on: at the first of its three timers that is set.
NextTimer(resend, ack, link) ==
  IF resend THEN "resend" ELSE IF ack THEN "ack" ELSE IF link THEN "link" ELSE "app"

\* ConvertPacketToBytes: every frame but link control carries currentTxAck.
ToFrame(e, p) == [pkt |-> p, ack |-> IF p.type = "CTRL" THEN 0 ELSE currentTxAck[e]]

\* AJ_FillTxBufferList, after AJ_ProcessRxBufferList has run out of receive buffers or of
\* free packets.  If dataSent, as many packets as there are free transmit buffers are
\* converted.  The first frame with an ack clears the backlog; DATA packets wait in txSent
\* and start the resend timer.  Only the head of the queue can be unreliable.
FillTxBuffers(e) ==
  LET k    == IF dataSent[e] THEN Least(Len(txQueue[e]), TxBufs[e] - Len(txBuf[e])) ELSE 0
      data == IF k > 0 /\ IsUnreliable(Head(txQueue[e])) THEN SubSeq(txQueue[e], 2, k)
              ELSE SubSeq(txQueue[e], 1, k)
      acks == \E i \in 1..k : txQueue[e][i].type # "CTRL"
  IN
  /\ pc[e] = "rx" /\ (rxBuf[e] = <<>> \/ rxFree[e] = 0)
  /\ txQueue' = [txQueue EXCEPT ![e] = SubSeq(@, k + 1, Len(@))]
  /\ txBuf' = [txBuf EXCEPT ![e] = @ \o [i \in 1..k |-> ToFrame(e, txQueue[e][i])]]
  /\ dataSent' = [dataSent EXCEPT ![e] = @ /\ (k = 0 \/ Len(txBuf[e]) + k < TxBufs[e])]
  /\ txSent' = [txSent EXCEPT ![e] = @ \o data]
  /\ resendTimer' = [resendTimer EXCEPT ![e] = @ \/ (data # <<>> /\ ~resendPrimed[e])]
  /\ pendingAcks' = [pendingAcks EXCEPT ![e] = IF acks THEN 0 ELSE @]
  /\ ackTimer' = [ackTimer EXCEPT ![e] = @ /\ ~(acks /\ pendingAcks[e] > 0)]
  /\ pc' = [pc EXCEPT ![e] = NextTimer(resendTimer'[e], ackTimer'[e], linkTimer[e])]
  /\ UNCHANGED <<call, left, txFree, resendPrimed, currentTxAck, txSeqNum, rxBuf, linkVars,
                 recvVars, histVars>>

\* Mutant: the packets go to the end of the queue.
Requeue_AtEnd(q, sent) == q \o sent

\* The splice of ResendPackets.  Behind a queued unreliable packet only the last packet
\* of txSent is linked in; the ones before it are on no list any more.
Requeue(q, sent) ==
  IF q # <<>> /\ IsUnreliable(Head(q))
  THEN <<Head(q), sent[Len(sent)]>> \o Tail(q)
  ELSE sent \o q

\* ResendPackets, when resendTime has passed.
ResendPackets(e) ==
  /\ pc[e] = "resend" /\ resendTimer[e]
  /\ pc' = [pc EXCEPT ![e] = NextTimer(FALSE, ackTimer[e], linkTimer[e])]
  /\ resendTimer' = [resendTimer EXCEPT ![e] = FALSE]
  /\ resendPrimed' = [resendPrimed EXCEPT ![e] = FALSE]
  /\ IF linkState[e] = "ACTIVE" /\ txSent[e] # <<>>
     THEN /\ txQueue' = [txQueue EXCEPT ![e] = Requeue(@, txSent[e])]
          /\ txSent' = [txSent EXCEPT ![e] = <<>>]
     ELSE UNCHANGED <<txQueue, txSent>>
  /\ UNCHANGED <<call, left, txFree, txSeqNum, linkVars, ackVars, recvVars, bufVars,
                 histVars>>

\* Mutant: the backlog is not cleared.
SendAck_KeepsBacklog(e) ==
  /\ pc[e] \in {"resend", "ack"} /\ ackTimer[e]
  /\ pc' = [pc EXCEPT ![e] = NextTimer(FALSE, FALSE, linkTimer[e])]
  /\ ackTimer' = [ackTimer EXCEPT ![e] = FALSE]
  /\ txQueue' = [txQueue EXCEPT ![e] =
                   IF pendingAcks[e] > 0 THEN QueueUnreliable(@, Ack) ELSE @]
  /\ UNCHANGED <<call, left, txSent, txFree, resendTimer, resendPrimed, txSeqNum,
                 pendingAcks, currentTxAck, linkVars, recvVars, bufVars, histVars>>

\* SendAck, when ackTime has passed: an explicit ACK if there is a backlog.
SendAck(e) ==
  /\ pc[e] \in {"resend", "ack"} /\ ackTimer[e]
  /\ pc' = [pc EXCEPT ![e] = NextTimer(FALSE, FALSE, linkTimer[e])]
  /\ ackTimer' = [ackTimer EXCEPT ![e] = FALSE]
  /\ pendingAcks' = [pendingAcks EXCEPT ![e] = 0]
  /\ txQueue' = [txQueue EXCEPT ![e] =
                   IF pendingAcks[e] > 0 THEN QueueUnreliable(@, Ack) ELSE @]
  /\ UNCHANGED <<call, left, txSent, txFree, resendTimer, resendPrimed, txSeqNum,
                 currentTxAck, linkVars, recvVars, bufVars, histVars>>

\* Mutant: an ack of some packets stops the timer of the others.
AJ_SerialTx_ReceivedAck_Stops(e, ack) ==
  \E k \in 0..Len(txSent[e]) :
    /\ \A i \in 1..k : SEQ_GT(e, ack, txSent[e][i].seq)
    /\ k < Len(txSent[e]) => ~SEQ_GT(e, ack, txSent[e][k + 1].seq)
    /\ txSent' = [txSent EXCEPT ![e] = SubSeq(@, k + 1, Len(@))]
    /\ txFree' = [txFree EXCEPT ![e] = @ + k]
    /\ resendTimer' = [resendTimer EXCEPT ![e] = @ /\ k = 0]
    /\ resendPrimed' = [resendPrimed EXCEPT ![e] = @ /\ k = 0]

\* AJ_SerialTx_ReceivedAck: the k oldest packets the ack covers go back to the free
\* list; the resend timer restarts, or stops when nothing is left to acknowledge.
AJ_SerialTx_ReceivedAck(e, ack) ==
  \E k \in 0..Len(txSent[e]) :
    /\ \A i \in 1..k : SEQ_GT(e, ack, txSent[e][i].seq)
    /\ k < Len(txSent[e]) => ~SEQ_GT(e, ack, txSent[e][k + 1].seq)
    /\ txSent' = [txSent EXCEPT ![e] = SubSeq(@, k + 1, Len(@))]
    /\ txFree' = [txFree EXCEPT ![e] = @ + k]
    /\ IF k = 0 THEN UNCHANGED <<resendTimer, resendPrimed>>
       ELSE /\ resendTimer' = [resendTimer EXCEPT ![e] = k < Len(txSent[e])]
            /\ resendPrimed' = [resendPrimed EXCEPT ![e] = k < Len(txSent[e])]

\* Bound of the model on pendingAcks, a uint8_t that is only compared with 0, 1 and
\* windowSize.
MaxPendingAcks == MAX_WINDOW_SIZE + 1

\* AJ_SerialTx_ReceivedSeq: acknowledge seq, at once when the backlog is a full window.
AJ_SerialTx_ReceivedSeq(e, seq) ==
  LET backlog == pendingAcks[e] + 1 IN
  /\ currentTxAck' = [currentTxAck EXCEPT ![e] =
                        IF SEQ_GT(e, @, seq) THEN @ ELSE SeqInc(seq)]
  /\ pendingAcks' = [pendingAcks EXCEPT ![e] = Least(backlog, MaxPendingAcks)]
  /\ ackTimer' = [ackTimer EXCEPT ![e] = @ \/ backlog = 1]
  /\ txQueue' = [txQueue EXCEPT ![e] =
                   IF backlog # 1 /\ backlog = windowSize[e]
                   THEN QueueUnreliable(@, Ack) ELSE @]
=============================================================================
