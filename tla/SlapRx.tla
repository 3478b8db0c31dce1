------------------------------- MODULE SlapRx -------------------------------
(***************************************************************************)
(* The receive side of SLAP, src/aj_serial_rx.c: completed packets are     *)
(* checked, dispatched to link control and to the transmit side, and DATA  *)
(* packets in sequence are queued for the application.                     *)
(* A receive buffer holds one whole frame.  A frame damaged on the line,   *)
(* or lost with the boundary byte next to it, is one that never arrives.   *)
(***************************************************************************)
EXTENDS SlapLink

\* UART_RxComplete drops a frame longer than maxRxFrameSize, which AJ_SerialRX_Init
\* computed from the packet size of this end before any negotiation.
Overrun(e, p) == p.type = "DATA" /\ p.len > MaxPacket[e]

\* Mutant: the sequence number is not compared with the expected one.
RxData_AnyOrder(e, p) ==
  /\ expectedSeq' = [expectedSeq EXCEPT ![e] = SeqInc(p.seq)]
  /\ rxRecv' = [rxRecv EXCEPT ![e] = Append(@, p.item)]
  /\ rxFree' = [rxFree EXCEPT ![e] = @ - 1]
  /\ AJ_SerialTx_ReceivedSeq(e, p.seq)
  /\ UNCHANGED accepted

\* Mutant: a packet that was accepted before is not acknowledged again.
RxData_NoReAck(e, p) ==
  IF p.seq # expectedSeq[e] THEN UNCHANGED <<txQueue, ackVars, recvVars, accepted>>
  ELSE /\ expectedSeq' = [expectedSeq EXCEPT ![e] = SeqInc(@)]
       /\ rxRecv' = [rxRecv EXCEPT ![e] = Append(@, p.item)]
       /\ rxFree' = [rxFree EXCEPT ![e] = @ - 1]
       /\ AJ_SerialTx_ReceivedSeq(e, p.seq)
       /\ accepted' = [accepted EXCEPT ![Peer[e]] =
                         IF p.item.ep = Epoch(Peer[e]) THEN p.item.n ELSE @]

\* CompletePacket for a DATA packet that passed the checks, after its ack.  One that is
\* ahead of the expected one is ignored, one that is behind is acknowledged again.
RxData(e, p) ==
  IF p.seq # expectedSeq[e]
  THEN /\ IF SEQ_GT(e, p.seq, expectedSeq[e])
          THEN UNCHANGED <<txQueue, ackVars>>
          ELSE AJ_SerialTx_ReceivedSeq(e, p.seq)
       /\ UNCHANGED <<recvVars, accepted>>
  ELSE /\ expectedSeq' = [expectedSeq EXCEPT ![e] = SeqInc(@)]
       /\ rxRecv' = [rxRecv EXCEPT ![e] = Append(@, p.item)]
       /\ rxFree' = [rxFree EXCEPT ![e] = @ - 1]
       /\ AJ_SerialTx_ReceivedSeq(e, p.seq)
       /\ accepted' = [accepted EXCEPT ![Peer[e]] =
                         IF p.item.ep = Epoch(Peer[e]) THEN p.item.n ELSE @]

\* One round of AJ_ProcessRxBufferList: the oldest receive buffer goes through
\* UART_RxComplete and CompletePacket and is free again.  It takes a free packet.
RxTake(e) ==
  /\ pc[e] = "rx" /\ rxBuf[e] # <<>> /\ rxFree[e] > 0
  /\ rxBuf' = [rxBuf EXCEPT ![e] = Tail(@)]
  /\ UNCHANGED <<appVars, txSeqNum, txBuf, dataSent, linkTimer, log, delivered>>

RxControl(e) ==
  /\ RxTake(e)
  /\ Head(rxBuf[e]).pkt.type = "CTRL"
  /\ AJ_Serial_LinkPacket(e, Head(rxBuf[e]).pkt)
  /\ UNCHANGED <<txSent, txFree, resendTimer, resendPrimed, ackVars, recvVars, accepted>>

\* Non-link packets are discarded while the link is not active, long ones at any time.
RxDiscard(e) ==
  /\ RxTake(e)
  /\ Head(rxBuf[e]).pkt.type # "CTRL"
  /\ linkState[e] # "ACTIVE" \/ Overrun(e, Head(rxBuf[e]).pkt)
  /\ UNCHANGED <<linkState, windowSize, packetSize, sendVars, ackVars, recvVars, accepted>>

RxPacket(e) ==
  LET f == Head(rxBuf[e]) IN
  /\ RxTake(e)
  /\ f.pkt.type # "CTRL"
  /\ linkState[e] = "ACTIVE" /\ ~Overrun(e, f.pkt)
  /\ AJ_SerialTx_ReceivedAck(e, f.ack)
  /\ IF f.pkt.type = "DATA" THEN RxData(e, f.pkt)
     ELSE UNCHANGED <<txQueue, ackVars, recvVars, accepted>>
  /\ UNCHANGED <<linkState, windowSize, packetSize>>

\* AJ_SerialRecv: the application takes the oldest packets off the receive queue, as
\* many as its buffer needs (a read that ends inside a packet leaves it there), and runs
\* the state machine.  On a dead link it returns AJ_ERR_LINK_DEAD and does nothing.
AJ_SerialRecv(e) ==
  /\ pc[e] # "rx" /\ call[e] = "none" /\ linkState[e] # "DEAD"
  /\ \E k \in 0..Len(rxRecv[e]) :
       /\ delivered' = [delivered EXCEPT ![e] = @ \o SubSeq(rxRecv[e], 1, k)]
       /\ rxRecv' = [rxRecv EXCEPT ![e] = SubSeq(@, k + 1, Len(@))]
       /\ rxFree' = [rxFree EXCEPT ![e] = @ + k]
  /\ pc' = [pc EXCEPT ![e] = "rx"]
  /\ UNCHANGED <<call, left, linkVars, sendVars, txSeqNum, ackVars, expectedSeq, bufVars,
                 log, accepted>>
=============================================================================
