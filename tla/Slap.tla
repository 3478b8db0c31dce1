-------------------------------- MODULE Slap --------------------------------
(***************************************************************************)
(* Two endpoints, each running the SLAP serial transport on one thread,    *)
(* and the UART line between them.                                         *)
(*                                                                         *)
(* AJ_SerialSend, AJ_SerialRecv and AJ_SerialDisconnect call the state     *)
(* machine of the transport.  One pass of AJ_StateMachine processes the    *)
(* receive buffers (pc = "rx"), fills the transmit buffers, and runs each  *)
(* of three timers that has passed: at pc = "resend" all three are still   *)
(* to come, at "ack" the last two, at "link" the last.  A timer that has   *)
(* not passed is left alone, so from all of these the thread may be back in*)
(* the application, as it is at "app".  The callbacks of the UART          *)
(* interleave with the steps of the thread.                                *)
(***************************************************************************)
EXTENDS SlapRx

Init ==
  /\ linkState  = [e \in Endpoint |-> "UNINITIALIZED"]
  /\ windowSize = MaxWindow
  /\ packetSize = MaxPacket
  /\ linkTimer  = [e \in Endpoint |-> TRUE]
  /\ txQueue    = [e \in Endpoint |-> <<>>]
  /\ txSent     = [e \in Endpoint |-> <<>>]
  /\ txFree     = MaxWindow
  /\ txSeqNum   = [e \in Endpoint |-> 0]
  /\ resendTimer  = [e \in Endpoint |-> FALSE]
  /\ resendPrimed = [e \in Endpoint |-> FALSE]
  /\ pendingAcks  = [e \in Endpoint |-> 0]
  /\ currentTxAck = [e \in Endpoint |-> 0]
  /\ ackTimer     = [e \in Endpoint |-> FALSE]
  /\ rxRecv      = [e \in Endpoint |-> <<>>]
  /\ rxFree      = MaxWindow
  /\ expectedSeq = [e \in Endpoint |-> 0]
  /\ txBuf = [e \in Endpoint |-> <<>>]
  /\ rxBuf = [e \in Endpoint |-> <<>>]
  /\ dataSent = [e \in Endpoint |-> TRUE]
  /\ pc    = [e \in Endpoint |-> "app"]
  /\ call  = [e \in Endpoint |-> "none"]
  /\ left  = [e \in Endpoint |-> 0]
  /\ log       = [e \in Endpoint |-> <<0>>]
  /\ accepted  = [e \in Endpoint |-> 0]
  /\ delivered = [e \in Endpoint |-> <<>>]

\* The application calls AJ_SerialSend with a buffer of MsgLen packets.
StartSend(e) ==
  /\ pc[e] # "rx" /\ call[e] = "none"
  /\ Queued(e) + MsgLen[e] <= Budget[e]
  /\ call' = [call EXCEPT ![e] = "send"]
  /\ left' = [left EXCEPT ![e] = MsgLen[e]]
  /\ pc' = [pc EXCEPT ![e] = "app"]
  /\ UNCHANGED <<linkVars, sendVars, txSeqNum, ackVars, recvVars, bufVars, histVars>>

\* AJ_TransmitCallback has sent the oldest transmit buffer, which is free again, and
\* AJ_ReceiveCallback of the other end has it in a receive buffer ...
Deliver(e) ==
  /\ txBuf[e] # <<>> /\ Len(rxBuf[Peer[e]]) < RxBufs[Peer[e]]
  /\ txBuf' = [txBuf EXCEPT ![e] = Tail(@)]
  /\ dataSent' = [dataSent EXCEPT ![e] = TRUE]
  /\ rxBuf' = [rxBuf EXCEPT ![Peer[e]] = Append(@, Head(txBuf[e]))]
  /\ UNCHANGED <<linkVars, sendVars, txSeqNum, ackVars, recvVars, appVars, histVars>>

\* ... or not: it is damaged on the line, or no receive buffer is free.
Lose(e) ==
  /\ txBuf[e] # <<>>
  /\ txBuf' = [txBuf EXCEPT ![e] = Tail(@)]
  /\ dataSent' = [dataSent EXCEPT ![e] = TRUE]
  /\ UNCHANGED <<rxBuf, linkVars, sendVars, txSeqNum, ackVars, recvVars, appVars, histVars>>

Next == \E e \in Endpoint :
  \/ StartSend(e) \/ AJ_SerialSend(e) \/ AJ_SerialRecv(e) \/ AJ_SerialDisconnect(e)
  \/ RxControl(e) \/ RxDiscard(e) \/ RxPacket(e)
  \/ FillTxBuffers(e) \/ ResendPackets(e) \/ SendAck(e) \/ SendLinkPacket(e)
  \/ Deliver(e) \/ Lose(e)
  \/ AJ_SerialInit(e)

Spec == Init /\ [][Next]_vars

(***************************************************************************)
(* Fairness.  A thread that can take a step takes one: AJ_StateMachine     *)
(* never blocks, and an application that is not sending keeps calling      *)
(* AJ_SerialRecv (the main loop of aj_helper.c).  A set timer passes in    *)
(* some round, and the UART sends every buffer.  Damage on the line does   *)
(* not depend on the contents of a frame: of the frames with the same      *)
(* payload that are sent again and again, one arrives.                     *)
(***************************************************************************)
PayloadOf(p) ==
  CASE p.type = "ACK" -> <<"ACK">> [] p.type = "DATA" -> <<"DATA", p.item.n>>
    [] OTHER -> <<"CTRL", p.kind>>
DeliverPayload(e, c) ==
  /\ Deliver(e)
  /\ PayloadOf(Head(txBuf[e]).pkt) = c

Thread(e) ==
  \/ AJ_SerialSend(e) \/ AJ_SerialRecv(e) \/ DisconnectWaits(e) \/ DisconnectEnds(e)
  \/ RxControl(e) \/ RxDiscard(e) \/ RxPacket(e)
  \/ FillTxBuffers(e)
  \/ ResendPackets(e) \/ SendAck(e) \/ SendLinkPacket(e)

Scheduled(e) == WF_vars(Thread(e)) /\ WF_vars(Deliver(e) \/ Lose(e))
Arrives(e, payloads) == \A c \in payloads : SF_vars(DeliverPayload(e, c))

(***************************************************************************)
(* A later start, for runs about data transfer: the state in the middle of *)
(* the behaviours of Spec where the handshake is over at both ends, and    *)
(* Done[e] packets of e have been sent, read and acknowledged.             *)
(***************************************************************************)
InitUp ==
  /\ linkState  = [e \in Endpoint |-> "ACTIVE"]
  /\ windowSize = [e \in Endpoint |-> Least(MaxWindow[e],
                                       DecodeWindow(EncodeWindow(MaxWindow[Peer[e]])))]
  /\ packetSize = [e \in Endpoint |-> Least(MaxPacket[e], MaxPacket[Peer[e]])]
  /\ linkTimer  = [e \in Endpoint |-> FALSE]
  /\ txQueue    = [e \in Endpoint |-> <<>>]
  /\ txSent     = [e \in Endpoint |-> <<>>]
  /\ txFree     = MaxWindow
  /\ txSeqNum   = [e \in Endpoint |-> Done[e] % 8]
  /\ resendTimer  = [e \in Endpoint |-> FALSE]
  /\ resendPrimed = [e \in Endpoint |-> FALSE]
  /\ pendingAcks  = [e \in Endpoint |-> 0]
  /\ currentTxAck = [e \in Endpoint |-> Done[Peer[e]] % 8]
  /\ ackTimer     = [e \in Endpoint |-> FALSE]
  /\ rxRecv      = [e \in Endpoint |-> <<>>]
  /\ rxFree      = MaxWindow
  /\ expectedSeq = [e \in Endpoint |-> Done[Peer[e]] % 8]
  /\ txBuf = [e \in Endpoint |-> <<>>]
  /\ rxBuf = [e \in Endpoint |-> <<>>]
  /\ dataSent = [e \in Endpoint |-> TRUE]
  /\ pc    = [e \in Endpoint |-> "app"]
  /\ call  = [e \in Endpoint |-> "none"]
  /\ left  = [e \in Endpoint |-> 0]
  /\ log       = [e \in Endpoint |-> <<Done[e]>>]
  /\ accepted  = Done
  /\ delivered = [e \in Endpoint |-> [n \in 1..Done[Peer[e]] |-> [ep |-> 1, n |-> n]]]

SpecUp == InitUp /\ [][Next]_vars

-----------------------------------------------------------------------------
\* Every variable keeps to the values the C declarations and lists allow.
LinkOK ==
  /\ linkState \in [Endpoint -> LinkState]
  /\ windowSize \in [Endpoint -> MIN_WINDOW_SIZE..MAX_WINDOW_SIZE]
  /\ packetSize \in [Endpoint -> Nat \ {0}]
  /\ linkTimer \in [Endpoint -> BOOLEAN]
SendOK ==
  /\ txQueue \in [Endpoint -> Seq(TxPkt)]
  /\ txSent \in [Endpoint -> Seq(DataPkt)]
  /\ txFree \in [Endpoint -> Nat]
  /\ txSeqNum \in [Endpoint -> 0..7]
  /\ resendTimer \in [Endpoint -> BOOLEAN]
  /\ resendPrimed \in [Endpoint -> BOOLEAN]
AckOK ==
  /\ pendingAcks \in [Endpoint -> 0..MaxPendingAcks]
  /\ currentTxAck \in [Endpoint -> 0..7]
  /\ ackTimer \in [Endpoint -> BOOLEAN]
RecvOK ==
  /\ rxRecv \in [Endpoint -> Seq(Item)]
  /\ rxFree \in [Endpoint -> Nat]
  /\ expectedSeq \in [Endpoint -> 0..7]
BufOK ==
  /\ txBuf \in [Endpoint -> Seq(Frame)]
  /\ rxBuf \in [Endpoint -> Seq(Frame)]
  /\ dataSent \in [Endpoint -> BOOLEAN]
  /\ \A e \in Endpoint : Len(txBuf[e]) <= TxBufs[e] /\ Len(rxBuf[e]) <= RxBufs[e]
AppOK ==
  /\ pc \in [Endpoint -> {"app", "rx", "resend", "ack", "link"}]
  /\ call \in [Endpoint -> {"none", "send", "disconnect"}]
  /\ left \in [Endpoint -> Nat]
HistOK ==
  /\ log \in [Endpoint -> Seq(Nat) \ {<<>>}]
  /\ accepted \in [Endpoint -> Nat]
  /\ delivered \in [Endpoint -> Seq(Item)]
TypeOK == LinkOK /\ SendOK /\ AckOK /\ RecvOK /\ BufOK /\ AppOK /\ HistOK

\* What an endpoint has accepted in this incarnation, in order.
Received(e) == delivered[e] \o rxRecv[e]

\* Whatever is lost, resent or acknowledged twice, an endpoint accepts the
\* packets of one incarnation of its peer in order, each once (CompletePacket's test of
\* expectedSeq, with sequence numbers that wrap at 8).
InOrder == \A e \in Endpoint : \A i \in 1..Len(Received(e)) :
  /\ Received(e)[i].n = i
  /\ Received(e)[i].ep = Received(e)[1].ep

\* A packet that ReceivedAck returns to the free list has been accepted by the peer: no
\* stale, repeated or aliased ack frees one that is still on its way.
FreedWasAccepted == [][\A e \in Endpoint :
  Epoch(e)' = Epoch(e) /\ txFree'[e] > txFree[e] =>
    \A i \in 1..(txFree'[e] - txFree[e]) : txSent[e][i].item.n <= accepted[e]]_vars

\* A packet of this incarnation that the peer has not accepted is still held: it is
\* queued or waiting for its ack.  The comment of ResendPackets: "To preserve packet
\* order, all unacknowleged packets must be resent."
Holds(e, n) ==
  \/ \E i \in 1..Len(txQueue[e]) : txQueue[e][i].type = "DATA" /\ txQueue[e][i].item.n = n
  \/ \E i \in 1..Len(txSent[e]) : txSent[e][i].item.n = n
NothingDropped == \A e \in Endpoint :
  \A n \in (accepted[e] + 1)..Queued(e) : Holds(e, n)

\* On an active link no packet waits for an ack without the timer that resends it, and
\* no received packet waits to be acknowledged without the timer that does that.
TimersArmed == \A e \in Endpoint :
  /\ linkState[e] = "ACTIVE" /\ txSent[e] # <<>> => resendTimer[e]
  /\ pendingAcks[e] > 0 => ackTimer[e]

\* The comment of QueueUnreliable: it "would NOT be OK for the unreliable packet to get
\* queued twice".  It is only ever the first of the queue.
OnlyFirstUnreliable(q) == \A i \in 2..Len(q) : q[i].type = "DATA"
UnreliableQueuedOnce == \A e \in Endpoint : OnlyFirstUnreliable(txQueue[e])

\* Packets are on one list each, and none appears from nowhere: the transmit lists hold
\* no more than was allocated, the receive lists exactly that.
QueuedData(e) == {i \in 1..Len(txQueue[e]) : txQueue[e][i].type = "DATA"}
PacketsConserved == \A e \in Endpoint :
  /\ \A i \in QueuedData(e) : \A j \in 1..Len(txSent[e]) :
       txSent[e][j].item.n < txQueue[e][i].item.n
  /\ txFree[e] + Len(txSent[e]) <= MaxWindow[e]
  /\ rxFree[e] + Len(rxRecv[e]) = MaxWindow[e]

\* The number the transmit side acknowledges is the one the receive side expects.
AckIsExpectedSeq == \A e \in Endpoint : currentTxAck[e] = expectedSeq[e]

\* When both ends are ACTIVE they use the same window and packet size ("Converge the
\* remote endpoint's values with my own").
BothActiveAgree == \A e \in Endpoint :
  linkState[e] = "ACTIVE" /\ linkState[Peer[e]] = "ACTIVE" =>
    /\ windowSize[e] = windowSize[Peer[e]]
    /\ packetSize[e] = packetSize[Peer[e]]

\* An end that is ACTIVE has had its own offer answered, so its peer works with values
\* this end can take ("Converge the remote endpoint's values with my own"): the window and
\* the packet size of the peer are no larger than the ones this end offered.
PeerTookMyOffer == \A e \in Endpoint :
  linkState[e] = "ACTIVE" =>
    /\ linkState[Peer[e]] # "UNINITIALIZED"
    /\ windowSize[Peer[e]] <= MaxWindow[e]
    /\ packetSize[Peer[e]] <= MaxPacket[e]

\* The abstract stream this transport implements.
Stream == INSTANCE SerialStream WITH got <- [e \in Endpoint |-> Received(e)]
StreamSpec == Stream!Spec

-----------------------------------------------------------------------------
\* The resend timer of e is patient when it passes only with nothing of an exchange under
\* way: no frame of e before its peer, and no ack that is due, queued or sent back.
\* AdjustTimeoutValues aims at that ("acknowledgement packets should be sent within twice
\* the time to send one packet", resends "shortly after three times") and does not ensure
\* it, so what follows is promised of a link whose timers are patient in the end, and
\* which the splice of ResendPackets has not made drop a packet.
Underway(e) ==
  \/ txBuf[e] # <<>> \/ rxBuf[Peer[e]] # <<>>
  \/ ackTimer[Peer[e]] \/ txQueue[Peer[e]] # <<>> \/ txBuf[Peer[e]] # <<>> \/ rxBuf[e] # <<>>
ResendsPatient == <>[][\A e \in Endpoint : ResendPackets(e) => ~Underway(e)]_vars
LinkWorks == []NothingDropped /\ ResendsPatient

\* AJ_SerialSend "blocks until the data has been queued or sent": on a link that works no
\* call blocks for ever, whatever was resent or lost before.
SendReturns == LinkWorks => []<>(\A e \in Endpoint : call[e] # "send")

\* Everything queued is delivered to the application of the other end, on a link that
\* works: whatever was resent or lost before, some round catches up.
AllDelivered == LinkWorks =>
  []<>(\A e \in Endpoint : Len(delivered[Peer[e]]) = Queued(e))

\* Both ends come up.
LinkComesUp == <>(\A e \in Endpoint : linkState[e] = "ACTIVE")
=============================================================================
