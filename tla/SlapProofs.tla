----------------------------- MODULE SlapProofs -----------------------------
(***************************************************************************)
(* Theorems about Slap for every window, packet size and number of packets:*)
(* type correctness, the timers, and the packet lists.                     *)
(*                                                                         *)
(* TypeOK is not inductive by itself: that only DATA packets get to txSent *)
(* depends on the unreliable packet being nowhere but at the head of       *)
(* txQueue, so the two are proved together.                                *)
(***************************************************************************)
EXTENDS Slap, SequenceTheorems, TLAPS

Inv == TypeOK /\ UnreliableQueuedOnce

-----------------------------------------------------------------------------
\* Queues and packets.

\* Control packets are what Ctrl makes of any kind and packet size.
LEMMA CtrlType ==
  ASSUME NEW e \in Endpoint, NEW kind \in LinkPktType, NEW size \in Nat \ {0}
  PROVE  Ctrl(e, kind, size) \in CtrlPkt
BY SlapAssumption DEF Ctrl, CtrlPkt, NegoPkt, EncodeWindow, LinkPktType, NegoPktType,
   MIN_WINDOW_SIZE, MAX_WINDOW_SIZE

\* A DATA packet is one of the packets of the transmit side, and reliable.
LEMMA DataIsTx ==
  /\ \A p \in DataPkt : p \in TxPkt /\ p.type = "DATA"
  /\ Seq(DataPkt) \subseteq Seq(TxPkt)
<1>1. \A p \in DataPkt : p \in TxPkt /\ p.type = "DATA"
  BY DEF DataPkt, TxPkt
<1>2. DataPkt \subseteq TxPkt
  BY DEF TxPkt
<1> QED
  BY <1>1, <1>2, SeqMonotonic, Zenon

\* ... and a reliable packet is a DATA packet.
LEMMA ReliableIsData ==
  ASSUME NEW p \in TxPkt, ~IsUnreliable(p)
  PROVE  p \in DataPkt
BY DEF TxPkt, CtrlPkt, NegoPkt, AckPkt, IsUnreliable

\* Sequence numbers stay within three bits.
LEMMA Mod8 == ASSUME NEW i \in Int PROVE i % 8 \in 0..7
OBVIOUS

\* The windows of AJ_SerialInit.
LEMMA MaxWindowType == MaxWindow \in [Endpoint -> 1..4] /\ MaxWindow \in [Endpoint -> Nat]
<1>1. MaxWindow \in [Endpoint -> 1..4]
  BY SlapAssumption DEF MIN_WINDOW_SIZE, MAX_WINDOW_SIZE
<1>2. 1..4 \subseteq Nat
  OBVIOUS
<1> QED
  BY <1>1, <1>2

\* DATA packets may be put behind any queue.
LEMMA ConcatUnreliable ==
  ASSUME NEW q \in Seq(TxPkt), OnlyFirstUnreliable(q), NEW r \in Seq(TxPkt),
         \A i \in 1..Len(r) : r[i].type = "DATA"
  PROVE  q \o r \in Seq(TxPkt) /\ OnlyFirstUnreliable(q \o r)
<1>1. /\ q \o r \in Seq(TxPkt)
      /\ Len(q \o r) = Len(q) + Len(r)
      /\ \A i \in 1..Len(q) + Len(r) :
           (q \o r)[i] = IF i <= Len(q) THEN q[i] ELSE r[i - Len(q)]
  BY ConcatProperties
<1>2. Len(q) \in Nat /\ Len(r) \in Nat
  BY LenProperties
<1> QED
  BY <1>1, <1>2 DEF OnlyFirstUnreliable

\* What is left when packets are taken off the front is such a queue, too.
LEMMA DropUnreliable ==
  ASSUME NEW q \in Seq(TxPkt), OnlyFirstUnreliable(q), NEW k \in Nat, k <= Len(q)
  PROVE  /\ SubSeq(q, k + 1, Len(q)) \in Seq(TxPkt)
         /\ OnlyFirstUnreliable(SubSeq(q, k + 1, Len(q)))
<1> DEFINE r == SubSeq(q, k + 1, Len(q))
<1>1. Len(q) \in Nat /\ \A i \in 1..Len(q) : q[i] \in TxPkt
  BY LenProperties, ElementOfSeq
<1>2. /\ r \in Seq(TxPkt)
      /\ Len(r) = Len(q) - k
      /\ \A i \in 1..Len(r) : r[i] = q[k + i]
  BY <1>1
<1> HIDE DEF r
<1>3. OnlyFirstUnreliable(r)
  BY <1>1, <1>2 DEF OnlyFirstUnreliable
<1> QED
  BY <1>2, <1>3 DEF r

\* QueueUnreliable keeps a queue a queue whose first packet only may be unreliable.
LEMMA QueueUnreliableType ==
  ASSUME NEW q \in Seq(TxPkt), OnlyFirstUnreliable(q), NEW p \in TxPkt
  PROVE  /\ QueueUnreliable(q, p) \in Seq(TxPkt)
         /\ OnlyFirstUnreliable(QueueUnreliable(q, p))
<1>1. CASE q # <<>> /\ IsUnreliable(Head(q))
  BY <1>1, HeadTailProperties, ConcatProperties DEF QueueUnreliable, OnlyFirstUnreliable
<1>2. CASE ~(q # <<>> /\ IsUnreliable(Head(q)))
  <2>1. \A i \in 1..Len(q) : q[i].type = "DATA"
    BY <1>2 DEF IsUnreliable, OnlyFirstUnreliable
  <2> QED
    BY <1>2, <2>1, ConcatProperties DEF QueueUnreliable, OnlyFirstUnreliable
<1> QED
  BY <1>1, <1>2

\* A function on 1..n is a sequence.
LEMMA FunctionIsSeq ==
  ASSUME NEW S, NEW n \in Nat, NEW f \in [1..n -> S]
  PROVE  f \in Seq(S) /\ Len(f) = n
OBVIOUS

\* Requeue puts sent packets back without moving an unreliable packet from the head.
LEMMA RequeueType ==
  ASSUME NEW q \in Seq(TxPkt), OnlyFirstUnreliable(q), NEW sent \in Seq(DataPkt), sent # <<>>
  PROVE  /\ Requeue(q, sent) \in Seq(TxPkt)
         /\ OnlyFirstUnreliable(Requeue(q, sent))
<1>1. sent \in Seq(TxPkt) /\ Len(sent) \in Nat \ {0}
  BY DataIsTx, EmptySeq
<1>2. \A i \in 1..Len(sent) : sent[i] \in TxPkt /\ sent[i].type = "DATA"
  BY DataIsTx, ElementOfSeq
<1>3. CASE q # <<>> /\ IsUnreliable(Head(q))
  <2> DEFINE h == <<Head(q), sent[Len(sent)]>>
  <2>1. h \in Seq(TxPkt) /\ Len(h) = 2 /\ h[2].type = "DATA"
    <3>1. Head(q) \in TxPkt
      BY <1>3, HeadTailProperties
    <3>2. sent[Len(sent)] \in TxPkt /\ sent[Len(sent)].type = "DATA"
      BY <1>1, <1>2
    <3> QED
      BY <3>1, <3>2
  <2>2. Tail(q) \in Seq(TxPkt) /\ \A i \in 1..Len(Tail(q)) : Tail(q)[i].type = "DATA"
    BY <1>3, HeadTailProperties DEF OnlyFirstUnreliable
  <2>3. Requeue(q, sent) = h \o Tail(q)
    BY <1>3 DEF Requeue
  <2>4. OnlyFirstUnreliable(h)
    BY <2>1 DEF OnlyFirstUnreliable
  <2> QED
    BY <2>1, <2>2, <2>3, <2>4, ConcatUnreliable
<1>4. CASE ~(q # <<>> /\ IsUnreliable(Head(q)))
  <2>1. \A i \in 1..Len(q) : q[i].type = "DATA"
    BY <1>4 DEF IsUnreliable, OnlyFirstUnreliable
  <2>2. Requeue(q, sent) = sent \o q
    BY <1>4 DEF Requeue
  <2> QED
    BY <1>1, <1>2, <2>1, <2>2, ConcatProperties DEF OnlyFirstUnreliable
<1> QED
  BY <1>3, <1>4

\* The packets that AJ_SerialSend queues.
LEMMA NewPacketsType ==
  ASSUME TypeOK, NEW e \in Endpoint, NEW k \in Nat
  PROVE  /\ NewPackets(e, k) \in Seq(DataPkt)
         /\ Len(NewPackets(e, k)) = k
         /\ Epoch(e) \in Nat \ {0}
         /\ Queued(e) \in Nat
<1>1. Epoch(e) \in Nat \ {0} /\ Queued(e) \in Nat
  BY EmptySeq, ElementOfSeq DEF TypeOK, HistOK, Epoch, Queued
<1>2. \A i \in 1..k : [type |-> "DATA", seq |-> (txSeqNum[e] + i - 1) % 8,
                       len  |-> packetSize[e],
                       item |-> [ep |-> Epoch(e), n |-> Queued(e) + i]] \in DataPkt
  <2> SUFFICES ASSUME NEW i \in 1..k
               PROVE  [type |-> "DATA", seq |-> (txSeqNum[e] + i - 1) % 8,
                       len  |-> packetSize[e],
                       item |-> [ep |-> Epoch(e), n |-> Queued(e) + i]] \in DataPkt
    OBVIOUS
  <2>1. (txSeqNum[e] + i - 1) % 8 \in 0..7
    <3>1. txSeqNum[e] \in 0..7
      BY DEF TypeOK, SendOK
    <3>2. txSeqNum[e] + i - 1 \in Int
      BY <3>1
    <3> QED
      BY <3>2, Mod8
  <2>2. packetSize[e] \in Nat \ {0}
    BY DEF TypeOK, LinkOK
  <2>3. [ep |-> Epoch(e), n |-> Queued(e) + i] \in Item
    BY <1>1 DEF Item
  <2> QED
    BY <2>1, <2>2, <2>3 DEF DataPkt
<1>3. NewPackets(e, k) \in [1..k -> DataPkt]
  BY <1>2 DEF NewPackets
<1> QED
  BY <1>1, <1>3, FunctionIsSeq

-----------------------------------------------------------------------------
\* Every action keeps Inv.
LEMMA SendGivesUpInv ==
  ASSUME Inv, NEW e \in Endpoint, SendGivesUp(e)
  PROVE  Inv'
BY DEF Inv, TypeOK, LinkOK, SendOK, AckOK, RecvOK, BufOK, AppOK, HistOK,
   UnreliableQueuedOnce, SendGivesUp, linkVars, sendVars, ackVars, recvVars, bufVars,
   appVars, histVars

LEMMA SendWaitsInv ==
  ASSUME Inv, NEW e \in Endpoint, SendWaits(e)
  PROVE  Inv'
BY DEF Inv, TypeOK, LinkOK, SendOK, AckOK, RecvOK, BufOK, AppOK, HistOK,
   UnreliableQueuedOnce, SendWaits, linkVars, sendVars, ackVars, recvVars, bufVars,
   appVars, histVars

LEMMA SendAckInv ==
  ASSUME Inv, NEW e \in Endpoint, SendAck(e)
  PROVE  Inv'
<1>1. Ack \in TxPkt
  BY DEF Ack, TxPkt, AckPkt
<1>2. QueueUnreliable(txQueue[e], Ack) \in Seq(TxPkt)
      /\ OnlyFirstUnreliable(QueueUnreliable(txQueue[e], Ack))
  BY <1>1, QueueUnreliableType DEF Inv, TypeOK, SendOK, UnreliableQueuedOnce
<1>3. SendOK' /\ UnreliableQueuedOnce'
  BY <1>2 DEF Inv, TypeOK, SendOK, SendAck, UnreliableQueuedOnce
<1>4. AckOK' /\ AppOK'
  BY DEF Inv, TypeOK, AckOK, AppOK, SendAck, NextTimer, MaxPendingAcks, MAX_WINDOW_SIZE
<1> QED
  BY <1>3, <1>4 DEF Inv, TypeOK, LinkOK, RecvOK, BufOK, HistOK, SendAck, linkVars, recvVars,
     bufVars, histVars

LEMMA SendQueuesInv ==
  ASSUME Inv, NEW e \in Endpoint, SendQueues(e)
  PROVE  Inv'
<1> DEFINE k == Least(txFree[e], left[e])
<1>1. k \in Nat /\ k <= txFree[e] /\ k <= left[e] /\ txFree[e] \in Nat /\ left[e] \in Nat
  BY DEF Inv, TypeOK, SendOK, AppOK, Least
<1>2. /\ NewPackets(e, k) \in Seq(TxPkt)
      /\ \A i \in 1..Len(NewPackets(e, k)) : NewPackets(e, k)[i].type = "DATA"
      /\ Epoch(e) \in Nat \ {0} /\ Queued(e) \in Nat
  BY <1>1, NewPacketsType, DataIsTx, ElementOfSeq DEF Inv
<1>3. /\ txQueue[e] \o NewPackets(e, k) \in Seq(TxPkt)
      /\ OnlyFirstUnreliable(txQueue[e] \o NewPackets(e, k))
  BY <1>2, ConcatUnreliable DEF Inv, TypeOK, SendOK, UnreliableQueuedOnce
<1>4. /\ txQueue' = [txQueue EXCEPT ![e] = @ \o NewPackets(e, k)]
      /\ txFree' = [txFree EXCEPT ![e] = @ - k]
      /\ txSeqNum' = [txSeqNum EXCEPT ![e] = (@ + k) % 8]
      /\ left' = [left EXCEPT ![e] = @ - k]
      /\ call' = [call EXCEPT ![e] = IF left[e] = k THEN "none" ELSE @]
      /\ pc' = [pc EXCEPT ![e] = "app"]
      /\ log' = [log EXCEPT ![e][Epoch(e)] = @ + k]
      /\ UNCHANGED <<linkVars, txSent, resendTimer, resendPrimed, ackVars, recvVars,
                     bufVars, accepted, delivered>>
  BY DEF SendQueues
<1>5. txFree[e] - k \in Nat /\ left[e] - k \in Nat
  BY <1>1
<1>6. (txSeqNum[e] + k) % 8 \in 0..7
  <2>1. txSeqNum[e] \in 0..7
    BY DEF Inv, TypeOK, SendOK
  <2>2. txSeqNum[e] + k \in Int
    BY <1>1, <2>1
  <2> QED
    BY <2>2, Mod8
<1> HIDE DEF k
<1>7. SendOK' /\ UnreliableQueuedOnce'
  BY <1>3, <1>4, <1>5, <1>6 DEF Inv, TypeOK, SendOK, UnreliableQueuedOnce
<1>8. AppOK'
  BY <1>4, <1>5 DEF Inv, TypeOK, AppOK
<1>9. HistOK'
  <2> DEFINE l == [log[e] EXCEPT ![Epoch(e)] = @ + k]
  <2>1. log[e] \in Seq(Nat) /\ Epoch(e) \in 1..Len(log[e]) /\ Queued(e) + k \in Nat
    BY <1>1, <1>2 DEF Inv, TypeOK, HistOK, Epoch
  <2>2. l \in Seq(Nat) /\ Len(l) = Len(log[e])
    BY <2>1, ExceptSeq DEF Queued
  <2>3. l # <<>>
    BY <1>2, <2>2, EmptySeq DEF Epoch
  <2>4. log' = [log EXCEPT ![e] = l]
    BY <1>4
  <2> HIDE DEF l
  <2> QED
    BY <1>4, <2>2, <2>3, <2>4 DEF Inv, TypeOK, HistOK
<1> QED
  BY <1>4, <1>7, <1>8, <1>9 DEF Inv, TypeOK, LinkOK, AckOK, RecvOK, BufOK, linkVars, ackVars,
     recvVars, bufVars

LEMMA ResendPacketsInv ==
  ASSUME Inv, NEW e \in Endpoint, ResendPackets(e)
  PROVE  Inv'
<1>1. txQueue[e] \in Seq(TxPkt) /\ OnlyFirstUnreliable(txQueue[e]) /\ txSent[e] \in Seq(DataPkt)
  BY DEF Inv, TypeOK, SendOK, UnreliableQueuedOnce
<1>2. SendOK' /\ UnreliableQueuedOnce'
  <2>1. CASE linkState[e] = "ACTIVE" /\ txSent[e] # <<>>
    <3>1. /\ Requeue(txQueue[e], txSent[e]) \in Seq(TxPkt)
          /\ OnlyFirstUnreliable(Requeue(txQueue[e], txSent[e]))
      BY <1>1, <2>1, RequeueType
    <3>2. <<>> \in Seq(DataPkt)
      BY EmptySeq
    <3> QED
      BY <2>1, <3>1, <3>2 DEF Inv, TypeOK, SendOK, ResendPackets, UnreliableQueuedOnce
  <2>2. CASE ~(linkState[e] = "ACTIVE" /\ txSent[e] # <<>>)
    BY <2>2 DEF Inv, TypeOK, SendOK, ResendPackets, UnreliableQueuedOnce
  <2> QED
    BY <2>1, <2>2
<1>3. AppOK'
  BY DEF Inv, TypeOK, AppOK, ResendPackets, NextTimer
<1> QED
  BY <1>2, <1>3 DEF Inv, TypeOK, LinkOK, AckOK, RecvOK, BufOK, HistOK, ResendPackets,
     linkVars, ackVars, recvVars, bufVars, histVars

LEMMA SendLinkPacketInv ==
  ASSUME Inv, NEW e \in Endpoint, SendLinkPacket(e)
  PROVE  Inv'
<1> DEFINE sends == linkState[e] \in DOMAIN TimedPacket
           p == Ctrl(e, TimedPacket[linkState[e]], packetSize[e])
<1>1. ASSUME sends
      PROVE  /\ QueueUnreliable(txQueue[e], p) \in Seq(TxPkt)
             /\ OnlyFirstUnreliable(QueueUnreliable(txQueue[e], p))
  <2>1. TimedPacket[linkState[e]] \in LinkPktType
    BY <1>1 DEF TimedPacket, LinkPktType, NegoPktType
  <2>2. p \in TxPkt
    BY <2>1, CtrlType DEF Inv, TypeOK, LinkOK, TxPkt
  <2> QED
    BY <2>2, QueueUnreliableType DEF Inv, TypeOK, SendOK, UnreliableQueuedOnce
<1>2. /\ pc' = [pc EXCEPT ![e] = "app"]
      /\ txQueue' = [txQueue EXCEPT ![e] = IF sends THEN QueueUnreliable(@, p) ELSE @]
      /\ linkTimer' = [linkTimer EXCEPT ![e] = sends]
      /\ UNCHANGED <<call, left, linkState, windowSize, packetSize, txSent, txFree,
                     resendTimer, resendPrimed, txSeqNum, ackVars, recvVars, bufVars, histVars>>
  BY DEF SendLinkPacket
<1>3. sends \in BOOLEAN
  OBVIOUS
<1> HIDE DEF sends, p
<1>4. SendOK' /\ UnreliableQueuedOnce'
  BY <1>1, <1>2 DEF Inv, TypeOK, SendOK, UnreliableQueuedOnce
<1>5. LinkOK' /\ AppOK'
  BY <1>2, <1>3 DEF Inv, TypeOK, LinkOK, AppOK
<1> QED
  BY <1>2, <1>4, <1>5 DEF Inv, TypeOK, AckOK, RecvOK, BufOK, HistOK, ackVars, recvVars,
     bufVars, histVars

LEMMA StartSendInv ==
  ASSUME Inv, NEW e \in Endpoint, StartSend(e)
  PROVE  Inv'
BY SlapAssumption DEF Inv, TypeOK, LinkOK, SendOK, AckOK, RecvOK, BufOK, AppOK, HistOK,
   UnreliableQueuedOnce, LinkState, StartSend, linkVars, sendVars, ackVars, recvVars, bufVars, histVars

LEMMA DisconnectInv ==
  ASSUME Inv, NEW e \in Endpoint, Disconnect(e)
  PROVE  Inv'
BY SlapAssumption DEF Inv, TypeOK, LinkOK, SendOK, AckOK, RecvOK, BufOK, AppOK, HistOK,
   UnreliableQueuedOnce, LinkState, Disconnect, linkVars, sendVars, ackVars, recvVars, bufVars, histVars

LEMMA DisconnectWaitsInv ==
  ASSUME Inv, NEW e \in Endpoint, DisconnectWaits(e)
  PROVE  Inv'
BY SlapAssumption DEF Inv, TypeOK, LinkOK, SendOK, AckOK, RecvOK, BufOK, AppOK, HistOK,
   UnreliableQueuedOnce, LinkState, DisconnectWaits, linkVars, sendVars, ackVars, recvVars, bufVars, histVars

LEMMA DisconnectEndsInv ==
  ASSUME Inv, NEW e \in Endpoint, DisconnectEnds(e)
  PROVE  Inv'
BY SlapAssumption DEF Inv, TypeOK, LinkOK, SendOK, AckOK, RecvOK, BufOK, AppOK, HistOK,
   UnreliableQueuedOnce, LinkState, DisconnectEnds, linkVars, sendVars, ackVars, recvVars, bufVars, histVars

LEMMA DeliverInv ==
  ASSUME Inv, NEW e \in Endpoint, Deliver(e)
  PROVE  Inv'
<1> DEFINE f == Peer[e]
<1>1. /\ f \in Endpoint /\ f # e /\ RxBufs[f] \in Nat
      /\ TxBufs[e] \in Nat /\ txBuf[e] \in Seq(Frame) /\ rxBuf[f] \in Seq(Frame)
  BY SlapAssumption DEF Inv, TypeOK, BufOK
<1>2. Tail(txBuf[e]) \in Seq(Frame) /\ Len(Tail(txBuf[e])) = Len(txBuf[e]) - 1
      /\ Head(txBuf[e]) \in Frame
  BY <1>1, HeadTailProperties DEF Deliver
<1>3. /\ Append(rxBuf[f], Head(txBuf[e])) \in Seq(Frame)
      /\ Len(Append(rxBuf[f], Head(txBuf[e]))) = Len(rxBuf[f]) + 1
  BY <1>1, <1>2, AppendProperties
<1>4. Len(txBuf[e]) \in Nat /\ Len(rxBuf[f]) \in Nat
  BY <1>1, LenProperties
<1>5. /\ txBuf' = [txBuf EXCEPT ![e] = Tail(@)]
      /\ dataSent' = [dataSent EXCEPT ![e] = TRUE]
      /\ rxBuf' = [rxBuf EXCEPT ![f] = Append(@, Head(txBuf[e]))]
      /\ Len(rxBuf[f]) < RxBufs[f]
  BY DEF Deliver
<1> HIDE DEF f
<1>6. BufOK'
  BY <1>1, <1>2, <1>3, <1>4, <1>5 DEF Inv, TypeOK, BufOK
<1> QED
  BY <1>6 DEF Inv, TypeOK, LinkOK, SendOK, AckOK, RecvOK, AppOK, HistOK, UnreliableQueuedOnce,
     Deliver, linkVars, sendVars, ackVars, recvVars, appVars, histVars

LEMMA LoseInv ==
  ASSUME Inv, NEW e \in Endpoint, Lose(e)
  PROVE  Inv'
<1>1. TxBufs[e] \in Nat /\ txBuf[e] \in Seq(Frame) /\ Len(txBuf[e]) \in Nat
  BY SlapAssumption, LenProperties DEF Inv, TypeOK, BufOK
<1>2. Tail(txBuf[e]) \in Seq(Frame) /\ Len(Tail(txBuf[e])) = Len(txBuf[e]) - 1
  BY <1>1, HeadTailProperties DEF Lose
<1>3. BufOK'
  BY <1>1, <1>2 DEF Inv, TypeOK, BufOK, Lose
<1> QED
  BY <1>3 DEF Inv, TypeOK, LinkOK, SendOK, AckOK, RecvOK, AppOK, HistOK, UnreliableQueuedOnce,
     Lose, linkVars, sendVars, ackVars, recvVars, appVars, histVars

LEMMA AJ_SerialInitInv ==
  ASSUME Inv, NEW e \in Endpoint, AJ_SerialInit(e)
  PROVE  Inv'
<1>1. MaxWindow[e] \in 1..4 /\ MaxPacket[e] \in Nat \ {0}
  BY SlapAssumption DEF MIN_WINDOW_SIZE, MAX_WINDOW_SIZE
<1>2. LinkOK'
  BY <1>1 DEF Inv, TypeOK, LinkOK, LinkState, AJ_SerialInit, MIN_WINDOW_SIZE, MAX_WINDOW_SIZE
<1>3. SendOK'
  BY <1>1 DEF Inv, TypeOK, SendOK, AJ_SerialInit
<1>4. UnreliableQueuedOnce'
  <2>1. OnlyFirstUnreliable(<<>>)
    BY DEF OnlyFirstUnreliable
  <2> QED
    BY <2>1 DEF Inv, TypeOK, SendOK, UnreliableQueuedOnce, AJ_SerialInit
<1>5. AckOK' /\ RecvOK'
  BY <1>1 DEF Inv, TypeOK, AckOK, RecvOK, AJ_SerialInit, MaxPendingAcks, MAX_WINDOW_SIZE
<1>6. BufOK' /\ AppOK'
  <2>1. <<>> \in Seq(Frame) /\ Len(<<>>) = 0 /\ TxBufs[e] \in Nat /\ RxBufs[e] \in Nat
    BY EmptySeq, SlapAssumption
  <2>2. /\ txBuf' = [txBuf EXCEPT ![e] = <<>>] /\ rxBuf' = [rxBuf EXCEPT ![e] = <<>>]
        /\ \E sent \in {dataSent[e], TRUE} : dataSent' = [dataSent EXCEPT ![e] = sent]
    BY DEF AJ_SerialInit
  <2>3. dataSent' \in [Endpoint -> BOOLEAN]
    BY <2>2 DEF Inv, TypeOK, BufOK
  <2>4. BufOK'
    BY <2>1, <2>2, <2>3 DEF Inv, TypeOK, BufOK
  <2>5. AppOK'
    BY DEF Inv, TypeOK, AppOK, AJ_SerialInit
  <2> QED
    BY <2>4, <2>5
<1>7. HistOK'
  <2>1. log[e] \in Seq(Nat)
    BY DEF Inv, TypeOK, HistOK
  <2>2. Append(log[e], 0) \in Seq(Nat) \ {<<>>}
    BY <2>1, AppendProperties
  <2> QED
    BY <2>2 DEF Inv, TypeOK, HistOK, AJ_SerialInit
<1> QED
  BY <1>2, <1>3, <1>4, <1>5, <1>6, <1>7 DEF Inv, TypeOK

LEMMA AJ_SerialRecvInv ==
  ASSUME Inv, NEW e \in Endpoint, AJ_SerialRecv(e)
  PROVE  Inv'
<1>1. PICK k \in 0..Len(rxRecv[e]) :
        /\ delivered' = [delivered EXCEPT ![e] = @ \o SubSeq(rxRecv[e], 1, k)]
        /\ rxRecv' = [rxRecv EXCEPT ![e] = SubSeq(@, k + 1, Len(@))]
        /\ rxFree' = [rxFree EXCEPT ![e] = @ + k]
  BY DEF AJ_SerialRecv
<1>2. rxRecv[e] \in Seq(Item) /\ delivered[e] \in Seq(Item) /\ k \in Nat
      /\ Len(rxRecv[e]) \in Nat /\ \A i \in 1..Len(rxRecv[e]) : rxRecv[e][i] \in Item
  BY LenProperties, ElementOfSeq DEF Inv, TypeOK, RecvOK, HistOK
<1>3. SubSeq(rxRecv[e], 1, k) \in Seq(Item) /\ SubSeq(rxRecv[e], k + 1, Len(rxRecv[e])) \in Seq(Item)
  BY <1>2, SubSeqProperties
<1>4. delivered[e] \o SubSeq(rxRecv[e], 1, k) \in Seq(Item)
  BY <1>2, <1>3, ConcatProperties
<1>5. RecvOK'
  BY <1>1, <1>2, <1>3 DEF Inv, TypeOK, RecvOK, AJ_SerialRecv
<1>6. HistOK' /\ AppOK'
  BY <1>1, <1>4 DEF Inv, TypeOK, HistOK, AppOK, AJ_SerialRecv
<1> QED
  BY <1>5, <1>6 DEF Inv, TypeOK, LinkOK, SendOK, AckOK, BufOK, UnreliableQueuedOnce,
     AJ_SerialRecv, linkVars, sendVars, ackVars, bufVars

\* AJ_FillTxBufferList: of the packets it converts only the first can be unreliable, so
\* what it adds to txSent are DATA packets.
LEMMA FillTxBuffersInv ==
  ASSUME Inv, NEW e \in Endpoint, FillTxBuffers(e)
  PROVE  Inv'
<1> DEFINE q == txQueue[e]
           k == IF dataSent[e] THEN Least(Len(q), TxBufs[e] - Len(txBuf[e])) ELSE 0
           data == IF k > 0 /\ IsUnreliable(Head(q)) THEN SubSeq(q, 2, k) ELSE SubSeq(q, 1, k)
           acks == \E i \in 1..k : q[i].type # "CTRL"
           frames == [i \in 1..k |-> ToFrame(e, q[i])]
<1>1. /\ txQueue' = [txQueue EXCEPT ![e] = SubSeq(@, k + 1, Len(@))]
      /\ txBuf' = [txBuf EXCEPT ![e] = @ \o frames]
      /\ dataSent' = [dataSent EXCEPT ![e] = @ /\ (k = 0 \/ Len(txBuf[e]) + k < TxBufs[e])]
      /\ txSent' = [txSent EXCEPT ![e] = @ \o data]
      /\ resendTimer' = [resendTimer EXCEPT ![e] = @ \/ (data # <<>> /\ ~resendPrimed[e])]
      /\ pendingAcks' = [pendingAcks EXCEPT ![e] = IF acks THEN 0 ELSE @]
      /\ ackTimer' = [ackTimer EXCEPT ![e] = @ /\ ~(acks /\ pendingAcks[e] > 0)]
      /\ pc' = [pc EXCEPT ![e] = NextTimer(resendTimer'[e], ackTimer'[e], linkTimer[e])]
      /\ UNCHANGED <<call, left, txFree, resendPrimed, currentTxAck, txSeqNum, rxBuf,
                     linkVars, recvVars, histVars>>
  BY DEF FillTxBuffers
<1>2. q \in Seq(TxPkt) /\ Len(q) \in Nat /\ OnlyFirstUnreliable(q)
      /\ \A i \in 1..Len(q) : q[i] \in TxPkt
  BY LenProperties, ElementOfSeq DEF Inv, TypeOK, SendOK, UnreliableQueuedOnce
<1>3. /\ k \in Nat /\ k <= Len(q) /\ TxBufs[e] \in Nat
      /\ txBuf[e] \in Seq(Frame) /\ Len(txBuf[e]) \in Nat /\ Len(txBuf[e]) + k <= TxBufs[e]
  BY <1>2, SlapAssumption, LenProperties DEF Inv, TypeOK, BufOK, Least
<1> HIDE DEF k
<1>4. SubSeq(q, k + 1, Len(q)) \in Seq(TxPkt) /\ OnlyFirstUnreliable(SubSeq(q, k + 1, Len(q)))
  <2> HIDE DEF q
  <2> QED
    BY <1>2, <1>3, DropUnreliable
<1>5. data \in Seq(DataPkt)
  <2>1. CASE k > 0 /\ IsUnreliable(Head(q))
    <3>1. \A i \in 2..k : q[i] \in DataPkt
      BY <1>2, <1>3, ReliableIsData DEF OnlyFirstUnreliable, IsUnreliable
    <3> QED
      BY <1>3, <2>1, <3>1, SubSeqProperties
  <2>2. CASE ~(k > 0 /\ IsUnreliable(Head(q)))
    <3>1. \A i \in 1..k : q[i] \in DataPkt
      BY <1>2, <1>3, <2>2, ReliableIsData DEF OnlyFirstUnreliable, IsUnreliable
    <3> QED
      BY <1>3, <2>2, <3>1, SubSeqProperties
  <2> QED
    BY <2>1, <2>2
<1>6. frames \in Seq(Frame) /\ Len(frames) = k
  <2>1. \A i \in 1..k : ToFrame(e, q[i]) \in Frame
    BY <1>2, <1>3 DEF ToFrame, Frame, Inv, TypeOK, AckOK
  <2>2. frames \in [1..k -> Frame]
    BY <2>1
  <2> QED
    BY <1>3, <2>2, FunctionIsSeq
<1>7. txBuf[e] \o frames \in Seq(Frame) /\ Len(txBuf[e] \o frames) = Len(txBuf[e]) + k
  BY <1>3, <1>6, ConcatProperties
<1>8. txSent[e] \o data \in Seq(DataPkt)
  BY <1>5, ConcatProperties DEF Inv, TypeOK, SendOK
<1> HIDE DEF data, acks, frames
<1>9. SendOK' /\ UnreliableQueuedOnce'
  BY <1>1, <1>4, <1>8 DEF Inv, TypeOK, SendOK, UnreliableQueuedOnce
<1>10. AckOK'
  BY <1>1 DEF Inv, TypeOK, AckOK, MaxPendingAcks, MAX_WINDOW_SIZE
<1>11. BufOK'
  BY <1>1, <1>3, <1>7 DEF Inv, TypeOK, BufOK
<1>12. AppOK'
  BY <1>1 DEF Inv, TypeOK, AppOK, NextTimer
<1> QED
  BY <1>1, <1>9, <1>10, <1>11, <1>12 DEF Inv, TypeOK, LinkOK, RecvOK, HistOK, linkVars,
     recvVars, histVars

-----------------------------------------------------------------------------
\* The receive side: each packet, then the actions that take it.

\* What RxTake leaves behind, and what it hands to CompletePacket.
LEMMA RxTakeType ==
  ASSUME Inv, NEW e \in Endpoint, RxTake(e)
  PROVE  /\ BufOK' /\ AppOK' /\ txSeqNum' = txSeqNum /\ linkTimer' = linkTimer
         /\ log' = log /\ delivered' = delivered
         /\ Head(rxBuf[e]) \in Frame
         /\ rxFree[e] \in Nat \ {0}
<1>1. rxBuf[e] \in Seq(Frame) /\ Len(rxBuf[e]) \in Nat /\ RxBufs[e] \in Nat
  BY SlapAssumption, LenProperties DEF Inv, TypeOK, BufOK
<1>2. Tail(rxBuf[e]) \in Seq(Frame) /\ Len(Tail(rxBuf[e])) = Len(rxBuf[e]) - 1
      /\ Head(rxBuf[e]) \in Frame
  BY <1>1, HeadTailProperties DEF RxTake
<1>3. BufOK'
  BY <1>1, <1>2 DEF Inv, TypeOK, BufOK, RxTake
<1> QED
  BY <1>2, <1>3 DEF Inv, TypeOK, AppOK, RecvOK, RxTake, appVars

\* AJ_Serial_LinkPacket: the values it takes from a NEGO are within bounds, as the smaller
\* of its own and of the decoded ones, and what it answers is a packet of the protocol.
LEMMA LinkPacketType ==
  ASSUME Inv, NEW e \in Endpoint, NEW p \in CtrlPkt, AJ_Serial_LinkPacket(e, p)
  PROVE  /\ linkState' \in [Endpoint -> LinkState]
         /\ windowSize' \in [Endpoint -> MIN_WINDOW_SIZE..MAX_WINDOW_SIZE]
         /\ packetSize' \in [Endpoint -> Nat \ {0}]
         /\ txQueue' \in [Endpoint -> Seq(TxPkt)]
         /\ UnreliableQueuedOnce'
<1> DEFINE state == linkState[e]
           nego  == p.kind = "NEGO" /\ state \in {"INITIALIZED", "ACTIVE"}
           reply == LinkReply(state, p.kind)
           size  == IF nego THEN Least(packetSize[e], p.size) ELSE packetSize[e]
           win   == IF nego THEN Least(MaxWindow[e], DecodeWindow(p.win)) ELSE windowSize[e]
           queue == IF reply = "none" THEN txQueue[e]
                    ELSE QueueUnreliable(txQueue[e], Ctrl(e, reply, size))
<1>1. state \in LinkState
  BY DEF Inv, TypeOK, LinkOK
<1>2. NextLinkState(state, p.kind) \in LinkState
  BY <1>1 DEF NextLinkState, LinkState
<1>3. ASSUME nego PROVE p \in NegoPkt
  BY <1>3 DEF CtrlPkt, NegoPkt, NegoPktType
<1>4. size \in Nat \ {0}
  <2>1. packetSize[e] \in Nat \ {0}
    BY DEF Inv, TypeOK, LinkOK
  <2>2. nego => p.size \in Nat \ {0}
    BY <1>3 DEF NegoPkt
  <2> QED
    BY <2>1, <2>2 DEF Least
<1>5. win \in 1..4
  <2>1. windowSize[e] \in 1..4 /\ MaxWindow[e] \in 1..4
    BY SlapAssumption DEF Inv, TypeOK, LinkOK, MIN_WINDOW_SIZE, MAX_WINDOW_SIZE
  <2>2. nego => p.win \in 0..3
    BY <1>3 DEF NegoPkt
  <2>3. nego => DecodeWindow(p.win) \in 1..4
    BY <2>2 DEF DecodeWindow
  <2> QED
    BY <2>1, <2>3 DEF Least
<1>6. queue \in Seq(TxPkt) /\ OnlyFirstUnreliable(queue)
  <2>1. txQueue[e] \in Seq(TxPkt) /\ OnlyFirstUnreliable(txQueue[e])
    BY DEF Inv, TypeOK, SendOK, UnreliableQueuedOnce
  <2>2. CASE reply = "none"
    BY <2>1, <2>2
  <2>3. CASE reply # "none"
    <3>1. reply \in LinkPktType
      BY <2>3 DEF LinkReply, LinkPktType, NegoPktType
    <3>2. Ctrl(e, reply, size) \in TxPkt
      BY <1>4, <3>1, CtrlType DEF TxPkt
    <3> HIDE DEF reply, size
    <3> QED
      BY <2>1, <2>3, <3>2, QueueUnreliableType
  <2> QED
    BY <2>2, <2>3
<1>7. packetSize' = [packetSize EXCEPT ![e] = size]
  BY DEF AJ_Serial_LinkPacket
<1>8. packetSize'[e] = size
  BY <1>7 DEF Inv, TypeOK, LinkOK
<1>9. /\ linkState' = [linkState EXCEPT ![e] = NextLinkState(state, p.kind)]
      /\ windowSize' = [windowSize EXCEPT ![e] = win]
  BY DEF AJ_Serial_LinkPacket
<1>10. txQueue' = [txQueue EXCEPT ![e] = queue]
  <2>1. txQueue' = [txQueue EXCEPT ![e] =
                      IF reply = "none" THEN @
                      ELSE QueueUnreliable(@, Ctrl(e, reply, packetSize'[e]))]
    BY DEF AJ_Serial_LinkPacket
  <2> QED
    BY <1>8, <2>1
<1> HIDE DEF state, nego, reply, size, win, queue
<1> QED
  BY <1>2, <1>4, <1>5, <1>6, <1>7, <1>9, <1>10 DEF Inv, TypeOK, LinkOK, SendOK, UnreliableQueuedOnce,
     MIN_WINDOW_SIZE, MAX_WINDOW_SIZE

LEMMA RxControlInv ==
  ASSUME Inv, NEW e \in Endpoint, RxControl(e)
  PROVE  Inv'
<1> DEFINE p == Head(rxBuf[e]).pkt
<1>1. /\ RxTake(e) /\ p.type = "CTRL" /\ AJ_Serial_LinkPacket(e, p)
      /\ UNCHANGED <<txSent, txFree, resendTimer, resendPrimed, ackVars, recvVars, accepted>>
  BY DEF RxControl
<1>2. /\ BufOK' /\ AppOK' /\ txSeqNum' = txSeqNum /\ linkTimer' = linkTimer
      /\ log' = log /\ delivered' = delivered /\ Head(rxBuf[e]) \in Frame
  BY <1>1, RxTakeType
<1>3. p \in CtrlPkt
  BY <1>1, <1>2 DEF Frame, TxPkt, DataPkt, AckPkt
<1> HIDE DEF p
<1>4. /\ linkState' \in [Endpoint -> LinkState]
      /\ windowSize' \in [Endpoint -> MIN_WINDOW_SIZE..MAX_WINDOW_SIZE]
      /\ packetSize' \in [Endpoint -> Nat \ {0}]
      /\ txQueue' \in [Endpoint -> Seq(TxPkt)]
      /\ UnreliableQueuedOnce'
  BY <1>1, <1>3, LinkPacketType
<1> QED
  BY <1>1, <1>2, <1>4 DEF Inv, TypeOK, LinkOK, SendOK, AckOK, RecvOK, HistOK, ackVars, recvVars

LEMMA RxDiscardInv ==
  ASSUME Inv, NEW e \in Endpoint, RxDiscard(e)
  PROVE  Inv'
<1>1. /\ BufOK' /\ AppOK' /\ txSeqNum' = txSeqNum /\ linkTimer' = linkTimer
      /\ log' = log /\ delivered' = delivered
  BY RxTakeType DEF RxDiscard
<1> QED
  BY <1>1 DEF Inv, TypeOK, LinkOK, SendOK, AckOK, RecvOK, HistOK, UnreliableQueuedOnce,
     RxDiscard, sendVars, ackVars, recvVars

\* AJ_SerialTx_ReceivedAck moves packets from txSent to the free list.
LEMMA ReceivedAckType ==
  ASSUME Inv, NEW e \in Endpoint, NEW ack \in 0..7, AJ_SerialTx_ReceivedAck(e, ack)
  PROVE  /\ txSent' \in [Endpoint -> Seq(DataPkt)]
         /\ txFree' \in [Endpoint -> Nat]
         /\ resendTimer' \in [Endpoint -> BOOLEAN]
         /\ resendPrimed' \in [Endpoint -> BOOLEAN]
<1>1. PICK k \in 0..Len(txSent[e]) :
        /\ txSent' = [txSent EXCEPT ![e] = SubSeq(@, k + 1, Len(@))]
        /\ txFree' = [txFree EXCEPT ![e] = @ + k]
        /\ IF k = 0 THEN UNCHANGED <<resendTimer, resendPrimed>>
           ELSE /\ resendTimer' = [resendTimer EXCEPT ![e] = k < Len(txSent[e])]
                /\ resendPrimed' = [resendPrimed EXCEPT ![e] = k < Len(txSent[e])]
  BY DEF AJ_SerialTx_ReceivedAck
<1>2. /\ txSent[e] \in Seq(DataPkt) /\ Len(txSent[e]) \in Nat
      /\ \A i \in 1..Len(txSent[e]) : txSent[e][i] \in DataPkt
  BY LenProperties, ElementOfSeq DEF Inv, TypeOK, SendOK
<1>3. SubSeq(txSent[e], k + 1, Len(txSent[e])) \in Seq(DataPkt)
  BY <1>2, SubSeqProperties
<1>4. k \in Nat /\ (k < Len(txSent[e])) \in BOOLEAN
  BY <1>2
<1>5. txSent' \in [Endpoint -> Seq(DataPkt)] /\ txFree' \in [Endpoint -> Nat]
  BY <1>1, <1>3, <1>4 DEF Inv, TypeOK, SendOK
<1>6. resendTimer' \in [Endpoint -> BOOLEAN] /\ resendPrimed' \in [Endpoint -> BOOLEAN]
  BY <1>1, <1>4, Zenon DEF Inv, TypeOK, SendOK
<1> QED
  BY <1>5, <1>6

\* AJ_SerialTx_ReceivedSeq queues at most an ACK.
LEMMA ReceivedSeqType ==
  ASSUME Inv, NEW e \in Endpoint, NEW seq \in 0..7, AJ_SerialTx_ReceivedSeq(e, seq)
  PROVE  /\ AckOK'
         /\ txQueue' \in [Endpoint -> Seq(TxPkt)]
         /\ UnreliableQueuedOnce'
<1> DEFINE backlog == pendingAcks[e] + 1
           queue == IF backlog # 1 /\ backlog = windowSize[e]
                    THEN QueueUnreliable(txQueue[e], Ack) ELSE txQueue[e]
<1>1. /\ currentTxAck' = [currentTxAck EXCEPT ![e] = IF SEQ_GT(e, @, seq) THEN @ ELSE SeqInc(seq)]
      /\ pendingAcks' = [pendingAcks EXCEPT ![e] = Least(backlog, MaxPendingAcks)]
      /\ ackTimer' = [ackTimer EXCEPT ![e] = @ \/ backlog = 1]
      /\ txQueue' = [txQueue EXCEPT ![e] = queue]
  BY DEF AJ_SerialTx_ReceivedSeq
<1>2. SeqInc(seq) \in 0..7
  BY Mod8 DEF SeqInc
<1>3. Least(backlog, MaxPendingAcks) \in 0..MaxPendingAcks
  BY DEF Inv, TypeOK, AckOK, Least, MaxPendingAcks, MAX_WINDOW_SIZE
<1>4. (backlog = 1) \in BOOLEAN
  OBVIOUS
<1>5. queue \in Seq(TxPkt) /\ OnlyFirstUnreliable(queue)
  <2>1. txQueue[e] \in Seq(TxPkt) /\ OnlyFirstUnreliable(txQueue[e])
    BY DEF Inv, TypeOK, SendOK, UnreliableQueuedOnce
  <2>2. Ack \in TxPkt
    BY DEF Ack, TxPkt, AckPkt
  <2> QED
    BY <2>1, <2>2, QueueUnreliableType
<1> HIDE DEF backlog, queue
<1>6. AckOK'
  BY <1>1, <1>2, <1>3, <1>4 DEF Inv, TypeOK, AckOK
<1> QED
  BY <1>1, <1>5, <1>6 DEF Inv, TypeOK, SendOK, UnreliableQueuedOnce

\* CompletePacket for a DATA packet takes one free packet for it, or none.
LEMMA RxDataType ==
  ASSUME Inv, NEW e \in Endpoint, NEW p \in DataPkt, rxFree[e] \in Nat \ {0}, RxData(e, p)
  PROVE  /\ AckOK' /\ RecvOK'
         /\ txQueue' \in [Endpoint -> Seq(TxPkt)]
         /\ UnreliableQueuedOnce'
         /\ accepted' \in [Endpoint -> Nat]
<1>1. p.seq \in 0..7 /\ p.item \in Item /\ p.item.n \in Nat
  BY DEF DataPkt, Item
<1>2. CASE p.seq # expectedSeq[e]
  <2>1. UNCHANGED <<recvVars, accepted>>
    BY <1>2 DEF RxData
  <2>2. RecvOK' /\ accepted' \in [Endpoint -> Nat]
    BY <2>1 DEF Inv, TypeOK, RecvOK, HistOK, recvVars
  <2>3. CASE SEQ_GT(e, p.seq, expectedSeq[e])
    BY <1>2, <2>2, <2>3 DEF RxData, Inv, TypeOK, AckOK, SendOK, UnreliableQueuedOnce, ackVars
  <2>4. CASE ~SEQ_GT(e, p.seq, expectedSeq[e])
    <3>1. AJ_SerialTx_ReceivedSeq(e, p.seq)
      BY <1>2, <2>4 DEF RxData
    <3> QED
      BY <1>1, <2>2, <3>1, ReceivedSeqType
  <2> QED
    BY <2>3, <2>4
<1>3. CASE p.seq = expectedSeq[e]
  <2>1. /\ expectedSeq' = [expectedSeq EXCEPT ![e] = SeqInc(@)]
        /\ rxRecv' = [rxRecv EXCEPT ![e] = Append(@, p.item)]
        /\ rxFree' = [rxFree EXCEPT ![e] = @ - 1]
        /\ AJ_SerialTx_ReceivedSeq(e, p.seq)
        /\ accepted' = [accepted EXCEPT ![Peer[e]] =
                          IF p.item.ep = Epoch(Peer[e]) THEN p.item.n ELSE @]
    BY <1>3 DEF RxData
  <2>2. SeqInc(expectedSeq[e]) \in 0..7
    BY <1>1, <1>3, Mod8 DEF SeqInc
  <2>3. Append(rxRecv[e], p.item) \in Seq(Item)
    BY <1>1, AppendProperties DEF Inv, TypeOK, RecvOK
  <2>4. RecvOK'
    BY <2>1, <2>2, <2>3 DEF Inv, TypeOK, RecvOK
  <2>5. accepted' \in [Endpoint -> Nat]
    BY <1>1, <2>1 DEF Inv, TypeOK, HistOK
  <2> QED
    BY <1>1, <2>1, <2>4, <2>5, ReceivedSeqType
<1> QED
  BY <1>2, <1>3

LEMMA RxPacketInv ==
  ASSUME Inv, NEW e \in Endpoint, RxPacket(e)
  PROVE  Inv'
<1> DEFINE f == Head(rxBuf[e])
<1>1. /\ RxTake(e) /\ f.pkt.type # "CTRL" /\ AJ_SerialTx_ReceivedAck(e, f.ack)
      /\ IF f.pkt.type = "DATA" THEN RxData(e, f.pkt)
         ELSE UNCHANGED <<txQueue, ackVars, recvVars, accepted>>
      /\ UNCHANGED <<linkState, windowSize, packetSize>>
  BY DEF RxPacket
<1>2. /\ BufOK' /\ AppOK' /\ txSeqNum' = txSeqNum /\ linkTimer' = linkTimer
      /\ log' = log /\ delivered' = delivered /\ f \in Frame
      /\ rxFree[e] \in Nat \ {0}
  BY <1>1, RxTakeType
<1> HIDE DEF f
<1>3. /\ txSent' \in [Endpoint -> Seq(DataPkt)]
      /\ txFree' \in [Endpoint -> Nat]
      /\ resendTimer' \in [Endpoint -> BOOLEAN]
      /\ resendPrimed' \in [Endpoint -> BOOLEAN]
  BY <1>1, <1>2, ReceivedAckType DEF Frame
<1>4. /\ AckOK' /\ RecvOK'
      /\ txQueue' \in [Endpoint -> Seq(TxPkt)]
      /\ UnreliableQueuedOnce'
      /\ accepted' \in [Endpoint -> Nat]
  <2>1. CASE f.pkt.type = "DATA"
    <3>1. f.pkt \in DataPkt
      BY <1>2, <2>1 DEF Frame, TxPkt, CtrlPkt, NegoPkt, AckPkt
    <3> QED
      BY <1>1, <1>2, <2>1, <3>1, RxDataType
  <2>2. CASE f.pkt.type # "DATA"
    BY <1>1, <2>2 DEF Inv, TypeOK, AckOK, RecvOK, SendOK, HistOK, UnreliableQueuedOnce,
       ackVars, recvVars
  <2> QED
    BY <2>1, <2>2
<1>5. SendOK'
  BY <1>2, <1>3, <1>4 DEF Inv, TypeOK, SendOK
<1>6. LinkOK'
  BY <1>1, <1>2 DEF Inv, TypeOK, LinkOK
<1>7. HistOK'
  BY <1>2, <1>4 DEF Inv, TypeOK, HistOK
<1> QED
  BY <1>2, <1>4, <1>5, <1>6, <1>7 DEF Inv, TypeOK

-----------------------------------------------------------------------------
\* The invariant holds at either start and every step keeps it.
LEMMA InitInv == Init => Inv
<1> SUFFICES ASSUME Init PROVE Inv
  OBVIOUS
<1>1. LinkOK
  BY SlapAssumption DEF Init, LinkOK, LinkState
<1>2. SendOK /\ UnreliableQueuedOnce
  <2>1. OnlyFirstUnreliable(<<>>)
    BY DEF OnlyFirstUnreliable
  <2> QED
    BY <2>1, MaxWindowType DEF Init, SendOK, UnreliableQueuedOnce
<1>3. AckOK /\ RecvOK
  BY MaxWindowType DEF Init, AckOK, RecvOK, MaxPendingAcks, MAX_WINDOW_SIZE
<1>4. BufOK
  BY SlapAssumption, EmptySeq DEF Init, BufOK
<1>5. AppOK /\ HistOK
  BY DEF Init, AppOK, HistOK
<1> QED
  BY <1>1, <1>2, <1>3, <1>4, <1>5 DEF Inv, TypeOK

LEMMA InitUpInv == InitUp => Inv
<1> SUFFICES ASSUME InitUp PROVE Inv
  OBVIOUS
<1>1. LinkOK
  <2>1. \A e \in Endpoint : MaxWindow[e] \in 1..4 /\ MaxWindow[Peer[e]] \in 1..4
                            /\ MaxPacket[e] \in Nat \ {0} /\ MaxPacket[Peer[e]] \in Nat \ {0}
    BY SlapAssumption DEF MIN_WINDOW_SIZE, MAX_WINDOW_SIZE
  <2>2. \A w \in 1..4 : DecodeWindow(EncodeWindow(w)) \in 1..4
    BY DEF DecodeWindow, EncodeWindow
  <2>3. \A e \in Endpoint : Least(MaxWindow[e], DecodeWindow(EncodeWindow(MaxWindow[Peer[e]]))) \in 1..4
    BY <2>1, <2>2 DEF Least
  <2>4. \A e \in Endpoint : Least(MaxPacket[e], MaxPacket[Peer[e]]) \in Nat \ {0}
    BY <2>1 DEF Least
  <2> QED
    BY <2>3, <2>4 DEF InitUp, LinkOK, LinkState, MIN_WINDOW_SIZE, MAX_WINDOW_SIZE
<1>2. \A e \in Endpoint : Done[e] \in Nat /\ Done[Peer[e]] \in Nat
  BY SlapAssumption
<1>3. \A e \in Endpoint : Done[e] % 8 \in 0..7 /\ Done[Peer[e]] % 8 \in 0..7
  <2> SUFFICES ASSUME NEW e \in Endpoint
               PROVE  Done[e] % 8 \in 0..7 /\ Done[Peer[e]] % 8 \in 0..7
    OBVIOUS
  <2>1. Done[e] \in Int /\ Done[Peer[e]] \in Int
    BY <1>2
  <2> QED
    BY <2>1, Mod8
<1>4. SendOK /\ UnreliableQueuedOnce
  <2>1. OnlyFirstUnreliable(<<>>)
    BY DEF OnlyFirstUnreliable
  <2> QED
    BY <1>3, <2>1, MaxWindowType DEF InitUp, SendOK, UnreliableQueuedOnce
<1>5. AckOK /\ RecvOK
  BY <1>3, MaxWindowType DEF InitUp, AckOK, RecvOK, MaxPendingAcks, MAX_WINDOW_SIZE
<1>6. BufOK
  BY SlapAssumption, EmptySeq DEF InitUp, BufOK
<1>7. AppOK /\ HistOK
  <2>1. \A e \in Endpoint : [n \in 1..Done[Peer[e]] |-> [ep |-> 1, n |-> n]] \in Seq(Item)
    <3> SUFFICES ASSUME NEW e \in Endpoint
                 PROVE  [n \in 1..Done[Peer[e]] |-> [ep |-> 1, n |-> n]] \in Seq(Item)
      OBVIOUS
    <3>1. [n \in 1..Done[Peer[e]] |-> [ep |-> 1, n |-> n]] \in [1..Done[Peer[e]] -> Item]
      BY <1>2 DEF Item
    <3> QED
      BY <1>2, <3>1, FunctionIsSeq
  <2>2. log \in [Endpoint -> Seq(Nat) \ {<<>>}]
    BY <1>2 DEF InitUp
  <2> QED
    BY <2>1, <2>2, SlapAssumption DEF InitUp, AppOK, HistOK
<1> QED
  BY <1>1, <1>4, <1>5, <1>6, <1>7 DEF Inv, TypeOK

LEMMA NextInv == Inv /\ [Next]_vars => Inv'
<1> SUFFICES ASSUME Inv, [Next]_vars PROVE Inv'
  OBVIOUS
<1>1. CASE UNCHANGED vars
  BY <1>1 DEF Inv, TypeOK, LinkOK, SendOK, AckOK, RecvOK, BufOK, AppOK, HistOK,
     UnreliableQueuedOnce, vars, linkVars, sendVars, ackVars, recvVars, bufVars, appVars, histVars
<1>2. ASSUME NEW e \in Endpoint, StartSend(e) PROVE Inv'
  BY <1>2, StartSendInv
<1>3. ASSUME NEW e \in Endpoint, AJ_SerialSend(e) PROVE Inv'
  BY <1>3, SendGivesUpInv, SendWaitsInv, SendQueuesInv DEF AJ_SerialSend
<1>4. ASSUME NEW e \in Endpoint, AJ_SerialRecv(e) PROVE Inv'
  BY <1>4, AJ_SerialRecvInv
<1>5. ASSUME NEW e \in Endpoint, AJ_SerialDisconnect(e) PROVE Inv'
  BY <1>5, DisconnectInv, DisconnectWaitsInv, DisconnectEndsInv DEF AJ_SerialDisconnect
<1>6. ASSUME NEW e \in Endpoint, RxControl(e) \/ RxDiscard(e) \/ RxPacket(e) PROVE Inv'
  BY <1>6, RxControlInv, RxDiscardInv, RxPacketInv
<1>7. ASSUME NEW e \in Endpoint, FillTxBuffers(e) PROVE Inv'
  BY <1>7, FillTxBuffersInv
<1>8. ASSUME NEW e \in Endpoint, ResendPackets(e) \/ SendAck(e) \/ SendLinkPacket(e) PROVE Inv'
  BY <1>8, ResendPacketsInv, SendAckInv, SendLinkPacketInv
<1>9. ASSUME NEW e \in Endpoint, Deliver(e) \/ Lose(e) PROVE Inv'
  BY <1>9, DeliverInv, LoseInv
<1>10. ASSUME NEW e \in Endpoint, AJ_SerialInit(e) PROVE Inv'
  BY <1>10, AJ_SerialInitInv
<1> QED
  BY <1>1, <1>2, <1>3, <1>4, <1>5, <1>6, <1>7, <1>8, <1>9, <1>10 DEF Next

\* Whatever is sent, lost, resent, renegotiated, taken down or started over, every variable of
\* the transport keeps to the values its lists, counters and three-bit numbers allow.
THEOREM TypeCorrect == Spec => []TypeOK
<1>1. Inv => TypeOK
  BY DEF Inv
<1> QED
  BY <1>1, InitInv, NextInv, PTL DEF Spec

\* The reserved packet of QueueUnreliable is never queued twice, and never behind a DATA
\* packet, although ACK, link control and ResendPackets all put packets at the head.
THEOREM UnreliableOnce == Spec => []UnreliableQueuedOnce
<1>1. Inv => UnreliableQueuedOnce
  BY DEF Inv
<1> QED
  BY <1>1, InitInv, NextInv, PTL DEF Spec

\* The same for the behaviours that start with the link up.
THEOREM UnreliableOnceUp == SpecUp => [](TypeOK /\ UnreliableQueuedOnce)
<1>1. Inv => TypeOK /\ UnreliableQueuedOnce
  BY DEF Inv
<1> QED
  BY <1>1, InitUpInv, NextInv, PTL DEF SpecUp

(***************************************************************************)
(* The timers: no packet and no acknowledgement of an active link waits    *)
(* without the timer that will send it.                                    *)
(***************************************************************************)
\* What the timers of an end rest on: a primed resend timer is set, and an end that has not
\* been ACTIVE yet has nothing to resend, so that becoming ACTIVE needs no timer.
NoData(q) == \A i \in 1..Len(q) : IsUnreliable(q[i])

TimersOK(e) ==
  /\ resendPrimed[e] => resendTimer[e]
  /\ linkState[e] \in {"UNINITIALIZED", "INITIALIZED"} => txSent[e] = <<>> /\ NoData(txQueue[e])
  /\ linkState[e] = "ACTIVE" /\ txSent[e] # <<>> => resendTimer[e]
  /\ pendingAcks[e] > 0 => ackTimer[e]

TimersInv == Inv /\ \A e \in Endpoint : TimersOK(e)

\* The variables of an end that TimersOK reads keep their values in a step.
Same(e) ==
  /\ linkState'[e] = linkState[e] /\ txSent'[e] = txSent[e] /\ txQueue'[e] = txQueue[e]
  /\ resendTimer'[e] = resendTimer[e] /\ resendPrimed'[e] = resendPrimed[e]
  /\ pendingAcks'[e] = pendingAcks[e] /\ ackTimer'[e] = ackTimer[e]

LEMMA SameTimers ==
  ASSUME NEW e \in Endpoint, TimersOK(e), Same(e)
  PROVE  TimersOK(e)'
BY DEF TimersOK, Same

\* A queue without data stays one when an unreliable packet is queued, and so does what is
\* left of it when packets are taken off the front.
LEMMA QueueUnreliableNoData ==
  ASSUME NEW q \in Seq(TxPkt), NoData(q), NEW p \in TxPkt, IsUnreliable(p)
  PROVE  NoData(QueueUnreliable(q, p))
<1>1. CASE q # <<>> /\ IsUnreliable(Head(q))
  BY <1>1, HeadTailProperties, ConcatProperties DEF QueueUnreliable, NoData
<1>2. CASE ~(q # <<>> /\ IsUnreliable(Head(q)))
  BY <1>2, ConcatProperties DEF QueueUnreliable, NoData
<1> QED
  BY <1>1, <1>2

LEMMA DropNoData ==
  ASSUME NEW q \in Seq(TxPkt), NoData(q), NEW k \in Nat, k <= Len(q)
  PROVE  NoData(SubSeq(q, k + 1, Len(q)))
<1> DEFINE r == SubSeq(q, k + 1, Len(q))
<1>1. Len(q) \in Nat /\ Len(r) = Len(q) - k /\ \A i \in 1..Len(r) : r[i] = q[k + i]
  BY LenProperties
<1> HIDE DEF r
<1>2. NoData(r)
  BY <1>1 DEF NoData
<1> QED
  BY <1>2 DEF r

\* Such a queue, with unreliable packets at the head only, has at most one packet.
LEMMA NoDataLength ==
  ASSUME NEW q \in Seq(TxPkt), NoData(q), OnlyFirstUnreliable(q)
  PROVE  Len(q) <= 1
BY LenProperties DEF NoData, OnlyFirstUnreliable, IsUnreliable

LEMMA CtrlUnreliable ==
  ASSUME NEW e, NEW kind, NEW size
  PROVE  IsUnreliable(Ctrl(e, kind, size)) /\ IsUnreliable(Ack)
BY DEF Ctrl, Ack, IsUnreliable

-----------------------------------------------------------------------------
\* Every action keeps TimersOK at its own end, and leaves the other as it is.
LEMMA QuietTimers ==
  ASSUME TimersInv, NEW e \in Endpoint,
         \/ StartSend(e) \/ SendGivesUp(e) \/ SendWaits(e) \/ DisconnectWaits(e)
         \/ AJ_SerialRecv(e) \/ RxDiscard(e) \/ Deliver(e) \/ Lose(e)
  PROVE  \A f \in Endpoint : TimersOK(f)'
<1>1. UNCHANGED <<linkState, sendVars, ackVars>>
  BY DEF StartSend, SendGivesUp, SendWaits, DisconnectWaits, AJ_SerialRecv, RxDiscard, Deliver,
     Lose, linkVars
<1>2. \A f \in Endpoint : Same(f)
  BY <1>1 DEF Same, sendVars, ackVars
<1> QED
  BY <1>2, SameTimers DEF TimersInv

LEMMA DisconnectTimers ==
  ASSUME TimersInv, NEW e \in Endpoint, Disconnect(e) \/ DisconnectEnds(e)
  PROVE  \A f \in Endpoint : TimersOK(f)'
<1>1. /\ UNCHANGED <<sendVars, ackVars>>
      /\ \E state \in {"DYING", "DEAD"} : linkState' = [linkState EXCEPT ![e] = state]
  BY DEF Disconnect, DisconnectEnds
<1>2. TimersOK(e)'
  BY <1>1 DEF TimersInv, TimersOK, Inv, TypeOK, LinkOK, sendVars, ackVars
<1>3. \A f \in Endpoint : f # e => Same(f)
  BY <1>1 DEF Same, Inv, TimersInv, TypeOK, LinkOK, sendVars, ackVars
<1> QED
  BY <1>2, <1>3, SameTimers DEF TimersInv

LEMMA SendQueuesTimers ==
  ASSUME TimersInv, NEW e \in Endpoint, SendQueues(e)
  PROVE  \A f \in Endpoint : TimersOK(f)'
<1>1. /\ UNCHANGED <<linkState, txSent, resendTimer, resendPrimed, pendingAcks, ackTimer>>
      /\ linkState[e] = "ACTIVE"
      /\ \A f \in Endpoint : f # e => txQueue'[f] = txQueue[f]
  BY DEF SendQueues, linkVars, ackVars, TimersInv, Inv, TypeOK, SendOK
<1>2. TimersOK(e)'
  BY <1>1 DEF TimersInv, TimersOK
<1>3. \A f \in Endpoint : f # e => Same(f)
  BY <1>1 DEF Same
<1> QED
  BY <1>2, <1>3, SameTimers DEF TimersInv

LEMMA ResendPacketsTimers ==
  ASSUME TimersInv, NEW e \in Endpoint, ResendPackets(e)
  PROVE  \A f \in Endpoint : TimersOK(f)'
<1>1. TimersOK(e)'
  BY DEF ResendPackets, TimersInv, TimersOK, Inv, TypeOK, SendOK, linkVars, ackVars
<1>2. \A f \in Endpoint : f # e => Same(f)
  BY DEF ResendPackets, Same, TimersInv, Inv, TypeOK, SendOK, linkVars, ackVars
<1> QED
  BY <1>1, <1>2, SameTimers DEF TimersInv

LEMMA SendAckTimers ==
  ASSUME TimersInv, NEW e \in Endpoint, SendAck(e)
  PROVE  \A f \in Endpoint : TimersOK(f)'
<1>1. NoData(txQueue[e]) => NoData(QueueUnreliable(txQueue[e], Ack))
  BY QueueUnreliableNoData, CtrlUnreliable DEF TimersInv, Inv, TypeOK, SendOK, Ack, TxPkt, AckPkt
<1>2. TimersOK(e)'
  BY <1>1 DEF SendAck, TimersInv, TimersOK, Inv, TypeOK, SendOK, AckOK, linkVars
<1>3. \A f \in Endpoint : f # e => Same(f)
  BY DEF SendAck, Same, TimersInv, Inv, TypeOK, SendOK, AckOK, linkVars
<1> QED
  BY <1>2, <1>3, SameTimers DEF TimersInv

LEMMA SendLinkPacketTimers ==
  ASSUME TimersInv, NEW e \in Endpoint, SendLinkPacket(e)
  PROVE  \A f \in Endpoint : TimersOK(f)'
<1> DEFINE sends == linkState[e] \in DOMAIN TimedPacket
           p == Ctrl(e, TimedPacket[linkState[e]], packetSize[e])
           queue == IF sends THEN QueueUnreliable(txQueue[e], p) ELSE txQueue[e]
<1>1. /\ txQueue' = [txQueue EXCEPT ![e] = queue]
      /\ UNCHANGED <<linkState, txSent, resendTimer, resendPrimed, ackVars>>
  BY DEF SendLinkPacket
<1>2. NoData(txQueue[e]) => NoData(queue)
  <2>1. ASSUME sends PROVE p \in TxPkt
    <3>1. TimedPacket[linkState[e]] \in LinkPktType
      BY <2>1 DEF TimedPacket, LinkPktType, NegoPktType
    <3> QED
      BY <3>1, CtrlType DEF TimersInv, Inv, TypeOK, LinkOK, TxPkt
  <2>2. IsUnreliable(p)
    BY CtrlUnreliable
  <2>3. txQueue[e] \in Seq(TxPkt)
    BY DEF TimersInv, Inv, TypeOK, SendOK
  <2> HIDE DEF sends, p
  <2> QED
    BY <2>1, <2>2, <2>3, QueueUnreliableNoData
<1> HIDE DEF sends, p, queue
<1>3. TimersOK(e)'
  BY <1>1, <1>2 DEF TimersInv, TimersOK, Inv, TypeOK, SendOK, ackVars
<1>4. \A f \in Endpoint : f # e => Same(f)
  BY <1>1 DEF Same, TimersInv, Inv, TypeOK, SendOK, ackVars
<1> QED
  BY <1>3, <1>4, SameTimers DEF TimersInv

LEMMA AJ_SerialInitTimers ==
  ASSUME TimersInv, NEW e \in Endpoint, AJ_SerialInit(e)
  PROVE  \A f \in Endpoint : TimersOK(f)'
<1>1. NoData(<<>>)
  BY DEF NoData
<1>2. TimersOK(e)'
  BY <1>1 DEF AJ_SerialInit, TimersInv, TimersOK, Inv, TypeOK, LinkOK, SendOK, AckOK
<1>3. \A f \in Endpoint : f # e => Same(f)
  BY DEF AJ_SerialInit, Same, TimersInv, Inv, TypeOK, LinkOK, SendOK, AckOK
<1> QED
  BY <1>2, <1>3, SameTimers DEF TimersInv

\* AJ_FillTxBufferList adds data to txSent on a link that has been ACTIVE, and starts the timer
\* unless it is primed; it stops the ack timer only with the backlog.
LEMMA FillTxBuffersTimers ==
  ASSUME TimersInv, NEW e \in Endpoint, FillTxBuffers(e)
  PROVE  \A f \in Endpoint : TimersOK(f)'
<1> DEFINE q == txQueue[e]
           k == IF dataSent[e] THEN Least(Len(q), TxBufs[e] - Len(txBuf[e])) ELSE 0
           data == IF k > 0 /\ IsUnreliable(Head(q)) THEN SubSeq(q, 2, k) ELSE SubSeq(q, 1, k)
           acks == \E i \in 1..k : q[i].type # "CTRL"
           rest == SubSeq(q, k + 1, Len(q))
<1>1. /\ txQueue' = [txQueue EXCEPT ![e] = rest]
      /\ txSent' = [txSent EXCEPT ![e] = @ \o data]
      /\ resendTimer' = [resendTimer EXCEPT ![e] = @ \/ (data # <<>> /\ ~resendPrimed[e])]
      /\ pendingAcks' = [pendingAcks EXCEPT ![e] = IF acks THEN 0 ELSE @]
      /\ ackTimer' = [ackTimer EXCEPT ![e] = @ /\ ~(acks /\ pendingAcks[e] > 0)]
      /\ UNCHANGED <<resendPrimed, linkState>>
  BY DEF FillTxBuffers, linkVars
<1>2. q \in Seq(TxPkt) /\ Len(q) \in Nat /\ OnlyFirstUnreliable(q) /\ txSent[e] \in Seq(DataPkt)
  BY LenProperties DEF TimersInv, Inv, TypeOK, SendOK, UnreliableQueuedOnce
<1>3. k \in Nat /\ k <= Len(q)
  BY <1>2, SlapAssumption, LenProperties DEF TimersInv, Inv, TypeOK, BufOK, Least
<1> HIDE DEF k, q
<1>4. NoData(q) => NoData(rest)
  BY <1>2, <1>3, DropNoData
<1>5. ASSUME NoData(q) PROVE data = <<>>
  <2>1. k <= 1
    BY <1>2, <1>3, <1>5, NoDataLength
  <2>2. k > 0 => IsUnreliable(Head(q))
    BY <1>2, <1>3, <1>5 DEF NoData
  <2>3. CASE k = 0
    BY <2>3, <1>2
  <2>4. CASE k = 1
    BY <2>2, <2>4, <1>2
  <2> QED
    BY <1>3, <2>1, <2>3, <2>4
<1>6. data = <<>> => txSent[e] \o data = txSent[e]
  BY <1>2, ConcatEmptySeq
<1> HIDE DEF data, acks, rest
<1>7. TimersOK(e)'
  <2>1. /\ resendPrimed'[e] = resendPrimed[e] /\ linkState'[e] = linkState[e]
        /\ txQueue'[e] = rest /\ txSent'[e] = txSent[e] \o data
        /\ resendTimer'[e] = (resendTimer[e] \/ (data # <<>> /\ ~resendPrimed[e]))
        /\ pendingAcks'[e] = IF acks THEN 0 ELSE pendingAcks[e]
        /\ ackTimer'[e] = (ackTimer[e] /\ ~(acks /\ pendingAcks[e] > 0))
    BY <1>1 DEF TimersInv, Inv, TypeOK, SendOK, AckOK
  <2>2. TimersOK(e)
    BY DEF TimersInv
  <2>3. pendingAcks'[e] > 0 => ackTimer'[e]
    <3>1. CASE acks
      BY <2>1, <3>1
    <3>2. CASE ~acks
      BY <2>1, <2>2, <3>2 DEF TimersOK
    <3> QED
      BY <3>1, <3>2
  <2>4. resendPrimed'[e] => resendTimer'[e]
    BY <2>1, <2>2 DEF TimersOK
  <2>5. linkState'[e] = "ACTIVE" /\ txSent'[e] # <<>> => resendTimer'[e]
    BY <1>6, <2>1, <2>2 DEF TimersOK
  <2>6. linkState'[e] \in {"UNINITIALIZED", "INITIALIZED"} => txSent'[e] = <<>> /\ NoData(txQueue'[e])
    BY <1>4, <1>5, <1>6, <2>1, <2>2 DEF TimersOK, q
  <2> QED
    BY <2>3, <2>4, <2>5, <2>6 DEF TimersOK
<1>8. \A f \in Endpoint : f # e => Same(f)
  BY <1>1 DEF Same, TimersInv, Inv, TypeOK, SendOK, AckOK
<1> QED
  BY <1>7, <1>8, SameTimers DEF TimersInv

\* A link packet never queues data, and does not bring a link back that has been ACTIVE.
LEMMA RxControlTimers ==
  ASSUME TimersInv, NEW e \in Endpoint, RxControl(e)
  PROVE  \A f \in Endpoint : TimersOK(f)'
<1> DEFINE p == Head(rxBuf[e]).pkt
           reply == LinkReply(linkState[e], p.kind)
           r == Ctrl(e, reply, packetSize'[e])
           queue == IF reply = "none" THEN txQueue[e] ELSE QueueUnreliable(txQueue[e], r)
<1>1. /\ linkState' = [linkState EXCEPT ![e] = NextLinkState(linkState[e], p.kind)]
      /\ txQueue' = [txQueue EXCEPT ![e] = queue]
      /\ UNCHANGED <<txSent, resendTimer, resendPrimed, ackVars>>
  BY DEF RxControl, AJ_Serial_LinkPacket
<1>2. packetSize'[e] \in Nat \ {0}
  BY RxControlInv DEF TimersInv, Inv, TypeOK, LinkOK
<1>3. NoData(txQueue[e]) => NoData(queue)
  <2>1. txQueue[e] \in Seq(TxPkt)
    BY DEF TimersInv, Inv, TypeOK, SendOK
  <2>2. ASSUME reply # "none" PROVE r \in TxPkt
    <3>1. reply \in LinkPktType
      BY <2>2 DEF LinkReply, LinkPktType, NegoPktType
    <3> QED
      BY <1>2, <3>1, CtrlType DEF TxPkt
  <2>3. IsUnreliable(r)
    BY CtrlUnreliable
  <2> HIDE DEF r, reply
  <2> QED
    BY <2>1, <2>2, <2>3, QueueUnreliableNoData
<1>4. LET state == NextLinkState(linkState[e], p.kind) IN
      /\ state \in {"UNINITIALIZED", "INITIALIZED"} =>
           linkState[e] \in {"UNINITIALIZED", "INITIALIZED"}
      /\ state = "ACTIVE" => linkState[e] \in {"INITIALIZED", "ACTIVE"}
  BY DEF NextLinkState
<1> HIDE DEF p, reply, r, queue
<1>5. TimersOK(e)'
  BY <1>1, <1>3, <1>4 DEF TimersInv, TimersOK, Inv, TypeOK, LinkOK, SendOK, ackVars
<1>6. \A f \in Endpoint : f # e => Same(f)
  BY <1>1 DEF Same, TimersInv, Inv, TypeOK, LinkOK, SendOK, ackVars
<1> QED
  BY <1>5, <1>6, SameTimers DEF TimersInv

\* An ack leaves the resend timer running when it leaves packets in txSent.
LEMMA ReceivedAckTimers ==
  ASSUME TimersInv, NEW e \in Endpoint, NEW ack \in 0..7, AJ_SerialTx_ReceivedAck(e, ack),
         linkState[e] = "ACTIVE"
  PROVE  /\ resendPrimed'[e] => resendTimer'[e]
         /\ txSent'[e] # <<>> => resendTimer'[e]
         /\ \A f \in Endpoint : f # e => /\ txSent'[f] = txSent[f]
                                         /\ resendTimer'[f] = resendTimer[f]
                                         /\ resendPrimed'[f] = resendPrimed[f]
<1>1. PICK k \in 0..Len(txSent[e]) :
        /\ txSent' = [txSent EXCEPT ![e] = SubSeq(@, k + 1, Len(@))]
        /\ IF k = 0 THEN UNCHANGED <<resendTimer, resendPrimed>>
           ELSE /\ resendTimer' = [resendTimer EXCEPT ![e] = k < Len(txSent[e])]
                /\ resendPrimed' = [resendPrimed EXCEPT ![e] = k < Len(txSent[e])]
  BY DEF AJ_SerialTx_ReceivedAck
<1>2. txSent[e] \in Seq(DataPkt) /\ Len(txSent[e]) \in Nat
  BY LenProperties DEF TimersInv, Inv, TypeOK, SendOK
<1>3. TimersOK(e)
  BY DEF TimersInv
<1>4. CASE k = 0
  <2>1. SubSeq(txSent[e], k + 1, Len(txSent[e])) = txSent[e]
    BY <1>2, <1>4, SubSeqFull
  <2> QED
    BY <1>1, <1>3, <1>4, <2>1 DEF TimersInv, TimersOK, Inv, TypeOK, SendOK
<1>5. CASE k # 0
  <2>1. k = Len(txSent[e]) => SubSeq(txSent[e], k + 1, Len(txSent[e])) = <<>>
    BY <1>2
  <2>2. /\ txSent'[e] = SubSeq(txSent[e], k + 1, Len(txSent[e]))
        /\ resendTimer'[e] = (k < Len(txSent[e])) /\ resendPrimed'[e] = (k < Len(txSent[e]))
    BY <1>1, <1>5 DEF TimersInv, Inv, TypeOK, SendOK
  <2>3. txSent'[e] # <<>> => k < Len(txSent[e])
    BY <1>2, <2>1, <2>2
  <2>4. \A f \in Endpoint : f # e => /\ txSent'[f] = txSent[f]
                                     /\ resendTimer'[f] = resendTimer[f]
                                     /\ resendPrimed'[f] = resendPrimed[f]
    BY <1>1, <1>5 DEF TimersInv, Inv, TypeOK, SendOK
  <2> QED
    BY <2>2, <2>3, <2>4
<1> QED
  BY <1>4, <1>5

\* The first packet of a backlog starts the ack timer.
LEMMA ReceivedSeqTimers ==
  ASSUME TimersInv, NEW e \in Endpoint, NEW seq \in 0..7, AJ_SerialTx_ReceivedSeq(e, seq)
  PROVE  /\ pendingAcks'[e] > 0 => ackTimer'[e]
         /\ \A f \in Endpoint : f # e => /\ pendingAcks'[f] = pendingAcks[f]
                                         /\ ackTimer'[f] = ackTimer[f]
                                         /\ txQueue'[f] = txQueue[f]
<1>1. /\ pendingAcks' = [pendingAcks EXCEPT ![e] = Least(pendingAcks[e] + 1, MaxPendingAcks)]
      /\ ackTimer' = [ackTimer EXCEPT ![e] = @ \/ pendingAcks[e] + 1 = 1]
      /\ \A f \in Endpoint : f # e => txQueue'[f] = txQueue[f]
  BY DEF AJ_SerialTx_ReceivedSeq, TimersInv, Inv, TypeOK, SendOK
<1>2. pendingAcks[e] \in 0..MaxPendingAcks /\ (pendingAcks[e] > 0 => ackTimer[e])
  BY DEF TimersInv, TimersOK, Inv, TypeOK, AckOK
<1>3. ackTimer'[e] = (ackTimer[e] \/ pendingAcks[e] + 1 = 1)
  BY <1>1 DEF TimersInv, Inv, TypeOK, AckOK
<1>4. pendingAcks[e] = 0 \/ pendingAcks[e] > 0
  BY <1>2 DEF MaxPendingAcks, MAX_WINDOW_SIZE
<1>5. pendingAcks[e] = 0 => pendingAcks[e] + 1 = 1
  OBVIOUS
<1>6. ackTimer'[e]
  BY <1>2, <1>3, <1>4, <1>5
<1>7. \A f \in Endpoint : f # e => /\ pendingAcks'[f] = pendingAcks[f]
                                   /\ ackTimer'[f] = ackTimer[f]
  BY <1>1 DEF TimersInv, Inv, TypeOK, AckOK
<1> QED
  BY <1>1, <1>6, <1>7

LEMMA RxPacketTimers ==
  ASSUME TimersInv, NEW e \in Endpoint, RxPacket(e)
  PROVE  \A f \in Endpoint : TimersOK(f)'
<1> DEFINE fr == Head(rxBuf[e])
<1>1. /\ RxTake(e) /\ fr.pkt.type # "CTRL" /\ AJ_SerialTx_ReceivedAck(e, fr.ack)
      /\ linkState[e] = "ACTIVE"
      /\ IF fr.pkt.type = "DATA" THEN RxData(e, fr.pkt)
         ELSE UNCHANGED <<txQueue, ackVars, recvVars, accepted>>
      /\ UNCHANGED <<linkState, windowSize, packetSize>>
  BY DEF RxPacket
<1>2. fr \in Frame
  BY <1>1, RxTakeType DEF TimersInv
<1> HIDE DEF fr
<1>3. /\ resendPrimed'[e] => resendTimer'[e]
      /\ txSent'[e] # <<>> => resendTimer'[e]
      /\ \A f \in Endpoint : f # e => /\ txSent'[f] = txSent[f]
                                      /\ resendTimer'[f] = resendTimer[f]
                                      /\ resendPrimed'[f] = resendPrimed[f]
  BY <1>1, <1>2, ReceivedAckTimers DEF Frame
<1>4. /\ pendingAcks'[e] > 0 => ackTimer'[e]
      /\ \A f \in Endpoint : f # e => /\ pendingAcks'[f] = pendingAcks[f]
                                      /\ ackTimer'[f] = ackTimer[f]
                                      /\ txQueue'[f] = txQueue[f]
  <2>1. CASE UNCHANGED <<txQueue, ackVars>>
    BY <2>1 DEF TimersInv, TimersOK, ackVars
  <2>2. CASE fr.pkt.type = "DATA" /\ AJ_SerialTx_ReceivedSeq(e, fr.pkt.seq)
    <3>1. fr.pkt.seq \in 0..7
      BY <1>2, <2>2 DEF Frame, TxPkt, DataPkt, CtrlPkt, NegoPkt, AckPkt
    <3> QED
      BY <2>2, <3>1, ReceivedSeqTimers
  <2> QED
    BY <1>1, <2>1, <2>2 DEF RxData
<1>5. TimersOK(e)'
  BY <1>1, <1>3, <1>4 DEF TimersOK
<1>6. \A f \in Endpoint : f # e => Same(f)
  BY <1>1, <1>3, <1>4 DEF Same
<1> QED
  BY <1>5, <1>6, SameTimers DEF TimersInv

-----------------------------------------------------------------------------
LEMMA TimersInitInv == Init \/ InitUp => TimersInv
<1> SUFFICES ASSUME Init \/ InitUp PROVE TimersInv
  OBVIOUS
<1>1. Inv
  BY InitInv, InitUpInv
<1>2. NoData(<<>>)
  BY DEF NoData
<1>3. \A e \in Endpoint : /\ resendPrimed[e] = FALSE /\ txSent[e] = <<>> /\ txQueue[e] = <<>>
                           /\ pendingAcks[e] = 0
  <2>1. CASE Init
    BY <2>1 DEF Init
  <2>2. CASE InitUp
    BY <2>2 DEF InitUp
  <2> QED
    BY <2>1, <2>2
<1>4. \A e \in Endpoint : TimersOK(e)
  <2> SUFFICES ASSUME NEW e \in Endpoint PROVE TimersOK(e)
    OBVIOUS
  <2>1. NoData(txQueue[e])
    BY <1>2, <1>3
  <2>2. ~(pendingAcks[e] > 0)
    BY <1>3
  <2> QED
    BY <1>3, <2>1, <2>2 DEF TimersOK
<1> QED
  BY <1>1, <1>4 DEF TimersInv

LEMMA TimersNextInv == TimersInv /\ [Next]_vars => TimersInv'
<1> SUFFICES ASSUME TimersInv, [Next]_vars PROVE TimersInv'
  OBVIOUS
<1>1. Inv'
  BY NextInv DEF TimersInv
<1>2. CASE UNCHANGED vars
  <2>1. \A f \in Endpoint : Same(f)
    BY <1>2 DEF vars, linkVars, sendVars, ackVars, Same
  <2> QED
    BY <1>1, <2>1, SameTimers DEF TimersInv
<1>3. ASSUME NEW e \in Endpoint,
             \/ StartSend(e) \/ AJ_SerialSend(e) \/ AJ_SerialRecv(e) \/ AJ_SerialDisconnect(e)
      PROVE  \A f \in Endpoint : TimersOK(f)'
  BY <1>3, QuietTimers, SendQueuesTimers, DisconnectTimers DEF AJ_SerialSend, AJ_SerialDisconnect
<1>4. ASSUME NEW e \in Endpoint, RxControl(e) \/ RxDiscard(e) \/ RxPacket(e)
      PROVE  \A f \in Endpoint : TimersOK(f)'
  BY <1>4, RxControlTimers, QuietTimers, RxPacketTimers
<1>5. ASSUME NEW e \in Endpoint,
             FillTxBuffers(e) \/ ResendPackets(e) \/ SendAck(e) \/ SendLinkPacket(e)
      PROVE  \A f \in Endpoint : TimersOK(f)'
  BY <1>5, FillTxBuffersTimers, ResendPacketsTimers, SendAckTimers, SendLinkPacketTimers
<1>6. ASSUME NEW e \in Endpoint, Deliver(e) \/ Lose(e) \/ AJ_SerialInit(e)
      PROVE  \A f \in Endpoint : TimersOK(f)'
  BY <1>6, QuietTimers, AJ_SerialInitTimers
<1>7. CASE Next
  <2>1. PICK e \in Endpoint :
          \/ StartSend(e) \/ AJ_SerialSend(e) \/ AJ_SerialRecv(e) \/ AJ_SerialDisconnect(e)
          \/ RxControl(e) \/ RxDiscard(e) \/ RxPacket(e)
          \/ FillTxBuffers(e) \/ ResendPackets(e) \/ SendAck(e) \/ SendLinkPacket(e)
          \/ Deliver(e) \/ Lose(e)
          \/ AJ_SerialInit(e)
    BY <1>7 DEF Next
  <2>2. \A f \in Endpoint : TimersOK(f)'
    BY <2>1, <1>3, <1>4, <1>5, <1>6
  <2> QED
    BY <1>1, <2>2 DEF TimersInv
<1> QED
  BY <1>2, <1>7

\* Whatever is resent, acknowledged in part, lost or started over: on an active link a packet that
\* waits for its ack has the resend timer running, and an ack that is due has the ack timer.
THEOREM TimersAlwaysArmed == Spec => []TimersArmed
<1>1. TimersInv => TimersArmed
  BY DEF TimersInv, TimersOK, TimersArmed
<1> QED
  BY <1>1, TimersInitInv, TimersNextInv, PTL DEF Spec

\* The same for the behaviours that start with the link up.
THEOREM TimersAlwaysArmedUp == SpecUp => []TimersArmed
<1>1. TimersInv => TimersArmed
  BY DEF TimersInv, TimersOK, TimersArmed
<1> QED
  BY <1>1, TimersInitInv, TimersNextInv, PTL DEF SpecUp

(***************************************************************************)
(* The packet lists: no packet is on two lists, and the lists hold no more *)
(* than AJ_SerialTX_Init and AJ_SerialRX_Init have allocated.              *)
(***************************************************************************)
(***************************************************************************)
(* The data of an end that waits for an ack: first the packets in txSent,  *)
(* then those in txQueue behind the unreliable packet if there is one.     *)
(***************************************************************************)
Off(q) == IF q # <<>> /\ IsUnreliable(Head(q)) THEN 1 ELSE 0
Waiting(sent, q) == Len(sent) + Len(q) - Off(q)
At(sent, q, i) == IF i <= Len(sent) THEN sent[i].item.n ELSE q[i - Len(sent) + Off(q)].item.n

\* They have been queued in this order, and none after position top.
Ordered(sent, q, top) ==
  \A i \in 1..Waiting(sent, q) :
    At(sent, q, i) <= top /\ \A j \in 1..(i - 1) : At(sent, q, j) < At(sent, q, i)

\* What waits in new lists is what waits in the old ones without the first d.
Behind(sent2, q2, sent, q, d) ==
  /\ d \in Nat /\ Waiting(sent2, q2) = Waiting(sent, q) - d
  /\ \A i \in 1..Waiting(sent2, q2) : At(sent2, q2, i) = At(sent, q, i + d)

ListsOK(e) ==
  /\ Ordered(txSent[e], txQueue[e], Queued(e))
  /\ txFree[e] + Waiting(txSent[e], txQueue[e]) <= MaxWindow[e]
  /\ rxFree[e] + Len(rxRecv[e]) = MaxWindow[e]

ListsInv == Inv /\ \A e \in Endpoint : ListsOK(e)

\* The variables of an end that ListsOK reads keep their values in a step.
SameLists(e) ==
  /\ txSent'[e] = txSent[e] /\ txQueue'[e] = txQueue[e] /\ txFree'[e] = txFree[e]
  /\ rxRecv'[e] = rxRecv[e] /\ rxFree'[e] = rxFree[e] /\ log'[e] = log[e]

LEMMA SameKeeps ==
  ASSUME NEW e \in Endpoint, ListsOK(e), SameLists(e)
  PROVE  ListsOK(e)'
BY DEF ListsOK, SameLists, Queued, Epoch

-----------------------------------------------------------------------------
\* What the operations on the lists do to the data that waits.

\* Behind the first packet of the queue there is only data.
LEMMA QueueFacts ==
  ASSUME NEW q \in Seq(TxPkt), OnlyFirstUnreliable(q)
  PROVE  /\ Len(q) \in Nat /\ Off(q) \in 0..1 /\ Off(q) <= Len(q)
         /\ \A i \in 1..Len(q) : i > Off(q) <=> q[i].type = "DATA"
<1>1. Len(q) \in Nat /\ (q # <<>> => Len(q) > 0 /\ Head(q) = q[1])
  BY LenProperties, EmptySeq
<1> QED
  BY <1>1 DEF Off, OnlyFirstUnreliable, IsUnreliable

\* A position of the data that waits is one of sent, or one of q behind the unreliable packet.
LEMMA Place ==
  ASSUME NEW n \in Nat, NEW m \in Nat, NEW o \in 0..1, NEW i \in 1..(n + m - o)
  PROVE  IF i <= n THEN i \in 1..n ELSE i - n + o \in 1..m /\ i - n + o > o
OBVIOUS

\* The same when the first k elements of q, or those but the unreliable one, have gone to sent.
LEMMA PlaceBehind ==
  ASSUME NEW n \in Nat, NEW m \in Nat, NEW o \in 0..1, NEW i \in 1..(n + m - o),
         NEW k \in Nat, k <= m, NEW off \in 0..1, off <= k, k > 0 => off = o,
         i > n + k - off
  PROVE  i - (n + k - off) + (IF k = 0 THEN o ELSE 0) \in 1..(m - k)
<1>1. CASE k = 0
  BY <1>1
<1>2. CASE k > 0
  BY <1>2
<1> QED
  BY <1>1, <1>2

LEMMA WaitingType ==
  ASSUME NEW sent \in Seq(DataPkt), NEW q \in Seq(TxPkt), OnlyFirstUnreliable(q)
  PROVE  /\ Len(sent) \in Nat /\ Waiting(sent, q) \in Nat /\ Waiting(sent, q) >= Len(sent)
         /\ \A i \in 1..Waiting(sent, q) : At(sent, q, i) \in Nat
<1>1. Len(sent) \in Nat /\ \A i \in 1..Len(sent) : sent[i].item.n \in Nat
  <2>1. \A p \in DataPkt : p.item.n \in Nat
    BY DEF DataPkt, Item
  <2>2. \A i \in 1..Len(sent) : sent[i] \in DataPkt
    BY ElementOfSeq
  <2> QED
    BY <2>1, <2>2, LenProperties
<1>2. \A i \in 1..Len(q) : i > Off(q) => q[i].item.n \in Nat
  <2> SUFFICES ASSUME NEW i \in 1..Len(q), i > Off(q) PROVE q[i].item.n \in Nat
    OBVIOUS
  <2>1. q[i].type = "DATA" /\ q[i] \in TxPkt
    BY QueueFacts, ElementOfSeq
  <2>2. q[i] \in DataPkt
    BY <2>1, ReliableIsData DEF IsUnreliable
  <2> QED
    BY <2>2 DEF DataPkt, Item
<1>3. Len(q) \in Nat /\ Off(q) \in 0..1 /\ Off(q) <= Len(q)
  BY QueueFacts
<1>4. Waiting(sent, q) \in Nat /\ Waiting(sent, q) >= Len(sent)
  BY <1>1, <1>3 DEF Waiting
<1>5. ASSUME NEW i \in 1..Waiting(sent, q) PROVE At(sent, q, i) \in Nat
  <2>1. IF i <= Len(sent) THEN i \in 1..Len(sent)
        ELSE i - Len(sent) + Off(q) \in 1..Len(q) /\ i - Len(sent) + Off(q) > Off(q)
    BY <1>1, <1>3, Place DEF Waiting
  <2> QED
    BY <1>1, <1>2, <2>1 DEF At
<1> QED
  BY <1>1, <1>4, <1>5

\* Taking the first packets away keeps the rest in order.
LEMMA BehindOrdered ==
  ASSUME NEW sent \in Seq(DataPkt), NEW q \in Seq(TxPkt), OnlyFirstUnreliable(q), NEW top,
         Ordered(sent, q, top), NEW sent2, NEW q2, NEW d, Behind(sent2, q2, sent, q, d)
  PROVE  Ordered(sent2, q2, top)
<1>1. Waiting(sent, q) \in Nat /\ d \in Nat
  BY WaitingType DEF Behind
<1> SUFFICES ASSUME NEW i \in 1..Waiting(sent2, q2)
             PROVE  At(sent2, q2, i) <= top /\ \A j \in 1..(i - 1) : At(sent2, q2, j) < At(sent2, q2, i)
  BY DEF Ordered
<1>2. PICK k \in 1..Waiting(sent, q) : k = i + d
  BY <1>1 DEF Behind
<1>3. At(sent2, q2, i) = At(sent, q, k)
  BY <1>2 DEF Behind
<1>4. At(sent, q, k) <= top /\ \A j \in 1..(k - 1) : At(sent, q, j) < At(sent, q, k)
  BY DEF Ordered
<1>5. ASSUME NEW j \in 1..(i - 1) PROVE At(sent2, q2, j) < At(sent2, q2, i)
  <2>1. PICK l \in 1..(k - 1) : l = j + d
    BY <1>1, <1>2
  <2>2. At(sent2, q2, j) = At(sent, q, l)
    BY <1>1, <2>1 DEF Behind
  <2> QED
    BY <1>3, <1>4, <2>2
<1> QED
  BY <1>3, <1>4, <1>5

\* The reserved packet goes in front of the data, or takes the place of itself.
LEMMA QueueUnreliableBehind ==
  ASSUME NEW sent \in Seq(DataPkt), NEW q \in Seq(TxPkt), OnlyFirstUnreliable(q),
         NEW p \in TxPkt, IsUnreliable(p)
  PROVE  Behind(sent, QueueUnreliable(q, p), sent, q, 0)
<1> DEFINE r == QueueUnreliable(q, p)
<1>1. /\ Len(r) = Len(q) - Off(q) + 1 /\ r # <<>> /\ Head(r) = p
      /\ \A i \in 1..(Len(q) - Off(q)) : r[i + 1] = q[i + Off(q)]
  <2>1. CASE q # <<>> /\ IsUnreliable(Head(q))
    BY <2>1, HeadTailProperties, ConcatProperties DEF QueueUnreliable, Off
  <2>2. CASE ~(q # <<>> /\ IsUnreliable(Head(q)))
    BY <2>2, ConcatProperties DEF QueueUnreliable, Off
  <2> QED
    BY <2>1, <2>2
<1>2. Off(r) = 1
  BY <1>1 DEF Off
<1> HIDE DEF r
<1>3. Len(sent) \in Nat /\ Len(q) \in Nat /\ Off(q) \in 0..1
  BY QueueFacts, LenProperties
<1>4. Waiting(sent, r) = Waiting(sent, q)
  BY <1>1, <1>2, <1>3 DEF Waiting
<1>5. ASSUME NEW i \in 1..Waiting(sent, q) PROVE At(sent, r, i) = At(sent, q, i + 0)
  <2>1. i + 0 = i /\ i \in 1..(Len(sent) + Len(q) - Off(q))
    BY <1>3 DEF Waiting
  <2>2. CASE i <= Len(sent)
    BY <2>1, <2>2 DEF At
  <2>3. CASE ~(i <= Len(sent))
    <3>1. i - Len(sent) \in 1..(Len(q) - Off(q))
      BY <1>3, <2>1, <2>3
    <3>2. r[i - Len(sent) + 1] = q[i - Len(sent) + Off(q)]
      BY <1>1, <3>1
    <3> QED
      BY <1>2, <2>1, <2>3, <3>2 DEF At
  <2> QED
    BY <2>2, <2>3
<1>6. Behind(sent, r, sent, q, 0)
  BY <1>3, <1>4, <1>5 DEF Behind, Waiting
<1> QED
  BY <1>6 DEF r

\* AJ_FillTxBufferList moves data from the queue to the end of txSent.
LEMMA FillBehind ==
  ASSUME NEW sent \in Seq(DataPkt), NEW q \in Seq(TxPkt), OnlyFirstUnreliable(q),
         NEW k \in Nat, k <= Len(q), NEW data \in Seq(DataPkt),
         data = IF k > 0 /\ IsUnreliable(Head(q)) THEN SubSeq(q, 2, k) ELSE SubSeq(q, 1, k)
  PROVE  Behind(sent \o data, SubSeq(q, k + 1, Len(q)), sent, q, 0)
<1> DEFINE rest == SubSeq(q, k + 1, Len(q))
           off == IF k > 0 THEN Off(q) ELSE 0
           moved == sent \o data
<1>1. Len(q) \in Nat /\ Off(q) \in 0..1 /\ Len(sent) \in Nat /\ (k > 0 => q # <<>>)
  BY QueueFacts, LenProperties
<1>0. off \in 0..1 /\ off <= k /\ (k = 0 => off = 0) /\ (k > 0 => off = Off(q))
  BY <1>1
<1>2. Len(data) = k - off /\ \A i \in 1..Len(data) : data[i] = q[i + off]
  <2>1. CASE k > 0 /\ IsUnreliable(Head(q))
    BY <1>1, <2>1 DEF Off
  <2>2. CASE ~(k > 0 /\ IsUnreliable(Head(q)))
    BY <1>1, <2>2 DEF Off
  <2> QED
    BY <2>1, <2>2
<1>3. /\ rest \in Seq(TxPkt) /\ Len(rest) = Len(q) - k
      /\ \A i \in 1..Len(rest) : rest[i] = q[i + k]
  BY <1>1
<1>4. Off(rest) = IF k = 0 THEN Off(q) ELSE 0
  <2>1. CASE k = 0
    <3>1. rest = SubSeq(q, 1, Len(q))
      BY <2>1
    <3>2. rest = q
      BY <3>1, SubSeqFull
    <3> QED
      BY <2>1, <3>2
  <2>2. CASE k # 0 /\ rest # <<>>
    <3>1. Head(rest) = q[k + 1] /\ k + 1 \in 1..Len(q)
      BY <1>1, <1>3, <2>2
    <3>2. k + 1 \in 2..Len(q)
      BY <2>2, <3>1
    <3>3. q[k + 1].type = "DATA"
      BY <3>2 DEF OnlyFirstUnreliable
    <3>4. ~IsUnreliable(Head(rest))
      BY <3>1, <3>3 DEF IsUnreliable
    <3> QED
      BY <2>2, <3>4 DEF Off
  <2>3. CASE k # 0 /\ rest = <<>>
    BY <2>3 DEF Off
  <2> QED
    BY <2>1, <2>2, <2>3
<1>5. /\ Len(moved) = Len(sent) + Len(data)
      /\ \A i \in 1..Len(moved) : moved[i] = IF i <= Len(sent) THEN sent[i] ELSE data[i - Len(sent)]
  BY ConcatProperties
<1> HIDE DEF rest, moved, off
<1>6. Waiting(moved, rest) = Waiting(sent, q) /\ Len(moved) = Len(sent) + k - off
  <2>1. Len(moved) = Len(sent) + k - off
    BY <1>0, <1>1, <1>2, <1>5
  <2>2. Len(rest) = Len(q) - k
    BY <1>3
  <2>3. Len(moved) + Len(rest) - Off(rest) = Len(sent) + Len(q) - Off(q)
    BY <1>0, <1>1, <1>4, <2>1, <2>2
  <2> QED
    BY <2>1, <2>3 DEF Waiting
<1>7. ASSUME NEW i \in 1..Waiting(sent, q) PROVE At(moved, rest, i) = At(sent, q, i)
  <2>0. i \in Nat /\ i > 0 /\ i <= Len(sent) + Len(q) - Off(q)
    BY <1>1 DEF Waiting
  <2>1. CASE i <= Len(sent)
    <3>1. i \in 1..Len(moved) /\ moved[i] = sent[i]
      BY <1>0, <1>1, <1>5, <1>6, <2>0, <2>1
    <3> QED
      BY <1>1, <1>6, <2>0, <2>1, <3>1 DEF At
  <2>2. CASE i > Len(sent) /\ i <= Len(moved)
    <3>1. PICK j \in 1..Len(data) : j = i - Len(sent)
      <4>1. Len(data) = k - off /\ Len(moved) = Len(sent) + k - off
        BY <1>2, <1>6
      <4>2. i - Len(sent) \in 1..Len(data)
        BY <1>0, <1>1, <2>0, <2>2, <4>1
      <4> QED
        BY <4>2
    <3>2. k > 0 /\ j + off = i - Len(sent) + Off(q)
      <4>1. Len(data) = k - off /\ j > 0 /\ j <= Len(data)
        BY <1>0, <1>2, <3>1
      <4>2. k > 0
        BY <1>0, <4>1, <3>1
      <4> QED
        BY <1>0, <4>2, <3>1
    <3>3. moved[i] = data[j]
      BY <1>5, <2>0, <2>2, <3>1
    <3>4. data[j] = q[i - Len(sent) + Off(q)]
      BY <1>2, <3>2
    <3>5. ~(i <= Len(sent))
      BY <1>1, <2>0, <2>2
    <3> QED
      BY <2>2, <3>3, <3>4, <3>5 DEF At
  <2>3. CASE i > Len(moved)
    <3>1. PICK j \in 1..Len(rest) : j = i - Len(moved) + Off(rest)
      <4>1. Off(rest) \in 0..1 /\ Len(rest) = Len(q) - k /\ Len(moved) = Len(sent) + k - off
        BY <1>1, <1>3, <1>4, <1>6
      <4>2. i - Len(moved) + Off(rest) \in 1..Len(rest)
        <5>1. i \in 1..(Len(sent) + Len(q) - Off(q)) /\ i > Len(sent) + k - off
          BY <2>0, <2>3, <4>1, <1>1
        <5> QED
          BY <1>0, <1>1, <1>4, <4>1, <5>1, PlaceBehind
      <4> QED
        BY <4>2
    <3>2. j + k = i - Len(sent) + Off(q)
      BY <1>0, <1>1, <1>4, <1>6, <2>0, <3>1
    <3>3. rest[j] = q[i - Len(sent) + Off(q)]
      BY <1>3, <3>1, <3>2
    <3>4. ~(i <= Len(moved)) /\ ~(i <= Len(sent))
      BY <1>0, <1>1, <1>6, <2>0, <2>3
    <3> QED
      BY <3>1, <3>3, <3>4 DEF At
  <2> QED
    BY <1>0, <1>1, <1>6, <2>0, <2>1, <2>2, <2>3
<1>8. Behind(moved, rest, sent, q, 0)
  <2>1. Waiting(sent, q) \in Nat
    BY WaitingType
  <2>2. Waiting(sent, q) - 0 = Waiting(sent, q) /\ \A i \in 1..Waiting(sent, q) : i + 0 = i
    BY <2>1
  <2> QED
    BY <1>6, <1>7, <2>2 DEF Behind
<1> QED
  BY <1>8 DEF rest, moved

\* Packets that have been acknowledged are the first to go.
LEMMA DropBehind ==
  ASSUME NEW sent \in Seq(DataPkt), NEW q \in Seq(TxPkt), OnlyFirstUnreliable(q),
         NEW k \in 0..Len(sent)
  PROVE  Behind(SubSeq(sent, k + 1, Len(sent)), q, sent, q, k)
<1> DEFINE rest == SubSeq(sent, k + 1, Len(sent))
<1>1. Len(q) \in Nat /\ Off(q) \in 0..1 /\ Off(q) <= Len(q) /\ Len(sent) \in Nat /\ k \in Nat
  BY QueueFacts, LenProperties
<1>2. Len(rest) = Len(sent) - k /\ \A i \in 1..Len(rest) : rest[i] = sent[i + k]
  BY <1>1
<1> HIDE DEF rest
<1>3. Waiting(rest, q) = Waiting(sent, q) - k
  BY <1>1, <1>2 DEF Waiting
<1>4. ASSUME NEW i \in 1..Waiting(rest, q) PROVE At(rest, q, i) = At(sent, q, i + k)
  <2>1. i \in Nat /\ i - Len(rest) = i + k - Len(sent) /\ (i <= Len(rest) <=> i + k <= Len(sent))
    BY <1>1, <1>2, <1>3 DEF Waiting
  <2> QED
    BY <1>2, <2>1 DEF At
<1>5. Behind(rest, q, sent, q, k)
  BY <1>1, <1>3, <1>4 DEF Behind
<1> QED
  BY <1>5 DEF rest

\* ResendPackets puts txSent in front of the data of the queue, or its last packet only.
LEMMA RequeueBehind ==
  ASSUME NEW sent \in Seq(DataPkt), sent # <<>>, NEW q \in Seq(TxPkt), OnlyFirstUnreliable(q)
  PROVE  \E d \in Nat : Behind(<<>>, Requeue(q, sent), sent, q, d)
<1> DEFINE r == Requeue(q, sent)
           d == IF Off(q) = 1 THEN Len(sent) - 1 ELSE 0
<1>1. Len(q) \in Nat /\ Off(q) \in 0..1 /\ Off(q) <= Len(q) /\ Len(sent) \in Nat \ {0}
  BY QueueFacts, EmptySeq
<1>2. /\ Off(r) = Off(q) /\ Len(r) = Len(q) + Len(sent) - d
      /\ \A i \in 1..(Len(r) - Off(r)) :
           r[i + Off(r)] = IF i + d <= Len(sent) THEN sent[i + d] ELSE q[i + d - Len(sent) + Off(q)]
  <2>1. CASE q # <<>> /\ IsUnreliable(Head(q))
    <3> DEFINE h == <<Head(q), sent[Len(sent)]>>
    <3>1. Off(q) = 1 /\ d = Len(sent) - 1 /\ r = h \o Tail(q)
      BY <2>1 DEF Off, Requeue
    <3>2. /\ Len(Tail(q)) = Len(q) - 1 /\ Tail(q) \in Seq(TxPkt)
          /\ \A i \in 1..(Len(q) - 1) : Tail(q)[i] = q[i + 1]
      BY <1>1, <2>1, HeadTailProperties
    <3>3. h \in Seq(TxPkt) /\ Len(h) = 2 /\ h[1] = Head(q) /\ h[2] = sent[Len(sent)]
      <4>1. Head(q) \in TxPkt /\ sent[Len(sent)] \in DataPkt
        BY <1>1, <2>1, HeadTailProperties, ElementOfSeq
      <4> QED
        BY <4>1, DataIsTx
    <3>4. /\ Len(r) = Len(q) + 1
          /\ \A i \in 1..(Len(q) + 1) : r[i] = IF i <= 2 THEN h[i] ELSE Tail(q)[i - 2]
      BY <1>1, <3>1, <3>2, <3>3, ConcatProperties
    <3> HIDE DEF r, d, h
    <3>5. r # <<>> /\ Head(r) = Head(q)
      BY <1>1, <3>3, <3>4
    <3>6. Off(r) = 1
      BY <2>1, <3>5 DEF Off
    <3>7. ASSUME NEW i \in 1..(Len(r) - Off(r))
          PROVE  r[i + Off(r)] = IF i + d <= Len(sent) THEN sent[i + d] ELSE q[i + d - Len(sent) + Off(q)]
      <4>1. CASE i = 1
        BY <1>1, <3>1, <3>3, <3>4, <3>6, <4>1
      <4>2. CASE i # 1
        <5>1. i - 1 \in 1..(Len(q) - 1) /\ i + 1 \in 1..(Len(q) + 1) /\ i + 1 > 2
          BY <1>1, <3>4, <3>6, <4>2
        <5>2. r[i + 1] = Tail(q)[i - 1] /\ Tail(q)[i - 1] = q[i]
          <6>1. r[i + 1] = Tail(q)[(i + 1) - 2] /\ ~(i + 1 <= 2)
            BY <3>4, <5>1
          <6>2. (i + 1) - 2 = i - 1 /\ (i - 1) + 1 = i
            BY <5>1
          <6>3. Tail(q)[i - 1] = q[(i - 1) + 1]
            BY <3>2, <5>1
          <6> QED
            BY <6>1, <6>2, <6>3
        <5>3. i + Off(r) = i + 1 /\ ~(i + d <= Len(sent)) /\ i + d - Len(sent) + Off(q) = i
          BY <1>1, <3>1, <3>6, <4>2, <5>1
        <5> QED
          BY <5>2, <5>3
      <4> QED
        BY <4>1, <4>2
    <3>8. Len(r) = Len(q) + Len(sent) - d
      BY <1>1, <3>1, <3>4
    <3> QED
      BY <3>1, <3>6, <3>7, <3>8
  <2>2. CASE ~(q # <<>> /\ IsUnreliable(Head(q)))
    <3>1. Off(q) = 0 /\ d = 0 /\ r = sent \o q
      BY <2>2 DEF Off, Requeue
    <3>2. /\ Len(r) = Len(sent) + Len(q)
          /\ \A i \in 1..Len(r) : r[i] = IF i <= Len(sent) THEN sent[i] ELSE q[i - Len(sent)]
      BY <3>1, DataIsTx, ConcatProperties
    <3> HIDE DEF r, d
    <3>3. Off(r) = 0
      <4>1. Head(r) = sent[1] /\ sent[1] \in DataPkt
        BY <1>1, <3>2, ElementOfSeq
      <4> QED
        BY <4>1, DataIsTx DEF Off, IsUnreliable
    <3> QED
      BY <1>1, <3>1, <3>2, <3>3
  <2> QED
    BY <2>1, <2>2
<1>3. d \in Nat /\ d < Len(sent)
  BY <1>1
<1> HIDE DEF r, d
<1>4. Waiting(<<>>, r) = Waiting(sent, q) - d
  BY <1>1, <1>2, <1>3 DEF Waiting
<1>5. ASSUME NEW i \in 1..Waiting(<<>>, r) PROVE At(<<>>, r, i) = At(sent, q, i + d)
  <2>1. i \in 1..(Len(r) - Off(r)) /\ i \in Nat /\ ~(i <= 0) /\ i - 0 + Off(r) = i + Off(r)
    BY <1>1, <1>2, <1>3 DEF Waiting
  <2>2. At(<<>>, r, i) = r[i + Off(r)].item.n
    BY <2>1 DEF At
  <2>3. r[i + Off(r)] = IF i + d <= Len(sent) THEN sent[i + d] ELSE q[i + d - Len(sent) + Off(q)]
    BY <1>2, <2>1
  <2>4. CASE i + d <= Len(sent)
    BY <2>2, <2>3, <2>4 DEF At
  <2>5. CASE ~(i + d <= Len(sent))
    <3>1. r[i + Off(r)] = q[i + d - Len(sent) + Off(q)]
      BY <2>3, <2>5
    <3>2. At(sent, q, i + d) = q[i + d - Len(sent) + Off(q)].item.n
      BY <1>1, <1>3, <2>1, <2>5 DEF At
    <3> QED
      BY <2>2, <3>1, <3>2
  <2> QED
    BY <2>4, <2>5
<1>6. Behind(<<>>, r, sent, q, d)
  BY <1>3, <1>4, <1>5 DEF Behind
<1> QED
  BY <1>3, <1>6 DEF r

\* New packets go to the end.
LEMMA SendAppends ==
  ASSUME NEW sent \in Seq(DataPkt), NEW q \in Seq(TxPkt), OnlyFirstUnreliable(q),
         NEW top \in Nat, NEW new \in Seq(DataPkt),
         \A i \in 1..Len(new) : new[i].item.n = top + i
  PROVE  /\ Waiting(sent, q \o new) = Waiting(sent, q) + Len(new)
         /\ \A i \in 1..Waiting(sent, q) : At(sent, q \o new, i) = At(sent, q, i)
         /\ \A i \in 1..Len(new) : At(sent, q \o new, Waiting(sent, q) + i) = top + i
<1> DEFINE r == q \o new
           w == Waiting(sent, q)
<1>1. Len(q) \in Nat /\ Off(q) \in 0..1 /\ Off(q) <= Len(q) /\ Len(sent) \in Nat /\ Len(new) \in Nat
  BY QueueFacts, LenProperties
<1>2. /\ Len(r) = Len(q) + Len(new)
      /\ \A i \in 1..Len(r) : r[i] = IF i <= Len(q) THEN q[i] ELSE new[i - Len(q)]
  BY DataIsTx, ConcatProperties
<1>3. Off(r) = Off(q)
  <2>1. CASE q = <<>>
    <3>1. r = new
      BY <2>1, DataIsTx, ConcatEmptySeq
    <3>2. new # <<>> => Head(new) \in DataPkt
      BY HeadTailProperties
    <3> QED
      BY <2>1, <3>1, <3>2, DataIsTx DEF Off, IsUnreliable
  <2>2. CASE q # <<>>
    <3>1. Len(q) > 0 /\ r # <<>> /\ Head(r) = Head(q)
      BY <1>1, <1>2, <2>2
    <3> QED
      BY <2>2, <3>1 DEF Off
  <2> QED
    BY <2>1, <2>2
<1> HIDE DEF r
<1>4. Waiting(sent, r) = w + Len(new) /\ w \in Nat /\ w >= Len(sent)
  BY <1>1, <1>2, <1>3 DEF Waiting
<1>5. ASSUME NEW i \in 1..w PROVE At(sent, r, i) = At(sent, q, i) /\ At(sent, q, i) \in Nat
  <2>1. At(sent, q, i) \in Nat
    BY WaitingType
  <2>2. i <= Len(sent) \/ i - Len(sent) + Off(q) \in 1..Len(q)
    BY <1>1 DEF Waiting
  <2> QED
    BY <1>1, <1>2, <1>3, <2>1, <2>2 DEF At
<1>6. ASSUME NEW i \in 1..Len(new), NEW m, m = w + i
      PROVE  At(sent, r, m) = top + i
  <2>1. w = Len(sent) + Len(q) - Off(q) /\ Len(r) = Len(q) + Len(new) /\ i \in Nat /\ i > 0
    BY <1>2 DEF Waiting
  <2>2. m - Len(sent) + Off(r) = Len(q) + i /\ ~(m <= Len(sent))
    BY <1>1, <1>3, <1>6, <2>1
  <2>3. Len(q) + i \in 1..Len(r) /\ ~(Len(q) + i <= Len(q)) /\ (Len(q) + i) - Len(q) = i
    BY <1>1, <2>1
  <2>4. r[Len(q) + i] = new[i]
    BY <1>2, <2>3
  <2> QED
    BY <2>2, <2>4 DEF At
<1> QED
  BY <1>4, <1>5, <1>6 DEF r, w

LEMMA SendOrdered ==
  ASSUME NEW sent \in Seq(DataPkt), NEW q \in Seq(TxPkt), OnlyFirstUnreliable(q),
         NEW top \in Nat, Ordered(sent, q, top), NEW new \in Seq(DataPkt),
         \A i \in 1..Len(new) : new[i].item.n = top + i
  PROVE  /\ Ordered(sent, q \o new, top + Len(new))
         /\ Waiting(sent, q \o new) = Waiting(sent, q) + Len(new)
<1> DEFINE r == q \o new
           w == Waiting(sent, q)
<1>1. Len(sent) \in Nat /\ Len(new) \in Nat
  BY LenProperties
<1>2. Waiting(sent, r) = w + Len(new) /\ w \in Nat /\ w >= Len(sent)
  BY SendAppends, WaitingType
<1>3. ASSUME NEW i \in 1..w PROVE At(sent, r, i) = At(sent, q, i) /\ At(sent, q, i) \in Nat
  BY SendAppends, WaitingType
<1>4. ASSUME NEW i \in 1..Len(new), NEW m, m = w + i
      PROVE  At(sent, r, m) = top + i
  BY <1>4, SendAppends
<1> HIDE DEF r
<1> HIDE DEF w
<1>5. ASSUME NEW i \in 1..w
      PROVE  At(sent, r, i) <= top + Len(new) /\ \A j \in 1..(i - 1) : At(sent, r, j) < At(sent, r, i)
  <2>1. At(sent, q, i) <= top /\ \A j \in 1..(i - 1) : At(sent, q, j) < At(sent, q, i)
    BY DEF Ordered, w
  <2>2. \A j \in 1..(i - 1) : j \in 1..w
    BY <1>2
  <2> QED
    BY <1>1, <1>3, <2>1, <2>2
<1>6. ASSUME NEW i \in 1..Len(new), NEW m, m = w + i
      PROVE  At(sent, r, m) <= top + Len(new) /\ \A j \in 1..(m - 1) : At(sent, r, j) < At(sent, r, m)
  <2>1. ASSUME NEW j \in 1..(m - 1) PROVE At(sent, r, j) < top + i
    <3>1. CASE j \in 1..w
      <4>1. At(sent, q, j) <= top
        BY <3>1 DEF Ordered, w
      <4> QED
        BY <1>3, <3>1, <4>1
    <3>2. CASE j \notin 1..w
      <4>1. PICK k \in 1..Len(new) : j = w + k /\ k < i
        BY <1>1, <1>2, <1>6, <3>2
      <4> QED
        BY <1>4, <4>1
    <3> QED
      BY <3>1, <3>2
  <2>2. At(sent, r, m) = top + i
    BY <1>4, <1>6
  <2> QED
    BY <1>1, <2>1, <2>2
<1>7. Ordered(sent, r, top + Len(new))
  <2> SUFFICES ASSUME NEW i \in 1..(w + Len(new))
               PROVE  /\ At(sent, r, i) <= top + Len(new)
                      /\ \A j \in 1..(i - 1) : At(sent, r, j) < At(sent, r, i)
    BY <1>2 DEF Ordered
  <2>1. CASE i \in 1..w
    BY <1>5, <2>1
  <2>2. CASE i \notin 1..w
    <3>1. PICK k \in 1..Len(new) : i = w + k
      BY <1>1, <1>2, <2>2
    <3> QED
      BY <1>6, <3>1
  <2> QED
    BY <2>1, <2>2
<1> QED
  BY <1>2, <1>7 DEF r, w

LEMMA BehindSelf ==
  ASSUME NEW sent \in Seq(DataPkt), NEW q \in Seq(TxPkt), OnlyFirstUnreliable(q)
  PROVE  Behind(sent, q, sent, q, 0)
<1>1. Waiting(sent, q) \in Nat
  BY WaitingType
<1>2. Waiting(sent, q) - 0 = Waiting(sent, q) /\ \A i \in 1..Waiting(sent, q) : i + 0 = i
  BY <1>1
<1> QED
  BY <1>2 DEF Behind

\* An ack is taken, and then one is queued.
LEMMA BehindBoth ==
  ASSUME NEW sent, NEW q, NEW sent2, NEW q2, NEW d,
         Waiting(sent2, q) \in Nat,
         Behind(sent2, q, sent, q, d), Behind(sent2, q2, sent2, q, 0)
  PROVE  Behind(sent2, q2, sent, q, d)
<1>1. Waiting(sent2, q2) = Waiting(sent2, q)
  BY DEF Behind
<1>2. ASSUME NEW i \in 1..Waiting(sent2, q) PROVE At(sent2, q2, i) = At(sent2, q, i)
  <2>1. i + 0 = i
    OBVIOUS
  <2> QED
    BY <1>1, <2>1 DEF Behind
<1> QED
  BY <1>1, <1>2 DEF Behind

-----------------------------------------------------------------------------
\* Every action keeps ListsOK at its own end, and leaves the other as it is.
LEMMA ListTypes ==
  ASSUME ListsInv, NEW e \in Endpoint
  PROVE  /\ txSent[e] \in Seq(DataPkt) /\ txQueue[e] \in Seq(TxPkt)
         /\ OnlyFirstUnreliable(txQueue[e])
         /\ txFree[e] \in Nat /\ rxFree[e] \in Nat /\ rxRecv[e] \in Seq(Item) /\ MaxWindow[e] \in Nat
         /\ Len(rxRecv[e]) \in Nat /\ Queued(e) \in Nat
         /\ Waiting(txSent[e], txQueue[e]) \in Nat
         /\ ListsOK(e)
<1>1. /\ txSent[e] \in Seq(DataPkt) /\ txQueue[e] \in Seq(TxPkt)
      /\ OnlyFirstUnreliable(txQueue[e])
      /\ txFree[e] \in Nat /\ rxFree[e] \in Nat /\ rxRecv[e] \in Seq(Item) /\ ListsOK(e)
  BY DEF ListsInv, Inv, TypeOK, SendOK, RecvOK, UnreliableQueuedOnce
<1>2. MaxWindow[e] \in Nat
  BY MaxWindowType
<1>3. Queued(e) \in Nat
  BY NewPacketsType DEF ListsInv, Inv
<1> QED
  BY <1>1, <1>2, <1>3, WaitingType, LenProperties

\* A step that takes d packets out of those that wait, and frees no more than that.
LEMMA BehindKeeps ==
  ASSUME ListsInv, NEW e \in Endpoint, NEW d,
         Behind(txSent'[e], txQueue'[e], txSent[e], txQueue[e], d),
         txFree'[e] \in Nat, txFree'[e] <= txFree[e] + d,
         log'[e] = log[e], rxFree'[e] + Len(rxRecv'[e]) = MaxWindow[e]
  PROVE  ListsOK(e)'
<1>1. Ordered(txSent'[e], txQueue'[e], Queued(e))
  BY ListTypes, BehindOrdered DEF ListsOK
<1>2. txFree'[e] + Waiting(txSent'[e], txQueue'[e]) <= MaxWindow[e]
  <2>1. /\ d \in Nat
        /\ Waiting(txSent'[e], txQueue'[e]) = Waiting(txSent[e], txQueue[e]) - d
    BY DEF Behind
  <2>2. txFree[e] + Waiting(txSent[e], txQueue[e]) <= MaxWindow[e]
    BY ListTypes DEF ListsOK
  <2> QED
    BY <2>1, <2>2, ListTypes
<1>3. Queued(e)' = Queued(e)
  BY DEF Queued, Epoch
<1> QED
  BY <1>1, <1>2, <1>3 DEF ListsOK

LEMMA QuietLists ==
  ASSUME ListsInv, NEW e \in Endpoint,
         \/ StartSend(e) \/ SendGivesUp(e) \/ SendWaits(e) \/ AJ_SerialDisconnect(e)
         \/ RxDiscard(e) \/ Deliver(e) \/ Lose(e)
  PROVE  \A f \in Endpoint : ListsOK(f)'
<1>1. UNCHANGED <<sendVars, recvVars, log>>
  BY DEF StartSend, SendGivesUp, SendWaits, AJ_SerialDisconnect, Disconnect, DisconnectWaits,
     DisconnectEnds, RxDiscard, RxTake, Deliver, Lose, histVars
<1>2. \A f \in Endpoint : SameLists(f)
  BY <1>1 DEF SameLists, sendVars, recvVars
<1> QED
  BY <1>2, SameKeeps DEF ListsInv

\* Packets that have been read are free again.
LEMMA AJ_SerialRecvLists ==
  ASSUME ListsInv, NEW e \in Endpoint, AJ_SerialRecv(e)
  PROVE  \A f \in Endpoint : ListsOK(f)'
<1>1. PICK k \in 0..Len(rxRecv[e]) :
        /\ rxRecv' = [rxRecv EXCEPT ![e] = SubSeq(@, k + 1, Len(@))]
        /\ rxFree' = [rxFree EXCEPT ![e] = @ + k]
  BY DEF AJ_SerialRecv
<1>2. UNCHANGED <<sendVars, log>>
  BY DEF AJ_SerialRecv
<1>3. /\ rxRecv'[e] = SubSeq(rxRecv[e], k + 1, Len(rxRecv[e])) /\ rxFree'[e] = rxFree[e] + k
      /\ \A f \in Endpoint : f # e => SameLists(f)
  BY <1>1, <1>2 DEF SameLists, sendVars, ListsInv, Inv, TypeOK, RecvOK
<1>4. Len(rxRecv'[e]) = Len(rxRecv[e]) - k
  BY <1>3, ListTypes
<1>5. rxFree'[e] + Len(rxRecv'[e]) = MaxWindow[e]
  BY <1>3, <1>4, ListTypes DEF ListsOK
<1>6. ListsOK(e)'
  BY <1>2, <1>5, ListTypes DEF ListsOK, sendVars, Queued, Epoch
<1> QED
  BY <1>3, <1>6, SameKeeps DEF ListsInv

\* AJ_SerialSend puts as many packets as are free at the end of the queue.
LEMMA SendQueuesLists ==
  ASSUME ListsInv, NEW e \in Endpoint, SendQueues(e)
  PROVE  \A f \in Endpoint : ListsOK(f)'
<1> DEFINE k == Least(txFree[e], left[e])
           new == NewPackets(e, k)
<1>1. /\ txQueue' = [txQueue EXCEPT ![e] = @ \o new]
      /\ txFree' = [txFree EXCEPT ![e] = @ - k]
      /\ log' = [log EXCEPT ![e][Epoch(e)] = @ + k]
      /\ UNCHANGED <<txSent, rxRecv, rxFree>>
  BY DEF SendQueues, recvVars
<1>2. k \in Nat /\ k <= txFree[e] /\ txFree[e] \in Nat
  BY DEF ListsInv, Inv, TypeOK, SendOK, AppOK, Least
<1>3. new \in Seq(DataPkt) /\ Len(new) = k /\ Epoch(e) \in Nat \ {0} /\ Queued(e) \in Nat
  BY <1>2, NewPacketsType DEF ListsInv, Inv
<1>4. \A i \in 1..Len(new) : new[i].item.n = Queued(e) + i
  BY <1>2, <1>3 DEF NewPackets
<1>5. /\ txQueue'[e] = txQueue[e] \o new /\ txFree'[e] = txFree[e] - k
      /\ txSent'[e] = txSent[e] /\ rxRecv'[e] = rxRecv[e] /\ rxFree'[e] = rxFree[e]
      /\ log'[e] = [log[e] EXCEPT ![Epoch(e)] = @ + k]
      /\ \A f \in Endpoint : f # e => SameLists(f)
  BY <1>1 DEF SameLists, ListsInv, Inv, TypeOK, SendOK, RecvOK, HistOK
<1>6. Queued(e)' = Queued(e) + k
  <2>1. log[e] \in Seq(Nat) /\ Epoch(e) \in 1..Len(log[e])
    BY <1>3 DEF ListsInv, Inv, TypeOK, HistOK, Epoch
  <2>2. Queued(e) + k \in Nat
    BY <1>2, <1>3
  <2>3. log'[e] = [log[e] EXCEPT ![Epoch(e)] = Queued(e) + k]
    BY <1>5 DEF Queued
  <2>4. Len(log'[e]) = Len(log[e]) /\ log'[e][Epoch(e)] = Queued(e) + k
    BY <2>1, <2>2, <2>3, ExceptSeq
  <2> QED
    BY <2>4 DEF Queued, Epoch
<1> HIDE DEF k, new
<1>7. /\ Ordered(txSent[e], txQueue[e] \o new, Queued(e) + k)
      /\ Waiting(txSent[e], txQueue[e] \o new) = Waiting(txSent[e], txQueue[e]) + k
  <2>1. /\ txSent[e] \in Seq(DataPkt) /\ txQueue[e] \in Seq(TxPkt)
        /\ OnlyFirstUnreliable(txQueue[e]) /\ Ordered(txSent[e], txQueue[e], Queued(e))
    BY ListTypes DEF ListsOK
  <2>2. /\ Ordered(txSent[e], txQueue[e] \o new, Queued(e) + Len(new))
        /\ Waiting(txSent[e], txQueue[e] \o new) = Waiting(txSent[e], txQueue[e]) + Len(new)
    <3>1. Queued(e) \in Nat /\ new \in Seq(DataPkt)
      BY <1>3
    <3>2. \A i \in 1..Len(new) : new[i].item.n = Queued(e) + i
      BY <1>3, <1>4
    <3> QED
      BY <2>1, <3>1, <3>2, SendOrdered
  <2> QED
    BY <1>3, <2>2
<1>8. ListsOK(e)'
  <2>1. txFree[e] - k + (Waiting(txSent[e], txQueue[e]) + k) <= MaxWindow[e]
    BY <1>2, ListTypes DEF ListsOK
  <2> QED
    BY <1>5, <1>6, <1>7, <2>1, ListTypes DEF ListsOK
<1> QED
  BY <1>5, <1>8, SameKeeps DEF ListsInv

LEMMA ResendPacketsLists ==
  ASSUME ListsInv, NEW e \in Endpoint, ResendPackets(e)
  PROVE  \A f \in Endpoint : ListsOK(f)'
<1>1. UNCHANGED <<txFree, recvVars, log>>
  BY DEF ResendPackets, histVars
<1>2. CASE linkState[e] = "ACTIVE" /\ txSent[e] # <<>>
  <2>1. /\ txQueue'[e] = Requeue(txQueue[e], txSent[e]) /\ txSent'[e] = <<>>
        /\ \A f \in Endpoint : f # e => SameLists(f)
    BY <1>1, <1>2 DEF ResendPackets, SameLists, recvVars, ListsInv, Inv, TypeOK, SendOK
  <2>2. PICK d \in Nat : Behind(txSent'[e], txQueue'[e], txSent[e], txQueue[e], d)
    BY <1>2, <2>1, ListTypes, RequeueBehind
  <2>3. /\ txFree'[e] \in Nat /\ txFree'[e] <= txFree[e] + d /\ log'[e] = log[e]
        /\ rxFree'[e] + Len(rxRecv'[e]) = MaxWindow[e]
    BY <1>1, ListTypes DEF recvVars, ListsOK
  <2>4. ListsOK(e)'
    BY <2>2, <2>3, BehindKeeps
  <2> QED
    BY <2>1, <2>4, SameKeeps DEF ListsInv
<1>3. CASE ~(linkState[e] = "ACTIVE" /\ txSent[e] # <<>>)
  <2>1. \A f \in Endpoint : SameLists(f)
    BY <1>1, <1>3 DEF ResendPackets, SameLists, recvVars
  <2> QED
    BY <2>1, SameKeeps DEF ListsInv
<1> QED
  BY <1>2, <1>3

\* A step that queues at most an unreliable packet.
LEMMA QueueKeeps ==
  ASSUME ListsInv, NEW e \in Endpoint, NEW p \in TxPkt, IsUnreliable(p),
         txQueue'[e] \in {txQueue[e], QueueUnreliable(txQueue[e], p)},
         txSent'[e] = txSent[e], txFree'[e] = txFree[e], log'[e] = log[e],
         rxRecv'[e] = rxRecv[e], rxFree'[e] = rxFree[e]
  PROVE  ListsOK(e)'
<1>1. Behind(txSent'[e], txQueue'[e], txSent[e], txQueue[e], 0)
  BY ListTypes, BehindSelf, QueueUnreliableBehind
<1>2. /\ txFree'[e] \in Nat /\ txFree'[e] <= txFree[e] + 0
      /\ rxFree'[e] + Len(rxRecv'[e]) = MaxWindow[e]
  BY ListTypes DEF ListsOK
<1> QED
  BY <1>1, <1>2, BehindKeeps

LEMMA ControlPackets ==
  /\ Ack \in TxPkt /\ IsUnreliable(Ack)
  /\ \A e \in Endpoint, kind \in LinkPktType, size \in Nat \ {0} :
       Ctrl(e, kind, size) \in TxPkt /\ IsUnreliable(Ctrl(e, kind, size))
<1>1. Ack \in TxPkt /\ IsUnreliable(Ack)
  BY DEF Ack, TxPkt, AckPkt, IsUnreliable
<1>2. ASSUME NEW e \in Endpoint, NEW kind \in LinkPktType, NEW size \in Nat \ {0}
      PROVE  Ctrl(e, kind, size) \in TxPkt /\ IsUnreliable(Ctrl(e, kind, size))
  <2>1. Ctrl(e, kind, size) \in TxPkt
    BY CtrlType DEF TxPkt
  <2>2. Ctrl(e, kind, size).type = "CTRL"
    BY DEF Ctrl
  <2> QED
    BY <2>1, <2>2 DEF IsUnreliable
<1> QED
  BY <1>1, <1>2

LEMMA SendAckLists ==
  ASSUME ListsInv, NEW e \in Endpoint, SendAck(e)
  PROVE  \A f \in Endpoint : ListsOK(f)'
<1>1. /\ txQueue' = [txQueue EXCEPT ![e] = IF pendingAcks[e] > 0 THEN QueueUnreliable(@, Ack) ELSE @]
      /\ UNCHANGED <<txSent, txFree, rxRecv, rxFree, log>>
  BY DEF SendAck, recvVars, histVars
<1>2. /\ txQueue'[e] \in {txQueue[e], QueueUnreliable(txQueue[e], Ack)}
      /\ \A f \in Endpoint : f # e => SameLists(f)
  BY <1>1 DEF SameLists, ListsInv, Inv, TypeOK, SendOK
<1>3. ListsOK(e)'
  BY <1>1, <1>2, ControlPackets, QueueKeeps
<1> QED
  BY <1>2, <1>3, SameKeeps DEF ListsInv

LEMMA SendLinkPacketLists ==
  ASSUME ListsInv, NEW e \in Endpoint, SendLinkPacket(e)
  PROVE  \A f \in Endpoint : ListsOK(f)'
<1> DEFINE sends == linkState[e] \in DOMAIN TimedPacket
           p == Ctrl(e, TimedPacket[linkState[e]], packetSize[e])
<1>1. /\ txQueue' = [txQueue EXCEPT ![e] = IF sends THEN QueueUnreliable(@, p) ELSE @]
      /\ UNCHANGED <<txSent, txFree, rxRecv, rxFree, log>>
  BY DEF SendLinkPacket, recvVars, histVars
<1>2. sends => p \in TxPkt /\ IsUnreliable(p)
  <2>1. sends => TimedPacket[linkState[e]] \in LinkPktType
    BY DEF TimedPacket, LinkPktType, NegoPktType
  <2>2. packetSize[e] \in Nat \ {0}
    BY DEF ListsInv, Inv, TypeOK, LinkOK
  <2> QED
    BY <2>1, <2>2, ControlPackets
<1> HIDE DEF sends, p
<1>3. /\ txQueue'[e] = IF sends THEN QueueUnreliable(txQueue[e], p) ELSE txQueue[e]
      /\ \A f \in Endpoint : f # e => SameLists(f)
  BY <1>1 DEF SameLists, ListsInv, Inv, TypeOK, SendOK
<1>4. ListsOK(e)'
  <2>1. CASE sends
    BY <1>1, <1>2, <1>3, <2>1, QueueKeeps
  <2>2. CASE ~sends
    BY <1>1, <1>3, <2>2, ControlPackets, QueueKeeps
  <2> QED
    BY <2>1, <2>2
<1> QED
  BY <1>3, <1>4, SameKeeps DEF ListsInv

\* AJ_SerialInit allocates all packets anew.
LEMMA AJ_SerialInitLists ==
  ASSUME ListsInv, NEW e \in Endpoint, AJ_SerialInit(e)
  PROVE  \A f \in Endpoint : ListsOK(f)'
<1>1. /\ txQueue'[e] = <<>> /\ txSent'[e] = <<>> /\ txFree'[e] = MaxWindow[e]
      /\ rxRecv'[e] = <<>> /\ rxFree'[e] = MaxWindow[e]
      /\ \A f \in Endpoint : f # e => SameLists(f)
  BY DEF AJ_SerialInit, SameLists, ListsInv, Inv, TypeOK, SendOK, RecvOK, HistOK
<1>2. Waiting(<<>>, <<>>) = 0
  BY DEF Waiting, Off
<1>3. \A top : Ordered(<<>>, <<>>, top)
  BY <1>2 DEF Ordered
<1>4. ListsOK(e)'
  BY <1>1, <1>2, <1>3, ListTypes DEF ListsOK
<1> QED
  BY <1>1, <1>4, SameKeeps DEF ListsInv

\* The packets that AJ_FillTxBufferList puts on the list of those that wait for an ack are data.
LEMMA FillData ==
  ASSUME NEW q \in Seq(TxPkt), OnlyFirstUnreliable(q), NEW k \in Nat, k <= Len(q)
  PROVE  (IF k > 0 /\ IsUnreliable(Head(q)) THEN SubSeq(q, 2, k) ELSE SubSeq(q, 1, k)) \in Seq(DataPkt)
<1>0. Len(q) \in Nat
  BY LenProperties
<1>1. \A i \in 2..k : q[i] \in DataPkt
  <2>1. \A i \in 2..k : q[i] \in TxPkt /\ q[i].type = "DATA"
    BY <1>0, ElementOfSeq DEF OnlyFirstUnreliable
  <2> QED
    BY <2>1, ReliableIsData DEF IsUnreliable
<1>2. CASE k > 0 /\ IsUnreliable(Head(q))
  BY <1>0, <1>1, <1>2, SubSeqProperties
<1>3. CASE ~(k > 0 /\ IsUnreliable(Head(q)))
  <2>1. \A i \in 1..k : q[i] \in DataPkt
    <3>1. k > 0 => q[1] \in TxPkt /\ ~IsUnreliable(q[1])
      BY <1>0, <1>3, ElementOfSeq
    <3>2. k > 0 => q[1] \in DataPkt
      BY <3>1, ReliableIsData
    <3> QED
      BY <1>0, <1>1, <3>2
  <2> QED
    BY <1>0, <1>3, <2>1, SubSeqProperties
<1> QED
  BY <1>2, <1>3

LEMMA FillTxBuffersLists ==
  ASSUME ListsInv, NEW e \in Endpoint, FillTxBuffers(e)
  PROVE  \A f \in Endpoint : ListsOK(f)'
<1> DEFINE q == txQueue[e]
           k == IF dataSent[e] THEN Least(Len(q), TxBufs[e] - Len(txBuf[e])) ELSE 0
           data == IF k > 0 /\ IsUnreliable(Head(q)) THEN SubSeq(q, 2, k) ELSE SubSeq(q, 1, k)
           rest == SubSeq(q, k + 1, Len(q))
<1>1. /\ txQueue' = [txQueue EXCEPT ![e] = rest]
      /\ txSent' = [txSent EXCEPT ![e] = @ \o data]
      /\ UNCHANGED <<txFree, rxRecv, rxFree, log>>
  BY DEF FillTxBuffers, recvVars, histVars
<1>2. q \in Seq(TxPkt) /\ Len(q) \in Nat /\ OnlyFirstUnreliable(q) /\ txSent[e] \in Seq(DataPkt)
  BY LenProperties, ListTypes
<1>3. k \in Nat /\ k <= Len(q)
  BY <1>2, SlapAssumption, LenProperties DEF ListsInv, Inv, TypeOK, BufOK, Least
<1> HIDE DEF k, q
<1>4. data \in Seq(DataPkt)
  BY <1>2, <1>3, FillData
<1>5. Behind(txSent[e] \o data, rest, txSent[e], q, 0)
  BY <1>2, <1>3, <1>4, FillBehind
<1> HIDE DEF data, rest
<1>6. /\ txQueue'[e] = rest /\ txSent'[e] = txSent[e] \o data
      /\ \A f \in Endpoint : f # e => SameLists(f)
  BY <1>1 DEF SameLists, ListsInv, Inv, TypeOK, SendOK
<1>7. /\ txFree'[e] \in Nat /\ txFree'[e] <= txFree[e] + 0 /\ log'[e] = log[e]
      /\ rxFree'[e] + Len(rxRecv'[e]) = MaxWindow[e]
  BY <1>1, ListTypes DEF ListsOK
<1>8. Behind(txSent'[e], txQueue'[e], txSent[e], txQueue[e], 0)
  BY <1>5, <1>6 DEF q
<1>9. ListsOK(e)'
  BY <1>7, <1>8, BehindKeeps
<1> QED
  BY <1>6, <1>9, SameKeeps DEF ListsInv

-----------------------------------------------------------------------------
\* The receive side.
LEMMA RxControlLists ==
  ASSUME ListsInv, NEW e \in Endpoint, RxControl(e)
  PROVE  \A f \in Endpoint : ListsOK(f)'
<1> DEFINE reply == LinkReply(linkState[e], Head(rxBuf[e]).pkt.kind)
           p == Ctrl(e, reply, packetSize'[e])
<1>1. /\ txQueue' = [txQueue EXCEPT ![e] = IF reply = "none" THEN @ ELSE QueueUnreliable(@, p)]
      /\ UNCHANGED <<txSent, txFree, rxRecv, rxFree, log>>
  BY DEF RxControl, RxTake, AJ_Serial_LinkPacket, recvVars
<1>2. reply # "none" => p \in TxPkt /\ IsUnreliable(p)
  <2>1. reply # "none" => reply \in LinkPktType
    BY DEF LinkReply, LinkPktType, NegoPktType
  <2>2. packetSize'[e] \in Nat \ {0}
    BY RxControlInv DEF ListsInv, Inv, TypeOK, LinkOK
  <2> HIDE DEF reply
  <2> QED
    BY <2>1, <2>2, ControlPackets
<1> HIDE DEF reply, p
<1>3. /\ txQueue'[e] = IF reply = "none" THEN txQueue[e] ELSE QueueUnreliable(txQueue[e], p)
      /\ \A f \in Endpoint : f # e => SameLists(f)
  BY <1>1 DEF SameLists, ListsInv, Inv, TypeOK, SendOK
<1>4. ListsOK(e)'
  <2>1. CASE reply # "none"
    BY <1>1, <1>2, <1>3, <2>1, QueueKeeps
  <2>2. CASE reply = "none"
    BY <1>1, <1>3, <2>2, ControlPackets, QueueKeeps
  <2> QED
    BY <2>1, <2>2
<1> QED
  BY <1>3, <1>4, SameKeeps DEF ListsInv

\* CompletePacket takes a free packet for what it accepts, and queues at most an ACK.
LEMMA RxDataLists ==
  ASSUME ListsInv, NEW e \in Endpoint, NEW p \in DataPkt, rxFree[e] \in Nat \ {0}, RxData(e, p)
  PROVE  /\ txQueue'[e] \in {txQueue[e], QueueUnreliable(txQueue[e], Ack)}
         /\ rxFree'[e] + Len(rxRecv'[e]) = MaxWindow[e]
         /\ \A f \in Endpoint : f # e =>
              txQueue'[f] = txQueue[f] /\ rxRecv'[f] = rxRecv[f] /\ rxFree'[f] = rxFree[f]
<1>1. /\ txQueue'[e] \in {txQueue[e], QueueUnreliable(txQueue[e], Ack)}
      /\ \A f \in Endpoint : f # e => txQueue'[f] = txQueue[f]
  BY DEF RxData, AJ_SerialTx_ReceivedSeq, ListsInv, Inv, TypeOK, SendOK
<1>2. rxFree[e] + Len(rxRecv[e]) = MaxWindow[e] /\ rxRecv[e] \in Seq(Item) /\ p.item \in Item
  BY ListTypes DEF ListsOK, DataPkt
<1>3. CASE UNCHANGED recvVars
  BY <1>1, <1>2, <1>3 DEF recvVars
<1>4. CASE /\ rxRecv' = [rxRecv EXCEPT ![e] = Append(@, p.item)]
           /\ rxFree' = [rxFree EXCEPT ![e] = @ - 1]
  <2>1. /\ rxRecv'[e] = Append(rxRecv[e], p.item) /\ rxFree'[e] = rxFree[e] - 1
        /\ \A f \in Endpoint : f # e => rxRecv'[f] = rxRecv[f] /\ rxFree'[f] = rxFree[f]
    BY <1>4 DEF ListsInv, Inv, TypeOK, RecvOK
  <2>2. \A q \in Seq(Item), i \in Item : Len(Append(q, i)) = Len(q) + 1 /\ Len(q) \in Nat
    BY AppendProperties, LenProperties
  <2>3. Len(rxRecv'[e]) = Len(rxRecv[e]) + 1 /\ Len(rxRecv[e]) \in Nat
    BY <1>2, <2>1, <2>2
  <2>4. rxFree[e] \in Nat \ {0} /\ rxFree[e] + Len(rxRecv[e]) = MaxWindow[e]
    BY <1>2
  <2>5. rxFree'[e] = rxFree[e] - 1
    BY <2>1
  <2>6. rxFree'[e] + Len(rxRecv'[e]) = MaxWindow[e]
    BY <2>3, <2>4, <2>5
  <2> QED
    BY <1>1, <2>1, <2>6
<1> QED
  BY <1>3, <1>4 DEF RxData

LEMMA RxPacketLists ==
  ASSUME ListsInv, NEW e \in Endpoint, RxPacket(e)
  PROVE  \A f \in Endpoint : ListsOK(f)'
<1> DEFINE fr == Head(rxBuf[e])
<1>1. /\ RxTake(e) /\ AJ_SerialTx_ReceivedAck(e, fr.ack)
      /\ IF fr.pkt.type = "DATA" THEN RxData(e, fr.pkt)
         ELSE UNCHANGED <<txQueue, ackVars, recvVars, accepted>>
  BY DEF RxPacket
<1>2. fr \in Frame /\ log' = log /\ rxFree[e] \in Nat \ {0}
  BY <1>1, RxTakeType DEF ListsInv
<1> HIDE DEF fr
<1>3. PICK k \in 0..Len(txSent[e]) :
        /\ txSent' = [txSent EXCEPT ![e] = SubSeq(@, k + 1, Len(@))]
        /\ txFree' = [txFree EXCEPT ![e] = @ + k]
  BY <1>1 DEF AJ_SerialTx_ReceivedAck
<1>4. /\ txSent'[e] = SubSeq(txSent[e], k + 1, Len(txSent[e])) /\ txFree'[e] = txFree[e] + k
      /\ \A f \in Endpoint : f # e => txSent'[f] = txSent[f] /\ txFree'[f] = txFree[f]
  BY <1>3 DEF ListsInv, Inv, TypeOK, SendOK
<1>5. /\ txQueue'[e] \in {txQueue[e], QueueUnreliable(txQueue[e], Ack)}
      /\ rxFree'[e] + Len(rxRecv'[e]) = MaxWindow[e]
      /\ \A f \in Endpoint : f # e =>
           txQueue'[f] = txQueue[f] /\ rxRecv'[f] = rxRecv[f] /\ rxFree'[f] = rxFree[f]
  <2>1. CASE fr.pkt.type = "DATA"
    <3>1. fr.pkt \in DataPkt
      BY <1>2, <2>1 DEF Frame, TxPkt, CtrlPkt, NegoPkt, AckPkt
    <3> QED
      BY <1>1, <1>2, <2>1, <3>1, RxDataLists
  <2>2. CASE fr.pkt.type # "DATA"
    BY <1>1, <2>2, ListTypes DEF recvVars, ListsOK
  <2> QED
    BY <2>1, <2>2
<1>6. Behind(txSent'[e], txQueue[e], txSent[e], txQueue[e], k)
  BY <1>4, ListTypes, DropBehind
<1>7. txSent'[e] \in Seq(DataPkt)
  BY RxPacketInv DEF ListsInv, Inv, TypeOK, SendOK
<1>8. Behind(txSent'[e], txQueue'[e], txSent'[e], txQueue[e], 0)
  BY <1>5, <1>7, ListTypes, ControlPackets, BehindSelf, QueueUnreliableBehind
<1>9. Behind(txSent'[e], txQueue'[e], txSent[e], txQueue[e], k)
  BY <1>6, <1>7, <1>8, ListTypes, WaitingType, BehindBoth
<1>10. ListsOK(e)'
  <2>1. txFree'[e] \in Nat /\ txFree'[e] <= txFree[e] + k
    BY <1>4, ListTypes
  <2>2. log'[e] = log[e]
    BY <1>2
  <2> QED
    BY <1>5, <1>9, <2>1, <2>2, BehindKeeps
<1>11. \A f \in Endpoint : f # e => SameLists(f)
  BY <1>2, <1>4, <1>5 DEF SameLists
<1> QED
  BY <1>10, <1>11, SameKeeps DEF ListsInv

-----------------------------------------------------------------------------
LEMMA ListsInitInv == Init \/ InitUp => ListsInv
<1> SUFFICES ASSUME Init \/ InitUp PROVE ListsInv
  OBVIOUS
<1>1. Inv
  BY InitInv, InitUpInv
<1>2. Waiting(<<>>, <<>>) = 0
  BY DEF Waiting, Off
<1>3. \A top : Ordered(<<>>, <<>>, top)
  BY <1>2 DEF Ordered
<1>4. ASSUME NEW e \in Endpoint PROVE ListsOK(e)
  <2>1. /\ txSent[e] = <<>> /\ txQueue[e] = <<>> /\ rxRecv[e] = <<>>
        /\ txFree[e] = MaxWindow[e] /\ rxFree[e] = MaxWindow[e]
    BY DEF Init, InitUp
  <2>2. MaxWindow[e] \in Nat
    BY MaxWindowType
  <2> QED
    BY <1>2, <1>3, <2>1, <2>2 DEF ListsOK
<1> QED
  BY <1>1, <1>4 DEF ListsInv

LEMMA ListsNextInv == ListsInv /\ [Next]_vars => ListsInv'
<1> SUFFICES ASSUME ListsInv, [Next]_vars PROVE ListsInv'
  OBVIOUS
<1>1. Inv'
  BY NextInv DEF ListsInv
<1>2. CASE UNCHANGED vars
  <2>1. \A f \in Endpoint : SameLists(f)
    BY <1>2 DEF vars, sendVars, recvVars, histVars, SameLists
  <2> QED
    BY <1>1, <2>1, SameKeeps DEF ListsInv
<1>3. CASE Next
  <2>1. PICK e \in Endpoint :
          \/ StartSend(e) \/ AJ_SerialSend(e) \/ AJ_SerialRecv(e) \/ AJ_SerialDisconnect(e)
          \/ RxControl(e) \/ RxDiscard(e) \/ RxPacket(e)
          \/ FillTxBuffers(e) \/ ResendPackets(e) \/ SendAck(e) \/ SendLinkPacket(e)
          \/ Deliver(e) \/ Lose(e)
          \/ AJ_SerialInit(e)
    BY <1>3 DEF Next
  <2>2. CASE StartSend(e) \/ AJ_SerialSend(e) \/ AJ_SerialRecv(e) \/ AJ_SerialDisconnect(e)
    BY <1>1, <2>2, QuietLists, SendQueuesLists, AJ_SerialRecvLists DEF AJ_SerialSend, ListsInv
  <2>3. CASE RxControl(e) \/ RxDiscard(e) \/ RxPacket(e)
    BY <1>1, <2>3, RxControlLists, QuietLists, RxPacketLists DEF ListsInv
  <2>4. CASE FillTxBuffers(e) \/ ResendPackets(e) \/ SendAck(e) \/ SendLinkPacket(e)
    BY <1>1, <2>4, FillTxBuffersLists, ResendPacketsLists, SendAckLists, SendLinkPacketLists DEF ListsInv
  <2>5. CASE Deliver(e) \/ Lose(e) \/ AJ_SerialInit(e)
    BY <1>1, <2>5, QuietLists, AJ_SerialInitLists DEF ListsInv
  <2> QED
    BY <2>1, <2>2, <2>3, <2>4, <2>5
<1> QED
  BY <1>2, <1>3

\* In order, the data that waits is on one list only.
LEMMA ListsConserve == ListsInv => PacketsConserved
<1> SUFFICES ASSUME ListsInv, NEW e \in Endpoint
             PROVE  /\ \A i \in QueuedData(e) : \A j \in 1..Len(txSent[e]) :
                         txSent[e][j].item.n < txQueue[e][i].item.n
                    /\ txFree[e] + Len(txSent[e]) <= MaxWindow[e]
                    /\ rxFree[e] + Len(rxRecv[e]) = MaxWindow[e]
  BY DEF PacketsConserved
<1>1. /\ txSent[e] \in Seq(DataPkt) /\ txQueue[e] \in Seq(TxPkt)
      /\ OnlyFirstUnreliable(txQueue[e]) /\ ListsOK(e)
      /\ txFree[e] \in Nat /\ MaxWindow[e] \in Nat
  BY ListTypes
<1>2. /\ Len(txSent[e]) \in Nat /\ Waiting(txSent[e], txQueue[e]) \in Nat
      /\ Waiting(txSent[e], txQueue[e]) >= Len(txSent[e])
  BY <1>1, WaitingType
<1>3. txFree[e] + Len(txSent[e]) <= MaxWindow[e] /\ rxFree[e] + Len(rxRecv[e]) = MaxWindow[e]
  BY <1>1, <1>2 DEF ListsOK
<1>4. ASSUME NEW i \in QueuedData(e), NEW j \in 1..Len(txSent[e])
      PROVE  txSent[e][j].item.n < txQueue[e][i].item.n
  <2>1. i \in 1..Len(txQueue[e]) /\ i > Off(txQueue[e])
    BY <1>1, QueueFacts DEF QueuedData
  <2>2. Len(txQueue[e]) \in Nat /\ Off(txQueue[e]) \in 0..1
    BY <1>1, QueueFacts
  <2>3. PICK m \in 1..Waiting(txSent[e], txQueue[e]) : m = Len(txSent[e]) + i - Off(txQueue[e])
    <3>1. Len(txSent[e]) + i - Off(txQueue[e]) \in 1..Waiting(txSent[e], txQueue[e])
      <4>1. Waiting(txSent[e], txQueue[e]) = Len(txSent[e]) + Len(txQueue[e]) - Off(txQueue[e])
        BY DEF Waiting
      <4>2. \A n, m \in Nat, o \in 0..1 : \A x \in 1..m : x > o => n + x - o \in 1..(n + m - o)
        OBVIOUS
      <4> QED
        BY <1>2, <2>1, <2>2, <4>1, <4>2
    <3> QED
      BY <3>1
  <2>4. ~(m <= Len(txSent[e])) /\ m - Len(txSent[e]) + Off(txQueue[e]) = i /\ j \in 1..(m - 1)
    BY <1>2, <2>1, <2>2, <2>3
  <2>5. At(txSent[e], txQueue[e], m) = txQueue[e][i].item.n
    BY <2>4 DEF At
  <2>6. At(txSent[e], txQueue[e], j) = txSent[e][j].item.n
    BY DEF At
  <2>7. At(txSent[e], txQueue[e], j) < At(txSent[e], txQueue[e], m)
    BY <1>1, <2>4 DEF ListsOK, Ordered
  <2> QED
    BY <2>5, <2>6, <2>7
<1> QED
  BY <1>3, <1>4

\* Whatever is queued, sent, resent, acknowledged and started over: packets that wait to be sent
\* again come before those that have not been sent, and the lists hold no more packets than were
\* allocated, the receive lists exactly as many.
THEOREM PacketsAlwaysConserved == Spec => []PacketsConserved
BY ListsInitInv, ListsNextInv, ListsConserve, PTL DEF Spec

\* The same for the behaviours that start with the link up.
THEOREM PacketsAlwaysConservedUp == SpecUp => []PacketsConserved
BY ListsInitInv, ListsNextInv, ListsConserve, PTL DEF SpecUp
=============================================================================
