----------------------------- MODULE SlapState -----------------------------
(***************************************************************************)
(* State of the SLAP serial transport at the two ends of one UART line:    *)
(* the static variables of src/aj_serial.c, src/aj_serial_tx.c and         *)
(* src/aj_serial_rx.c, one copy per endpoint, and the packets they hold.   *)
(* SlapTx, SlapLink, SlapRx and Slap add the functions of those files.     *)
(***************************************************************************)
EXTENDS Integers, Sequences

CONSTANTS
  Endpoint,     \* the two ends of the line
  Peer,         \* Peer[e]: the other end
  MaxWindow,    \* MaxWindow[e]: the windowSize argument of AJ_SerialInit
  MaxPacket,    \* MaxPacket[e]: its packetSize argument (only the order matters)
  TxBufs,       \* TxBufs[e]: transmit buffers; AJ_SerialTX_Init allocates MaxWindow[e]
  RxBufs,       \* RxBufs[e]: receive buffers; AJ_SerialRX_Init allocates MaxWindow[e] + 1
  Done,         \* Done[e]: packets exchanged before a run that starts with the link up
  Budget,       \* Budget[e]: packets the application sends in one incarnation
  MsgLen,       \* MsgLen[e]: packets one AJ_SerialSend call needs
  MaxEpoch,     \* MaxEpoch[e]: incarnations, AJ_SerialInit calls, of an endpoint
  MayDisconnect \* the endpoints whose application may call AJ_SerialDisconnect

MIN_WINDOW_SIZE == 1
MAX_WINDOW_SIZE == 4

\* Windows are 1..4 (AJ_SerialInit returns AJ_ERR_INVALID for others) and packets are
\* not empty (AJ_SerialTX_Init returns AJ_ERR_DRIVER).
ASSUME SlapAssumption ==
  /\ Peer \in [Endpoint -> Endpoint]
  /\ \A e \in Endpoint : Peer[e] # e /\ Peer[Peer[e]] = e
  /\ MaxWindow \in [Endpoint -> MIN_WINDOW_SIZE..MAX_WINDOW_SIZE]
  /\ MaxPacket \in [Endpoint -> Nat \ {0}]
  /\ TxBufs \in [Endpoint -> Nat \ {0}]
  /\ RxBufs \in [Endpoint -> Nat \ {0}]
  /\ Done \in [Endpoint -> Nat]
  /\ Budget \in [Endpoint -> Nat]
  /\ MsgLen \in [Endpoint -> Nat \ {0}]
  /\ MaxEpoch \in [Endpoint -> Nat \ {0}]
  /\ MayDisconnect \subseteq Endpoint

VARIABLES
  \* aj_serial.c: AJ_SerialLinkParams, and whether sendLinkPacketTime is set
  linkState, windowSize, packetSize, linkTimer,
  \* aj_serial_tx.c: packet lists, sequence number, timers
  txQueue, txSent, txFree, txSeqNum, resendTimer, resendPrimed,
  pendingAcks, currentTxAck, ackTimer,
  \* aj_serial_rx.c: packets for the application, free packets, next number
  rxRecv, rxFree, expectedSeq,
  \* slipped buffers: pendingSendBuffer with bufferTxPending, and bufferRxQueue; whether
  \* AJ_StateMachine believes that a transmit buffer is free
  txBuf, rxBuf, dataSent,
  \* control: the step of AJ_StateMachine, the blocking call of the application and
  \* the packets it has still to queue
  pc, call, left,
  \* history, read by the properties only: packets queued per incarnation, how many of
  \* the current one the peer has accepted, and the packets AJ_SerialRecv has returned
  log, accepted, delivered

linkVars == <<linkState, windowSize, packetSize, linkTimer>>
sendVars == <<txQueue, txSent, txFree, resendTimer, resendPrimed>>
ackVars  == <<pendingAcks, currentTxAck, ackTimer>>
recvVars == <<rxRecv, rxFree, expectedSeq>>
bufVars  == <<txBuf, rxBuf, dataSent>>
appVars  == <<pc, call, left>>
histVars == <<log, accepted, delivered>>
vars == <<linkVars, sendVars, txSeqNum, ackVars, recvVars, bufVars, appVars, histVars>>

Epoch(e)  == Len(log[e])
Queued(e) == log[e][Epoch(e)]

(***************************************************************************)
(* Packets.  A DATA packet stands for its payload by the incarnation and   *)
(* position in which the application queued it (history: no code reads     *)
(* them).  Control packets carry what SendNegotiationPacket writes in them.*)
(***************************************************************************)
NegoPktType == {"NEGO", "NRSP"}
LinkPktType == {"CONN", "ACPT", "DISC", "DRSP"} \cup NegoPktType

Item == [ep : Nat \ {0}, n : Nat \ {0}]
DataPkt == [type : {"DATA"}, seq : 0..7, len : Nat \ {0}, item : Item]
NegoPkt == [type : {"CTRL"}, kind : NegoPktType, win : 0..3, size : Nat \ {0}]
CtrlPkt == NegoPkt \cup [type : {"CTRL"}, kind : LinkPktType \ NegoPktType, win : {0}, size : {0}]
AckPkt  == [type : {"ACK"}]
TxPkt   == DataPkt \cup CtrlPkt \cup AckPkt
Ack     == [type |-> "ACK"]

\* What ConvertPacketToBytes puts on the line: the packet and the ack of its header.
Frame == [pkt : TxPkt, ack : 0..7]

IsUnreliable(p) == p.type # "DATA"

\* Mutants: the half of the circle that is ahead is taken one too low, or too wide.
SEQ_GT_OffByOne(e, s1, s2) == (8 + s1 - s2) % 8 < windowSize[e]
SEQ_GT_Wide(e, s1, s2) == (7 + s1 - s2) % 8 < 7

(***************************************************************************)
(* Sequence numbers are three bits wide; SEQ_GT(s1, s2) of aj_serial.h     *)
(* holds when s1 is one to windowSize ahead of s2.                         *)
(***************************************************************************)
SEQ_GT(e, s1, s2) == (7 + s1 - s2) % 8 < windowSize[e]
SeqInc(s) == (s + 1) % 8

\* The two bits of the window size in a NEGO or NRSP packet: SendNegotiationPacket
\* encodes 1, 2 and 4 and leaves 0 for any other size.
EncodeWindow(w) == CASE w = 2 -> 1 [] w = 4 -> 2 [] w = 8 -> 3 [] OTHER -> 0
\* Mutant: the code is taken as the size.
DecodeWindow_Raw(c) == c

\* ProcessNegoPacket decodes 0, 1 and 2 and keeps the other code as it is.
DecodeWindow(c) == CASE c = 0 -> 1 [] c = 1 -> 2 [] c = 2 -> 4 [] OTHER -> c

Least(i, j) == IF i < j THEN i ELSE j
=============================================================================
