------------------------------ MODULE SlapLink ------------------------------
(***************************************************************************)
(* Link control of SLAP, src/aj_serial.c: establishing the link with CONN, *)
(* ACPT, NEGO and NRSP packets, and taking it down with DISC and DRSP.     *)
(* Both ends run SLAP_VERSION 1, so the protocol version never inhibits    *)
(* the disconnect packets.                                                 *)
(***************************************************************************)
EXTENDS SlapTx

LinkState == {"UNINITIALIZED", "INITIALIZED", "ACTIVE", "DYING", "DEAD"}

\* A link control packet; SendNegotiationPacket fills in the last two fields.
Ctrl(e, kind, size) ==
  IF kind \in NegoPktType
  THEN [type |-> "CTRL", kind |-> kind, win |-> EncodeWindow(MaxWindow[e]), size |-> size]
  ELSE [type |-> "CTRL", kind |-> kind, win |-> 0, size |-> 0]

\* Mutant: the offer of the remote end is enough to become ACTIVE.
NextLinkState_Hasty(state, kind) ==
  CASE state = "UNINITIALIZED" /\ kind = "ACPT" -> "INITIALIZED"
    [] state = "INITIALIZED"   /\ kind \in {"NEGO", "NRSP"} -> "ACTIVE"
    [] OTHER -> state

\* The state AJ_Serial_LinkPacket moves to on a packet of a kind, and what it answers.
NextLinkState(state, kind) ==
  CASE state = "UNINITIALIZED" /\ kind = "ACPT" -> "INITIALIZED"
    [] state = "INITIALIZED"   /\ kind = "NRSP" -> "ACTIVE"
    [] state = "ACTIVE"        /\ kind = "CONN" -> "DEAD"
    [] state = "ACTIVE"        /\ kind = "DISC" -> "DYING"
    [] state = "DYING"         /\ kind \in {"DISC", "DRSP"} -> "DEAD"
    [] OTHER -> state

LinkReply(state, kind) ==
  CASE state \in {"UNINITIALIZED", "INITIALIZED"} /\ kind = "CONN" -> "ACPT"
    [] state = "UNINITIALIZED"             /\ kind = "ACPT" -> "NEGO"
    [] state \in {"INITIALIZED", "ACTIVE"} /\ kind = "NEGO" -> "NRSP"
    [] state \in {"ACTIVE", "DYING"}       /\ kind = "DISC" -> "DRSP"
    [] OTHER -> "none"

\* Mutant: a CONN on an active link is answered as one of the handshake, and the link stays
\* up.
AJ_Serial_LinkPacket_Resumes(e, p) ==
  LET state == linkState[e]
      nego  == p.kind = "NEGO" /\ state \in {"INITIALIZED", "ACTIVE"}
      again == state = "ACTIVE" /\ p.kind = "CONN"
      reply == IF again THEN "ACPT" ELSE LinkReply(state, p.kind)
  IN
  /\ linkState' = [linkState EXCEPT ![e] = IF again THEN @ ELSE NextLinkState(state, p.kind)]
  /\ packetSize' = [packetSize EXCEPT ![e] = IF nego THEN Least(@, p.size) ELSE @]
  /\ windowSize' = [windowSize EXCEPT ![e] =
                      IF nego THEN Least(MaxWindow[e], DecodeWindow(p.win)) ELSE @]
  /\ txQueue' = [txQueue EXCEPT ![e] =
                   IF reply = "none" THEN @
                   ELSE QueueUnreliable(@, Ctrl(e, reply, packetSize'[e]))]

\* AJ_Serial_LinkPacket with ProcessNegoPacket, which takes the smaller of the remote
\* values and its own.  Only a NEGO is processed: the values of a NRSP are not read.
AJ_Serial_LinkPacket(e, p) ==
  LET state == linkState[e]
      nego  == p.kind = "NEGO" /\ state \in {"INITIALIZED", "ACTIVE"}
      reply == LinkReply(state, p.kind)
  IN
  /\ linkState' = [linkState EXCEPT ![e] = NextLinkState(state, p.kind)]
  /\ packetSize' = [packetSize EXCEPT ![e] = IF nego THEN Least(@, p.size) ELSE @]
  /\ windowSize' = [windowSize EXCEPT ![e] =
                      IF nego THEN Least(MaxWindow[e], DecodeWindow(p.win)) ELSE @]
  /\ txQueue' = [txQueue EXCEPT ![e] =
                   IF reply = "none" THEN @
                   ELSE QueueUnreliable(@, Ctrl(e, reply, packetSize'[e]))]

\* Mutant: a lost NEGO is not sent again.
TimedPacket_NoNego == [UNINITIALIZED |-> "CONN", DYING |-> "DISC"]

\* What SendLinkPacket sends in a state, each time its timer runs out.
TimedPacket == [UNINITIALIZED |-> "CONN", INITIALIZED |-> "NEGO", DYING |-> "DISC"]

\* SendLinkPacket, when sendLinkPacketTime has passed.  In the other states it sets the
\* timer to AJ_TIMER_FOREVER.
SendLinkPacket(e) ==
  LET sends == linkState[e] \in DOMAIN TimedPacket IN
  /\ pc[e] \in {"resend", "ack", "link"} /\ linkTimer[e]
  /\ pc' = [pc EXCEPT ![e] = "app"]
  /\ txQueue' = [txQueue EXCEPT ![e] =
                   IF sends
                   THEN QueueUnreliable(@, Ctrl(e, TimedPacket[linkState[e]], packetSize[e]))
                   ELSE @]
  /\ linkTimer' = [linkTimer EXCEPT ![e] = sends]
  /\ UNCHANGED <<call, left, linkState, windowSize, packetSize, txSent, txFree, resendTimer,
                 resendPrimed, txSeqNum, ackVars, recvVars, bufVars, histVars>>

\* AJ_SerialDisconnect: the link is DYING and the state machine runs until it is DEAD,
\* which it is declared to be after four DISC_TIMEOUTs.
Disconnect(e) ==
  /\ pc[e] # "rx" /\ call[e] = "none" /\ e \in MayDisconnect
  /\ linkState[e] # "DEAD"
  /\ linkState' = [linkState EXCEPT ![e] = "DYING"]
  /\ linkTimer' = [linkTimer EXCEPT ![e] = TRUE]
  /\ call' = [call EXCEPT ![e] = "disconnect"]
  /\ pc' = [pc EXCEPT ![e] = "rx"]
  /\ UNCHANGED <<left, windowSize, packetSize, sendVars, txSeqNum, ackVars, recvVars,
                 bufVars, histVars>>

DisconnectWaits(e) ==
  /\ pc[e] # "rx" /\ call[e] = "disconnect" /\ linkState[e] # "DEAD"
  /\ pc' = [pc EXCEPT ![e] = "rx"]
  /\ UNCHANGED <<call, left, linkVars, sendVars, txSeqNum, ackVars, recvVars, bufVars,
                 histVars>>

DisconnectEnds(e) ==
  /\ pc[e] # "rx" /\ call[e] = "disconnect"
  /\ linkState' = [linkState EXCEPT ![e] = "DEAD"]
  /\ call' = [call EXCEPT ![e] = "none"]
  /\ UNCHANGED <<pc, left, windowSize, packetSize, linkTimer, sendVars, txSeqNum, ackVars,
                 recvVars, bufVars, histVars>>

AJ_SerialDisconnect(e) == Disconnect(e) \/ DisconnectWaits(e) \/ DisconnectEnds(e)

\* AJ_SerialInit with AJ_SerialTX_Init and AJ_SerialRX_Init, after AJ_SerialShutdown
\* (AJ_Disconnect, then AJ_Connect) or a reset of the device: every list and number
\* starts again, and what was in the buffers of this end is gone.  Only a reset sets dataSent,
\* by its initializer; AJ_SerialInit does not.
AJ_SerialInit(e) ==
  /\ Epoch(e) < MaxEpoch[e]
  /\ linkState'  = [linkState EXCEPT ![e] = "UNINITIALIZED"]
  /\ windowSize' = [windowSize EXCEPT ![e] = MaxWindow[e]]
  /\ packetSize' = [packetSize EXCEPT ![e] = MaxPacket[e]]
  /\ linkTimer'  = [linkTimer EXCEPT ![e] = TRUE]
  /\ txQueue'    = [txQueue EXCEPT ![e] = <<>>]
  /\ txSent'     = [txSent EXCEPT ![e] = <<>>]
  /\ txFree'     = [txFree EXCEPT ![e] = MaxWindow[e]]
  /\ txSeqNum'   = [txSeqNum EXCEPT ![e] = 0]
  /\ resendTimer'  = [resendTimer EXCEPT ![e] = FALSE]
  /\ resendPrimed' = [resendPrimed EXCEPT ![e] = FALSE]
  /\ pendingAcks'  = [pendingAcks EXCEPT ![e] = 0]
  /\ currentTxAck' = [currentTxAck EXCEPT ![e] = 0]
  /\ ackTimer'    = [ackTimer EXCEPT ![e] = FALSE]
  /\ rxRecv'      = [rxRecv EXCEPT ![e] = <<>>]
  /\ rxFree'      = [rxFree EXCEPT ![e] = MaxWindow[e]]
  /\ expectedSeq' = [expectedSeq EXCEPT ![e] = 0]
  /\ txBuf' = [txBuf EXCEPT ![e] = <<>>]
  /\ rxBuf' = [rxBuf EXCEPT ![e] = <<>>]
  /\ \E sent \in {dataSent[e], TRUE} : dataSent' = [dataSent EXCEPT ![e] = sent]
  /\ pc'    = [pc EXCEPT ![e] = "app"]
  /\ call'  = [call EXCEPT ![e] = "none"]
  /\ left'  = [left EXCEPT ![e] = 0]
  /\ log'   = [log EXCEPT ![e] = Append(@, 0)]
  /\ accepted'  = [accepted EXCEPT ![e] = 0]
  /\ delivered' = [delivered EXCEPT ![e] = <<>>]
=============================================================================
