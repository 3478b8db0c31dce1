------------------------------ MODULE SlipLine ------------------------------
(***************************************************************************)
(* One direction of the line between two ends: the transmit buffers of     *)
(* src/aj_serial_tx.c at the one, a UART that damages what it carries, and *)
(* the receive buffers and packets of src/aj_serial_rx.c at the other.     *)
(*                                                                         *)
(* The threads of the two ends run AJ_FillTxBufferList and                 *)
(* AJ_ProcessRxBufferList; the callbacks of the UARTs run between their    *)
(* steps wherever AJ_PauseTX and AJ_PauseRX do not keep them off.          *)
(***************************************************************************)
EXTENDS Slip, FiniteSets

CONSTANTS
  Payload,       \* the payloads of the stream, in order
  Scripts,       \* sequences of packets the link layer sends: k is DATA packet k of the
                 \* stream, 0 an ACK
  TxBuffers, RxBuffers,   \* how many buffers each end has
  Pieces,        \* the most bytes a receive callback may bring, one of these
  Noise,         \* the bytes that damage can put in place of, or beside, a byte sent
  MaxFaults,     \* bytes damaged in a behaviour
  Reads          \* how many bytes the application asks for

ASSUME SlipAssumption ==
  /\ RxPackets \in Nat \ {0}
  /\ PacketSize \in Nat \ {0} /\ SLIPPED_LEN < 65536   \* allocatedLen has 16 bits
  /\ TxBuffers \in Nat \ {0} /\ RxBuffers \in Nat \ {0}
  /\ Payload \in Seq(Seq(Byte)) /\ \A k \in DOMAIN Payload : Len(Payload[k]) \in 1..PacketSize
  /\ \A s \in Scripts : s \in Seq({0} \cup DOMAIN Payload)
  /\ Pieces \subseteq 1..SLIPPED_LEN /\ Noise \subseteq Byte
  /\ MaxFaults \in Nat /\ Reads \subseteq Nat

VARIABLES
  script,         \* what the link layer is going to send
  txQueue,        \* packets to be converted
  txFreeBuffers,  \* bufferTxFreeList, its length
  pending,        \* pendingSendBuffer followed by bufferTxPending
  txHeld,         \* the buffer AJ_FillTxBufferList works on: its contents, or none
  txPaused, dataSent,
  line,           \* bytes sent and not yet received
  clean,          \* clean[k]: whether frame k went undamaged
  faults,         \* damaged bytes
  piece,          \* most bytes of a receive callback
  rxFreeBuffers,  \* bufferRxFreeList, its length
  reading,        \* whether there is a pendingRecvBuffer
  rxQueue,        \* bufferRxQueue, its contents
  rxHeld,         \* the buffer AJ_ProcessRxBufferList works on
  rxPaused, dataReceived,
  rx,             \* packets and decoder, see Slip
  read            \* what the application has read

txVars == <<script, txQueue, txFreeBuffers, pending, txHeld, txPaused, dataSent>>
lineVars == <<line, clean, faults>>
rxVars == <<rxFreeBuffers, reading, rxQueue, rxHeld, rxPaused, dataReceived, rx, read>>
vars == <<txVars, lineVars, piece, rxVars>>

None == <<>>

Init ==
  /\ script \in Scripts /\ txQueue = <<>>
  /\ txFreeBuffers = TxBuffers /\ pending = <<>> /\ txHeld = None
  /\ txPaused = FALSE /\ dataSent = TRUE
  /\ line = <<>> /\ clean = <<>> /\ faults = 0
  /\ piece \in Pieces
  /\ rxFreeBuffers = RxBuffers - 1 /\ reading = TRUE
  /\ rxQueue = <<>> /\ rxHeld = None
  /\ rxPaused = FALSE /\ dataReceived = FALSE
  /\ rx = FreshReceiver /\ read = <<>>

-----------------------------------------------------------------------------
\* The link layer queues its next packet.
Queue ==
  /\ script # <<>> /\ ~txPaused /\ txHeld = None
  /\ txQueue' = Append(txQueue, Head(script))
  /\ script' = Tail(script)
  /\ UNCHANGED <<txFreeBuffers, pending, txHeld, txPaused, dataSent, lineVars, piece, rxVars>>

Encoded(k) ==
  IF k = 0 THEN ConvertPacketToBytes(AckType, 0, 1, <<>>)
  ELSE ConvertPacketToBytes(DataType, (k - 1) % 8, 0, Payload[k])

\* AJ_FillTxBufferList takes a buffer and a packet, at its beginning or going round its
\* loop, and lets the callbacks go on if there is a buffer being sent.
FillTake ==
  /\ txHeld = None /\ (txPaused \/ dataSent)
  /\ txQueue # <<>> /\ txFreeBuffers > 0
  /\ txHeld' = Encoded(Head(txQueue))
  /\ txQueue' = Tail(txQueue)
  /\ txFreeBuffers' = txFreeBuffers - 1
  /\ txPaused' = (pending = <<>>)
  /\ UNCHANGED <<script, pending, dataSent, lineVars, piece, rxVars>>

\* The buffer is sent (AJ_TX), or put behind those that wait.
FillPut ==
  /\ txHeld # None
  /\ pending' = Append(pending, txHeld)
  /\ txHeld' = None
  /\ txPaused' = TRUE
  /\ UNCHANGED <<script, txQueue, txFreeBuffers, dataSent, lineVars, piece, rxVars>>

FillEnd ==
  /\ txPaused /\ txHeld = None
  /\ txQueue = <<>> \/ txFreeBuffers = 0
  /\ dataSent' = (dataSent /\ txFreeBuffers > 0)
  /\ txPaused' = FALSE
  /\ UNCHANGED <<script, txQueue, txFreeBuffers, pending, txHeld, lineVars, piece, rxVars>>

\* What can become of a frame: it arrives; a byte is lost, changed, or one comes in.
Damaged(frame) ==
  {RemoveAt(frame, i) : i \in DOMAIN frame}
    \cup {[frame EXCEPT ![i] = b] : i \in DOMAIN frame, b \in Noise}
    \cup {InsertAt(frame, i, b) : i \in DOMAIN frame, b \in Noise}

Tagged(bytes, k) == [i \in DOMAIN bytes |-> [byte |-> bytes[i], frame |-> k]]

\* The oldest pending buffer has been sent: AJ_TransmitCallback returns it and sends the next.
TransmitCallback ==
  /\ pending # <<>> /\ ~txPaused
  /\ \/ /\ line' = line \o Tagged(Head(pending), Len(clean) + 1)
        /\ clean' = Append(clean, TRUE)
        /\ UNCHANGED faults
     \/ /\ faults < MaxFaults
        /\ \E bytes \in Damaged(Head(pending)) \ {Head(pending)} :
             line' = line \o Tagged(bytes, Len(clean) + 1)
        /\ clean' = Append(clean, FALSE)
        /\ faults' = faults + 1
  /\ pending' = Tail(pending)
  /\ txFreeBuffers' = txFreeBuffers + 1
  /\ dataSent' = TRUE
  /\ UNCHANGED <<script, txQueue, txHeld, txPaused, piece, rxVars>>

-----------------------------------------------------------------------------
\* The buffer being filled goes to the end of the queue, and the next free one is filled.
ReceiveCallback ==
  LET n == Min({piece, Len(line)}) IN
  /\ line # <<>> /\ reading /\ ~rxPaused
  /\ rxQueue' = Append(rxQueue, SubSeq(line, 1, n))
  /\ line' = SubSeq(line, n + 1, Len(line))
  /\ reading' = (rxFreeBuffers > 0)
  /\ rxFreeBuffers' = Max({rxFreeBuffers - 1, 0})
  /\ dataReceived' = TRUE
  /\ UNCHANGED <<txVars, clean, faults, piece, rxHeld, rxPaused, rx, read>>

\* AJ_ProcessRxBufferList, called when dataReceived, takes the oldest buffer off the
\* queue if a packet is free, at its beginning or going round its loop.
ProcessTake ==
  /\ rxHeld = None /\ (rxPaused \/ dataReceived)
  /\ rxQueue # <<>> /\ rx.free > 0
  /\ rxHeld' = Head(rxQueue)
  /\ rxQueue' = Tail(rxQueue)
  /\ rxPaused' = FALSE
  /\ UNCHANGED <<txVars, lineVars, piece, rxFreeBuffers, reading, dataReceived, rx, read>>

\* Mutant: a buffer is always put on the free list.
ProcessPut_NoRestart ==
  /\ rxHeld # None
  /\ rx' = UART_RxComplete(rx, rxHeld)
  /\ rxHeld' = None
  /\ rxPaused' = TRUE
  /\ rxFreeBuffers' = rxFreeBuffers + 1
  /\ UNCHANGED <<txVars, lineVars, piece, reading, rxQueue, dataReceived, read>>

\* Its bytes are decoded, and it is filled again at once if no other buffer is.
ProcessPut ==
  /\ rxHeld # None
  /\ rx' = UART_RxComplete(rx, rxHeld)
  /\ rxHeld' = None
  /\ rxPaused' = TRUE
  /\ reading' = TRUE
  /\ rxFreeBuffers' = IF reading THEN rxFreeBuffers + 1 ELSE rxFreeBuffers
  /\ UNCHANGED <<txVars, lineVars, piece, rxQueue, dataReceived, read>>

ProcessEnd ==
  /\ rxPaused
  /\ rxQueue = <<>> \/ rx.free = 0
  /\ dataReceived' = (rxQueue # <<>> /\ dataReceived)
  /\ rxPaused' = FALSE
  /\ UNCHANGED <<txVars, lineVars, piece, rxFreeBuffers, reading, rxQueue, rxHeld, rx, read>>

\* The copying loop of AJ_SerialRecv, for a request of k bytes.
AJ_SerialRecv ==
  /\ rx.recv # <<>> /\ rxHeld = None /\ ~rxPaused
  /\ \E k \in Reads :
       LET there == FlattenSeq(rx.recv)
           n     == Min({k, Len(there)})
       IN  /\ read' = read \o SubSeq(there, 1, n)
           /\ rx' = Read(rx, n)
  /\ UNCHANGED <<txVars, lineVars, piece, rxFreeBuffers, reading, rxQueue, rxHeld, rxPaused,
                 dataReceived>>

Next ==
  \/ Queue \/ FillTake \/ FillPut \/ FillEnd \/ TransmitCallback
  \/ ReceiveCallback \/ ProcessTake \/ ProcessPut \/ ProcessEnd \/ AJ_SerialRecv

Spec == Init /\ [][Next]_vars

-----------------------------------------------------------------------------
\* Each of the buffers is in one place, so that none is lost or used twice by a callback
\* between two steps of the thread, and the flags that have the thread look at the lists
\* are set when there is something in them.  A receiver that has no buffer to fill is
\* about to have one: the queue that holds them all waits for the thread, which the
\* dataReceived flag sends there.
BuffersInPlace ==
  LET held(b) == IF b = None THEN 0 ELSE 1 IN
  /\ txFreeBuffers + Len(pending) + held(txHeld) = TxBuffers
  /\ rxFreeBuffers + Len(rxQueue) + held(rxHeld) + (IF reading THEN 1 ELSE 0) = RxBuffers
  /\ txQueue # <<>> /\ ~txPaused => dataSent \/ pending # <<>>
  /\ rxQueue # <<>> => dataReceived
  /\ reading \/ rxQueue # <<>> \/ rxHeld # None
  /\ rx \in Receiver
  /\ Len(rx.recv) + rx.free = RxPackets

Stream(n) == FlattenSeq(SubSeq(Payload, 1, n))

\* Whatever the line does to the bytes, in whatever pieces they arrive and are read: what
\* the application has read, with what is ready to be read, are the payloads up to the
\* next packet expected, each once, to the byte.
ReadIsSent == read \o FlattenSeq(rx.recv) = Stream(rx.expected)

\* Damage costs the frame it hits and at most the next one: a frame that arrives as it
\* was sent behind another such is found intact, however far off the decoder was.
Resynchronised ==
  \A k \in DOMAIN clean :
    LET toCome == rxHeld \o FlattenSeq(rxQueue) \o line
        \* the closing boundary of frame k has been through the decoder
        passed == \A i \in DOMAIN toCome : toCome[i].frame # k
    IN  passed /\ clean[k] /\ (k = 1 \/ clean[k - 1]) => k \in rx.heard
=============================================================================
