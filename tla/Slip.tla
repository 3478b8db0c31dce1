-------------------------------- MODULE Slip --------------------------------
(***************************************************************************)
(* The bytes of a SLAP packet on the line (RFC 1055 with a checksum):      *)
(* ConvertPacketToBytes of src/aj_serial_tx.c makes them, UART_RxComplete  *)
(* and CompletePacket of src/aj_serial_rx.c find packets in what arrives.  *)
(* A received byte carries the number of the frame it was sent in, read by *)
(* properties only.                                                        *)
(***************************************************************************)
EXTENDS Crc16

CONSTANTS
  PacketSize,   \* AJ_SerialLinkParams.packetSize of both ends
  RxPackets     \* packets to receive into, RxPacket not counted

BOUNDARY_BYTE == 192
ESCAPE_BYTE == 219
BOUNDARY_SUBSTITUTE == 220
ESCAPE_SUBSTITUTE == 221

DataType == 0    \* AJ_SERIAL_DATA
AckType  == 15   \* AJ_SERIAL_ACK

HeaderLen == 4
CrcLen == 2

\* The room of a transmit or receive buffer.
SLIPPED_LEN == (PacketSize + HeaderLen + CrcLen) * 2 + 2

\* The room of a packet to receive into.
maxRxFrameSize == PacketSize + 2 + HeaderLen

-----------------------------------------------------------------------------
Escaped(b) ==
  CASE b = BOUNDARY_BYTE -> <<ESCAPE_BYTE, BOUNDARY_SUBSTITUTE>>
    [] b = ESCAPE_BYTE   -> <<ESCAPE_BYTE, ESCAPE_SUBSTITUTE>>
    [] OTHER             -> <<b>>

EscapedSeq(data) == FlattenSeq([i \in DOMAIN data |-> Escaped(data[i])])

\* As much of the data as there is room for is added to the buffer.
SlipBytes(slip, data) ==
  LET fits == {n \in 0..Len(data) :
                 Len(slip) + Len(EscapedSeq(SubSeq(data, 1, n))) <= SLIPPED_LEN}
  IN  slip \o EscapedSeq(SubSeq(data, 1, Max(fits)))

\* Mutant: the checksum is put behind the data as it is.
ConvertPacketToBytes_PlainCrc(type, seq, ack, payload) ==
  LET header == <<16 * seq + ack, type, Len(payload) \div 256, Len(payload) % 256>>
  IN  Append(SlipBytes(SlipBytes(<<BOUNDARY_BYTE>>, header), payload)
               \o CrcBytes(header \o payload), BOUNDARY_BYTE)

\* Sequence number and acknowledgement share a byte; packets that are not DATA have 0
\* for the former.
ConvertPacketToBytes(type, seq, ack, payload) ==
  LET header == <<16 * seq + ack, type, Len(payload) \div 256, Len(payload) % 256>>
      head   == SlipBytes(<<BOUNDARY_BYTE>>, header)
      body   == SlipBytes(head, payload)
  IN  Append(SlipBytes(body, CrcBytes(header \o payload)), BOUNDARY_BYTE)

-----------------------------------------------------------------------------
(***************************************************************************)
(* The receiver rx: RxPacket (its state and the bytes in it), how many     *)
(* packets are in RxFreeList, RxRecv (what is still to be read of each     *)
(* payload), expectedSeq; heard is the set of frames found intact.         *)
(***************************************************************************)
Receiver ==
  [state : {"NEW", "OPEN", "ESCAPE", "FLUSH"}, buf : Seq([byte : Byte, frame : Nat]),
   free : 0..RxPackets, recv : Seq(Seq(Byte)), expected : 0..7, heard : SUBSET Nat]

FreshReceiver == [state |-> "NEW", buf |-> <<>>, free |-> RxPackets, recv |-> <<>>,
                  expected |-> 0, heard |-> {}]

\* Mutant: the length in the header and the checksum are not compared.
Intact_Unchecked(bytes) == Len(bytes) >= HeaderLen + CrcLen

\* The checks of CompletePacket, in its order: length, checksum, length in the header.
Intact(bytes) ==
  /\ Len(bytes) >= HeaderLen
  /\ SubSeq(bytes, Len(bytes) - 1, Len(bytes)) = CrcBytes(SubSeq(bytes, 1, Len(bytes) - 2))
  /\ 256 * bytes[3] + bytes[4] = Len(bytes) - HeaderLen - CrcLen

\* A DATA packet in sequence goes to RxRecv, if another can take the place of RxPacket.
Enqueue(rx, seq, payload) ==
  IF seq # rx.expected \/ rx.free = 0 THEN rx
  ELSE [rx EXCEPT !.expected = (@ + 1) % 8, !.recv = Append(@, payload), !.free = @ - 1,
                  !.buf = <<>>]

\* What it makes of link control packets and acks is in SlapRx; the link is ACTIVE.
CompletePacket(rx) ==
  LET bytes == [i \in DOMAIN rx.buf |-> rx.buf[i].byte]
      found == [rx EXCEPT !.heard = @ \cup {rx.buf[1].frame}]
  IN  IF ~Intact(bytes) THEN rx
      ELSE IF bytes[2] % 16 # DataType THEN found
      ELSE Enqueue(found, bytes[1] \div 16, SubSeq(bytes, HeaderLen + 1, Len(bytes) - CrcLen))

AtNew(rx, c) ==
  [rx EXCEPT !.state = IF c.byte = BOUNDARY_BYTE THEN "OPEN" ELSE "FLUSH", !.buf = <<>>]

AtOpen(rx, c) ==
  CASE c.byte = BOUNDARY_BYTE -> CompletePacket([rx EXCEPT !.state = "NEW"])
    [] c.byte = ESCAPE_BYTE   -> [rx EXCEPT !.state = "ESCAPE"]
    [] OTHER -> IF Len(rx.buf) = maxRxFrameSize THEN [rx EXCEPT !.state = "NEW"]
                ELSE [rx EXCEPT !.buf = Append(@, c)]

\* After a bad escape the byte is looked at again, as the first of a frame.  There is no
\* check of room here: a full packet is written past its end, and what is written is read
\* back, which is what the model does.
AtEscape(rx, c) ==
  LET plain == {p \in {BOUNDARY_BYTE, ESCAPE_BYTE} : Escaped(p) = <<ESCAPE_BYTE, c.byte>>}
  IN  IF plain = {} THEN AtNew(rx, c)
      ELSE [rx EXCEPT !.state = "OPEN",
                      !.buf = Append(@, [c EXCEPT !.byte = CHOOSE p \in plain : TRUE])]

\* Mutant: the boundary that ends a flush is taken for the start of a frame.
ReceiveByte_FlushOpens(rx, c) ==
  CASE rx.state = "FLUSH"  -> IF c.byte = BOUNDARY_BYTE THEN AtNew(rx, c) ELSE rx
    [] rx.state = "NEW"    -> AtNew(rx, c)
    [] rx.state = "ESCAPE" -> AtEscape(rx, c)
    [] rx.state = "OPEN"   -> AtOpen(rx, c)

ReceiveByte(rx, c) ==
  CASE rx.state = "FLUSH"  -> [rx EXCEPT !.state = IF c.byte = BOUNDARY_BYTE THEN "NEW" ELSE @]
    [] rx.state = "NEW"    -> AtNew(rx, c)
    [] rx.state = "ESCAPE" -> AtEscape(rx, c)
    [] rx.state = "OPEN"   -> AtOpen(rx, c)

UART_RxComplete(rx, bytes) ==
  LET after[i \in 0..Len(bytes)] == IF i = 0 THEN rx ELSE ReceiveByte(after[i - 1], bytes[i])
  IN  after[Len(bytes)]

\* Mutant: a packet that was read in part is given back.
Read_DropsRest(rx, n) ==
  LET whole(k) == Len(FlattenSeq(SubSeq(rx.recv, 1, k))) <= n
      done     == Max({k \in 0..Len(rx.recv) : k = 0 \/ whole(k - 1)})
  IN  [rx EXCEPT !.free = @ + done, !.recv = SubSeq(@, done + 1, Len(@))]

\* What AJ_SerialRecv leaves when it has copied the next n bytes: packets read to their
\* end are free again, and what is left of the next moves to its front.
Read(rx, n) ==
  LET length(k) == Len(FlattenSeq(SubSeq(rx.recv, 1, k)))
      done      == Max({k \in 0..Len(rx.recv) : length(k) <= n})
      rest      == SubSeq(rx.recv, done + 1, Len(rx.recv))
  IN  [rx EXCEPT !.free = @ + done,
                 !.recv = IF rest = <<>> THEN <<>>
                          ELSE <<SubSeq(rest[1], n - length(done) + 1, Len(rest[1]))>> \o Tail(rest)]
=============================================================================
