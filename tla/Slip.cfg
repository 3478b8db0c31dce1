\* Frames on a line that damages a byte of one of them, in any place: every decoder state, full buffers
\* and packets, pieces that end inside a frame, reads that end inside a packet.
SPECIFICATION Spec
CONSTANTS
  PacketSize = 2
  RxPackets = 2
  Payload <- MCPayload
  Scripts <- MCScripts
  TxBuffers = 2
  RxBuffers = 2
  Pieces = {5, 18}
  Noise <- MCNoise
  MaxFaults = 1
  Reads = {1, 4}
INVARIANTS BuffersInPlace ReadIsSent Resynchronised
CHECK_DEADLOCK FALSE
