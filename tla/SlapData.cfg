CONSTANTS
  a = a
  b = b
  Endpoint <- Ends
  Peer <- Other
  MaxWindow <- Two
  MaxPacket <- One
  TxBufs <- One
  RxBufs <- One
  Done <- Zero
  Budget <- TwoOne
  MsgLen <- One
  MaxEpoch <- One
  MayDisconnect = {}
SPECIFICATION SpecUp
ACTION_CONSTRAINT ReadsWhole
INVARIANTS UnreliableQueuedOnce PacketsConserved AckIsExpectedSeq
PROPERTIES StreamSpec
