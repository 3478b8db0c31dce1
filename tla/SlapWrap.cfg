CONSTANTS
  a = a
  b = b
  Endpoint <- Ends
  Peer <- Other
  MaxWindow <- Four
  MaxPacket <- One
  TxBufs <- One
  RxBufs <- One
  Done <- SixNone
  Budget <- TenNone
  MsgLen <- One
  MaxEpoch <- One
  MayDisconnect = {}
SPECIFICATION SpecUp
ACTION_CONSTRAINT ReadsWhole
INVARIANT InOrder
PROPERTY FreedWasAccepted
