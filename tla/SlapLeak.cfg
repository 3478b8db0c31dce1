CONSTANTS
  a = a
  b = b
  Endpoint <- Ends
  Peer <- Other
  MaxWindow <- Two
  MaxPacket <- One
  TxBufs <- Two
  RxBufs <- Three
  Done <- Zero
  Budget <- TwoOne
  MsgLen <- One
  MaxEpoch <- One
  MayDisconnect = {}
SPECIFICATION SpecUp
INVARIANT NothingDropped
