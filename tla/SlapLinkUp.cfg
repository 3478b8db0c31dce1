CONSTANTS
  a = a
  b = b
  Endpoint <- Ends
  Peer <- Other
  MaxWindow <- One
  MaxPacket <- One
  TxBufs <- One
  RxBufs <- Two
  Done <- Zero
  Budget <- Zero
  MsgLen <- One
  MaxEpoch <- One
  MayDisconnect = {}
SPECIFICATION FairLink
PROPERTY LinkComesUp
