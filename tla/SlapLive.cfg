CONSTANTS
  a = a
  b = b
  Endpoint <- Ends
  Peer <- Other
  MaxWindow <- Two
  MaxPacket <- One
  TxBufs <- One
  RxBufs <- One
  Done <- Zero
  Budget <- ThreeNone
  MsgLen <- Three
  MaxEpoch <- One
  MayDisconnect = {}
SPECIFICATION FairData
PROPERTIES AllDelivered SendReturns
