CONSTANTS
  a = a
  b = b
  Endpoint <- Ends
  Peer <- Other
  MaxWindow <- TwoOne
  MaxPacket <- TwoOne
  TxBufs <- TwoOne
  RxBufs <- One
  Done <- Zero
  Budget <- Zero
  MsgLen <- One
  MaxEpoch <- One
  MayDisconnect = {a}
SPECIFICATION Spec
CHECK_DEADLOCK FALSE
INVARIANTS TypeOK BothActiveAgree PeerTookMyOffer
