CONSTANTS
  a = a
  b = b
  Endpoint <- Ends
  Peer <- Other
  MaxWindow <- One
  MaxPacket <- One
  TxBufs <- One
  RxBufs <- One
  Done <- Zero
  Budget <- NoneTwo
  MsgLen <- One
  MaxEpoch <- Two
  MayDisconnect = {}
SPECIFICATION SpecUp
ACTION_CONSTRAINT ReadsWhole
CHECK_DEADLOCK FALSE
INVARIANT TimersArmed
PROPERTY StreamSpec
