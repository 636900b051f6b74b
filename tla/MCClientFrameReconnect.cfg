SPECIFICATION FairSpec
CONSTANTS
  Msg <- MCMsg
  MsgLen <- MCMsgLen
  NoMsg = "none"
  MaxLen = 2
  RecvSize = 1
  Unit = 2
  MaxRecv = 2
PROPERTY ErrorReconnects
CHECK_DEADLOCK FALSE
