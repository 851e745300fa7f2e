CONSTANTS
  Senders = {s1, s2}
  MsgLen = 2
  Cap = 4
  MaxRoom = 1
  MaxMsgs = 2
  NoOne = NoOne
SPECIFICATION FairSpec
CHECK_DEADLOCK FALSE
PROPERTIES CloseFlushes
