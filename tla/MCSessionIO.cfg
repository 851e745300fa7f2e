CONSTANTS
  Senders = {s1, s2}
  MsgLen = 2
  Cap = 4
  MaxRoom = 3
  MaxMsgs = 3
  NoOne = NoOne
  Managers = {cli, srv}
  Clients = {cli}
  Threads = {t1}
  Fds = {1, 2}
  Events = {1, 2, 3, 4, 5}
  Sids = {1, 2, 3, 4}
  None = None
  GroupBits = 1
  MaxOctets = 10
  ShrinkAt = 3
  ReadCap = 9
  SocketCap = 5
  Stubs = {1}
  Conversations <- Talks
  ValueBits = 2
  ValueOctets = 3
  Width = 3
  MinCap = 2
  ValueShrinkAt = 2
  Values <- MCValues
  MaxValues = 3
SPECIFICATION FairAll
CHECK_DEADLOCK FALSE
INVARIANTS StreamIntact UnsentHasInterest OwnersSound FramesWhole BuffersHoldRest RoundTrip
PROPERTIES AcceptedIsSent Reconnects SocketDrains
