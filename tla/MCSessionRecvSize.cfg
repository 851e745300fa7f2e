CONSTANTS
  GroupBits = 1
  MaxOctets = 10
  ShrinkAt = 3
  Cap = 16
  SocketCap = 5
  Stubs = {1}
  Conversations <- LargeTalks
SPECIFICATION FairSpec
INVARIANT FramesWhole
CHECK_DEADLOCK FALSE
