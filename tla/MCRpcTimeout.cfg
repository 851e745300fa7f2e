CONSTANTS
  Threads = {p1, p2}
  Timeout = 2
  MaxCalls = 2
  MaxTime = 2
  NoCall = NoCall
SPECIFICATION FairSpec
CHECK_DEADLOCK FALSE
PROPERTIES CallTimesOut
