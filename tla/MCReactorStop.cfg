CONSTANTS
  Events = {e1}
  Threads = {t1}
  Loop = Loop
  Ctl = Ctl
  NoEvent = NoEvent
SPECIFICATION FairSpec
PROPERTIES StopEndsLoop
