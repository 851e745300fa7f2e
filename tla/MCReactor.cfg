CONSTANTS
  Events = {e1, e2}
  Threads = {t1}
  Loop = Loop
  Ctl = Ctl
  NoEvent = NoEvent
  Timers = {tm1, tm2}
  Timeouts = {1}
  Repeats = {2}
  SigNums = {s1}
  Timeout = 1
  PipeCap = 1
  MaxTime = 1
  MaxRaised = 2
  MaxRuns = 3
  None = None
SPECIFICATION FairAll
INVARIANTS NoChangeDropped FlagCoversSleep TimersSound
PROPERTIES ChangeApplied StopHonoured
