CONSTANTS
  NTimers = 3
  Callers = {c1}
  Wheel = Wheel
  N = 2
  Timeouts = {1, 2}
  Delays = {TRUE}
  Repeats = {2}
  Results = {TRUE, FALSE}
  Word = 1024
  MaxTick = 4
  MaxDrops = 1
  Null = Null
  Runners = {r1, r2}
  Configured = {"cpu", "memory", "disk", "process", "network"}
  Interval <- MCInterval
  NSources = 2
  Mounts <- MCMounts
  Addresses <- MCAddresses
  CounterWord = 2
  Situations <- MCSituations
  MaxTime = 2
  MaxTraffic = 2
SPECIFICATION SpecAll
CHECK_DEADLOCK FALSE
INVARIANTS ListsIntact OnTime PoolSound 
