CONSTANTS
  Threads = {t1, t2}
  Cap = 3
  Null = Null
  MaxCount = 6
  Names = {"help", "quit", "h", "x"}
  Subs = {"s"}
  Lines <- MCLines
  Scripts <- MCScripts
  MaxChanges = 2
  None = None
  Resources = {r1, r2}
  MaxPicks = 3
  Tokens = {k1, k2, k3}
  Notifiers = {n1}
  MaxIds = 3
SPECIFICATION SpecAll
CHECK_DEADLOCK FALSE
INVARIANTS ListIntact OnePlace AliasesOwned UtilitiesSound
