CONSTANTS
  w1 = w1
  w2 = w2
  w3 = w3
  t1 = t1
  c1 = c1
  NGroups = 2
  Workers = {w1, w2, w3}
  GroupOf <- MCGroupOf
  Adders = {a1}
  Stopper = Stopper
  Tasks = {t1, t2, c1}
  Child <- MCChild
  NoTask = NoTask
  MaxSize = 1
  Steals = {TRUE, FALSE}
  AsyncWorkers = {v1, v2}
  AsyncTasks = {j1, j2, j3}
  Waiter = Waiter
  None = None
  Lockers = {k1, k2, k3}
  Kinds = {"spinlock", "atomic_spinlock", "ticket", "mutex", "recursive", "rwlock"}
  Word = 4
  MaxDepth = 2
SPECIFICATION FairAll
CHECK_DEADLOCK FALSE
INVARIANTS OneOwner StopDrains ThreadsSound
PROPERTIES AcceptedRuns StopReturns
