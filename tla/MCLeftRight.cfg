CONSTANTS
  r1 = r1
  r2 = r2
  Readers = {r1, r2}
  Writers = {w1, w2}
  Slots = 2
  SlotOf <- MCSlotOf
  Ops = {a}
  NoVal = NoVal
  NoWriter = NoWriter
  MaxWrites = 3
  Values = {v1, v2}
  Moved = Moved
  MaxLen = 3
SPECIFICATION FairAll
INVARIANTS NoReadDuringWrite InstancesAgree ReadersSeeIdeal
PROPERTIES WriterFinishes ImplementsAtomicObject
