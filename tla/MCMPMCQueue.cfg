SPECIFICATION Spec
CONSTANTS
  Threads = {t1, t2, t3}
  Values = {a, b}
  None = None
  Capacity = 2
  MaxPush = 4
  Scheduled = {}
SYMMETRY Symmetry
INVARIANTS TypeOK SlotExclusive
PROPERTIES ImplementsFifo ImplementsRing FalseIsJustified
