SPECIFICATION FairSpec
CONSTANTS
  Producers = {p1, p2}
  Consumers = {c1}
  Topics = {x, y}
  Messages = {m1, m2, m3}
  None = None
  Capacity = 1
  MaxCount = 2
  MaxObservers = 2
  LateObservers = FALSE
INVARIANTS TypeOK FreedByLastObserver
PROPERTIES ImplementsBroadcast PostDelivers
