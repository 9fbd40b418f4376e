SPECIFICATION FairSpec
CONSTANTS
  Clients = {c1}
  Flushers = {f1}
  Worker = w1
  Ids = {x}
  Capacity = 2
  MaxPosts = 3
  MaxObservers = 2
  MaxStarts = 2
INVARIANTS TypeOK StopDrains EachObserverOnce
PROPERTIES FlushTells Delivered StopReturns
