SPECIFICATION FairSpec
CONSTANTS
  Queues = {q1, q2}
  Producers = {p1, p2}
  Consumers = {c1}
  None = None
  MaxPosts = 2
  Capacity = 1
  MaxObservers = 2
  BatchSize = 2
INVARIANTS TypeOK SnapshotWhole StaysHome
PROPERTIES ImplementsBroadcast PushDelivers
