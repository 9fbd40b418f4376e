SPECIFICATION FairSpec
CONSTANTS
  c1 = c1
  c2 = c2
  FastProducers = {p1}
  BulkProducers = {p2}
  Consumers = {c1, c2}
  PoliciesOf <- MCPoliciesOf
  FastMessages = {f1, f2, f3}
  BulkMessages = {b1}
  None = None
  FastCapacity = 2
  BulkCapacity = 1
  MaxObservers = 2
  FastPerBulk = 1
INVARIANTS RatioBound
PROPERTIES CriticalFirst ImplementsBroadcast BulkNotStarved
