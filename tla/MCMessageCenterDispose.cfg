SPECIFICATION MCSpec
CONSTANTS
  Clients = {c1}
  Dispatchers = {w1}
  Controllers = {k1}
  Topics = {x}
  Handlers = {h1}
  Messages = {m1, m2}
  None = None
  MaxTopics = 1
  MaxId = 1
  MaxClears = 0
  MaxStarts = 2
INVARIANTS NoPayloadOutlives
