SPECIFICATION Spec
CONSTANTS
  Clients = {c1}
  Dispatchers = {w1, w2}
  Topics = {x, y}
  Handlers = {h1}
  Messages = {m1, m2}
  None = None
  MaxTopics = 1
  MaxId = 2
  MaxClears = 1
SYMMETRY Symmetry
INVARIANTS TypeOK RemovalContract EveryObserverOnce PayloadSafe
