SPECIFICATION Spec
CONSTANTS
  Nodes = {n1, n2, n3}
  Null = Null
  Threads = {p1, p2, c1}
  Acquirers = {p1, p2}
  Releasers = {p1, p2, c1}
  InitialSize = 2
  MaxSize = 2
SYMMETRY Symmetry
INVARIANTS NoSharing
CHECK_DEADLOCK FALSE
