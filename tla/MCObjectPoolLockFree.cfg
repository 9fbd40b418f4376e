SPECIFICATION Spec
CONSTANTS
  Nodes = {n1, n2, n3, n4}
  Null = Null
  Threads = {p, c1, c2}
  Acquirers = {p}
  Releasers = {p, c1, c2}
  InitialSize = 1
  MaxSize = 2
SYMMETRY Symmetry
INVARIANTS TypeOK NoSharing SafeRead NoLeak ShrinksBack
\* The run of a pool ends with its destructor.
CHECK_DEADLOCK FALSE
