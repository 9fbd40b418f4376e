SPECIFICATION FairSpec
CONSTANTS
  Threads = {t1, t2, t3}
  Values = {a}
  None = None
  Capacity = 2
  MaxPush = 3
  Scheduled = {t1}
PROPERTIES CallsReturn
