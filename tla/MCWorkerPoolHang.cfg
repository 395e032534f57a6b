SPECIFICATION FairSpecPool
CONSTANTS
  Producers = {main}
  Consumers = {w1, w2}
  Destroyer = main
  j1 = j1
  j2 = j2
  j3 = j3
  Jobs = {j1, j2, j3}
  Size = 2
  None = None
  Closed = Closed
  Input <- TwoJobs
  MaxSpurious = 0
PROPERTIES
  BlockedPopReturns
CHECK_DEADLOCK FALSE
