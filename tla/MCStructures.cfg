SPECIFICATION StructuresSpec
CONSTANTS
  Producers = {p1, p2}
  Consumers = {c1, c2}
  Destroyer = p1
  Jobs = {j1, j2}
  Size = 2
  None = None
  Closed = Closed
  Workers = {w1, w2}
  Bins = 1
  Files <- LongFiles
  MaxFiles = 2
  Period = 2
  Nobody = None
  Addrs = {0, 9, 19, 38, 57, 76}
  Texts = {"t", "u"}
  NoText = ""
  Empty = Empty
INVARIANTS
  IInv
  MutualExclusion
  NoUseAfterFree
  ExactWithOne
  NeverOvercounts
  TableInv
PROPERTIES
  ImplementsFifo
  ImplementsMap
  GrowingEnds
CHECK_DEADLOCK FALSE
