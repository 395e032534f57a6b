SPECIFICATION SeqSpec
CONSTANTS
  Programs = {"radix", "id", "coord", "file", "io"}
  MAX_BITS = 4
  Batch = 2
  MaxReads = 5
  MaxTake = 3
  ChunkCells = 3
  Size = Size
  Ids = {0, 1, 2, 5}
  HalfInt = 4
  FirstSize = 2
  MaxRows = 3
  Points <- MCPoints
  Unit = 2
  MaxPoints = 4
  MaxBytes = 4
  BufSize = 2
  MaxAsk = 3
  MaxTotal = 5
  Newlines = {2, 4}
  None = None
INVARIANTS
  WellFormed
  NoLeak
  ReadsAllocated
  AnswerRight
  TreeOrdered
  AnswerNearest
  Classified
  ReadsStream
PROPERTIES
  TakesSmallest
CHECK_DEADLOCK FALSE
