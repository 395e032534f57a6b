SPECIFICATION FairSpec
CONSTANTS
  ann = ann
  bob = bob
  bobLate = bobLate
  eve = eve
  empty = empty
  hamlet = hamlet
  nowhere = nowhere
  Clients = {ann, eve}
  Programs = {bob}
  Late <- OneLate
  Names = {0, 1}
  Empty = 0
  None = None
  Name <- OneName
  Signature <- OwnSignature
  Files = {empty, hamlet, nowhere}
  Blocks <- SomeBlocks
  CFiles <- OnlyHamlet
  MaxRequests <- AnnMost
  MaxShortReads = 1
CONSTRAINTS
  EveFirst
INVARIANTS
  WrittenIsWhole
  CopyIsWholeOrReply
  ServedOnlyRegistered
  TakenNameRefused
PROPERTIES
  RequestEnds
CHECK_DEADLOCK FALSE
