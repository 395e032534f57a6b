SPECIFICATION CSpec
CONSTANTS
  first = first
  second = second
  third = third
  cpeer = cpeer
  tiny = tiny
  hamlet = hamlet
  Peers = {first, second, third}
  CPeers = {}
  Contact = first
  Files = {tiny}
  Held <- FirstHas
  Gets <- NoGets
  Alike <- AlikeNone
  None = None
  MaxFetches = 3
  MaxCrashes = 0
INVARIANTS
  ServesOnlyWhole
CHECK_DEADLOCK FALSE
