SPECIFICATION CFairSpec
CONSTANTS
  first = first
  second = second
  third = third
  cpeer = cpeer
  tiny = tiny
  hamlet = hamlet
  Peers = {first, second}
  CPeers = {}
  Contact = first
  Files = {tiny}
  Held <- FirstHas
  Gets <- NoGets
  Alike <- AlikeNone
  None = None
  MaxFetches = 2
  MaxCrashes = 1
PROPERTIES
  MutexGivenBack
CHECK_DEADLOCK FALSE
