SPECIFICATION CFairSpec
CONSTANTS
  first = first
  second = second
  third = third
  cpeer = cpeer
  tiny = tiny
  hamlet = hamlet
  Peers = {first, second, cpeer}
  CPeers = {cpeer}
  Contact = first
  Files = {tiny, hamlet}
  Held <- FirstHas
  Gets <- Both
  Alike <- AlikeNone
  None = None
  MaxFetches = 2
  MaxCrashes = 1
INVARIANTS
  NothingListedAtPrompt
  TableFilled
  RightIsServed
PROPERTIES
  FetchEnds
  CPeerEnds
CHECK_DEADLOCK FALSE
