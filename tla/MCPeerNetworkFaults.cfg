SPECIFICATION LateSpec
CONSTANTS
  Peers = {first, second, third}
  Contact = first
  Second = second
  Conns = {1, 2, 3, 4}
  None = None
  MaxCrashes = 1
  MaxTicks = 1
  MaxGets = 0
PROPERTIES
  MutexReleased
  RegistrationEnds
CHECK_DEADLOCK FALSE
