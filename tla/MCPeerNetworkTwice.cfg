SPECIFICATION Spec
CONSTANTS
  Peers = {first, second, third}
  Contact = first
  Second = second
  Conns = {1, 2, 3}
  None = None
  MaxCrashes = 2
  MaxTicks = 0
  MaxGets = 0
INVARIANT NoPeerTwice
CONSTRAINT ContactStays
SYMMETRY Alike
CHECK_DEADLOCK FALSE
