SPECIFICATION Spec
CONSTANTS
  Peers = {first, second, third}
  Contact = first
  Second = second
  Conns = {1, 2, 3, 4}
  None = None
  MaxCrashes = 2
  MaxTicks = 1
  MaxGets = 1
INVARIANTS
  NoDuplicates
  OneKnowsOther
  JoinedKnowsSomebody
CONSTRAINT FewEvents
SYMMETRY Alike
CHECK_DEADLOCK FALSE
