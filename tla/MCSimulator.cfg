\* The simulated program ends.
CHECK_DEADLOCK FALSE
CONSTANTS
  Inputs <- MCInputs
  Dashes <- MCDashes
  LogFlag <- MCLogFlag
  StartSymbol = "_start>:"
SPECIFICATION Spec
INVARIANT MemoryReady
PROPERTIES FollowsISA ProgramEnds
