SPECIFICATION FairSpec
CONSTANTS
  Calls = 3
  Attempts = 2
  Resets = 1
  Reboots = 1
INVARIANTS
  StreamInStep
  ResetResolves
PROPERTIES
  Implements
  CallEnds
