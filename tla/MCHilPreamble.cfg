SPECIFICATION Spec
CONSTANTS
  Calls = 2
  Attempts = 1
  Resets = 0
  Reboots = 0
INVARIANT PreambleResolves
