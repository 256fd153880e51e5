SPECIFICATION Spec
CONSTANTS
  Interrupts = 1
INVARIANTS
  HizUnlessGranted
