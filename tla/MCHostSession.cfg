SPECIFICATION Spec
CONSTANTS
  Interrupts = 2
INVARIANTS
  DriveLegal
  BusReturned
  InQpiTruthful
  IdleReported
  RecoveredIsUsable
PROPERTIES
  StartTaken
  CallsEnd
