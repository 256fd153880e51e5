SPECIFICATION Spec
CONSTANTS
  Requests <- MCRequests
  SioValues <- MCSioValues
INVARIANTS
  CeLowBound
  ReadTurnaround
PROPERTIES
  FrameExact
  PadTiming
  ImplementsContract
  BusyEnds
