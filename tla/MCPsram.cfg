SPECIFICATION FairSpec
CONSTANTS
  SckMHz = 20
  Top <- MCTop
  Requests <- MCRequests
  MaxCalls = 2
  Interrupts = 1
INVARIANTS
  WriteExact
  ReadExact
  PadsOwned
PROPERTIES
  CallsReturn
CHECK_DEADLOCK FALSE
