SPECIFICATION Spec
CONSTANTS
  DMA_BUF_DEPTH = 2
  Images <- MCImages
INVARIANTS
  CoreTypeOK
  GrantIsQuiet
  RequestStable
  RequestLegal
  DoneMeansIdle
PROPERTIES
  ImplementsChain
  ImplementsHostPort
  StartNotQueued
