SPECIFICATION Spec
CONSTANTS
  DMA_BUF_DEPTH = 2
  Images <- MCImages
INVARIANTS
  NoContention
  DoneMeansQuiet
PROPERTIES
  ImplementsChain
