SPECIFICATION Spec
CONSTANTS
  DMA_BUF_DEPTH = 2
  Images <- MCLiveImages
PROPERTIES
  ChainCompletes
