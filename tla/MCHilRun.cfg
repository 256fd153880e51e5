SPECIFICATION FairSpec
CONSTANTS
  Sources <- MCSources
  Commands <- MCCommands
  MaxEdits = 2
  MaxCommands = 2
  Cells <- MCCells
  Cases <- MCCases
  Garbage <- MCGarbage
  Stray = {0}
  Defects <- MCDefects
  MaxTests = 2
INVARIANTS
  BoardAgrees
  BuildIsFresh
  RedIsOfTheTree
  PoisonCatches
PROPERTIES
  ReuseIsCurrent
  CommandEnds
CHECK_DEADLOCK FALSE
