SPECIFICATION Spec
CONSTANTS
  Sources <- MCSources
  Commands <- MCCommands
  MaxEdits = 1
  MaxCommands = 2
  Cells <- MCCells
  Cases <- MCCases
  Garbage <- MCZeros
  Stray = {}
  Defects <- MCDefects
  MaxTests = 2
INVARIANTS
  PoisonPreventsFalsePass
CHECK_DEADLOCK FALSE
