CONSTANTS
  Cells <- Board
  Walls <- Blocks
  Goals <- Goal
  Enemies = 2
  Start <- Places
  Keys = {"d", "s"}
  MaxTurns = 2
SPECIFICATION Spec
INVARIANTS TypeOK OneTurn TurnsOwed ScreenTrue
PROPERTIES EndStable Progress
