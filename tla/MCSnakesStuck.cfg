SPECIFICATION Spec
CONSTANT
  SnakesLevels <- MCLevels
INVARIANT
  AiTurnIsPlayed
CHECK_DEADLOCK FALSE
