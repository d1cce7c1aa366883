CONSTANTS
  MaxGames = 2
  MaxMoves = 1
  MaxQueue = 2
  MaxAnswers = 2
  MaxFaults = 1
SPECIFICATION PageFairSpec
INVARIANT AssignedIsInGame
PROPERTIES CatchesUp StartIsSeen
CHECK_DEADLOCK FALSE
