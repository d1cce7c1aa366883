CONSTANTS
  Duration = 2
  MaxGames = 2
  MaxRounds = 2
SPECIFICATION FairSpec
INVARIANTS RegisteredIsOpen RoundHasTicker
PROPERTIES TimeRunsOut StoppedTickerEnds
CHECK_DEADLOCK FALSE
