CONSTANTS
  MaxGames = 2
  MaxRounds = 2
  MaxEvents = 2
  MaxShown = 1
  MaxQueue = 3
  MaxFaults = 2
SPECIFICATION Spec
INVARIANTS TypeOK HistoryOnce  EventsInTheirRound
CHECK_DEADLOCK FALSE
