CONSTANTS
  Players = {p1, p2, p3, p4}
  Nobody = Nobody
  MinPlayers = 4
  SmallGame = 10
  MediumGame = 21
  MaxCalls = 1
SPECIFICATION FairSpec
INVARIANTS HostagesTogether ActiveRoundHasLeaders NoGhostGame
PROPERTIES ExchangePreservesSizes RoomsAreColoured SelectionIsHonoured ReadyIsHonoured
