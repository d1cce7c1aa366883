CONSTANTS
  MaxPlayers = 2
  MaxJoins = 3
  MaxQueue = 1
  MaxFaults = 1
SPECIFICATION FairSpec
INVARIANTS RoomHasOwner StillMember OwnNameIsRight
PROPERTIES LobbyCatchesUp ListCatchesUp
CHECK_DEADLOCK FALSE
