CONSTANTS
  BlueRoles <- MCBlueRoles
  RedRoles <- MCRedRoles
  GreyRoles <- MCGreyRoles
  MinPlayers = 6
  MaxPlayers = 7
  MinRoles = 4
  ManyPlayers = 7
  MaxCount = 2
  MaxJoins = 2
  MaxRooms = 2
  MaxGames = 2
SPECIFICATION Spec
INVARIANTS TypeOK OnePresidentOneBomber
PROPERTY EverybodyHasARole
CHECK_DEADLOCK FALSE
