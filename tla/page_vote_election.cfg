CONSTANTS
  MaxVotes = 2
  Voters = 2
  MaxQueue = 2
  MaxFaults = 1
SPECIFICATION Spec
INVARIANT ElectionIsShown
CHECK_DEADLOCK FALSE
