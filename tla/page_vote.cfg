CONSTANTS
  MaxVotes = 2
  Voters = 2
  MaxQueue = 3
  MaxFaults = 1
SPECIFICATION FairSpec
INVARIANTS   VotingEnds
 
CHECK_DEADLOCK FALSE
