CONSTANTS
  Players = {p1, p2, p3}
  Nobody = Nobody
  NoBallot = NoBallot
  Draws = {{p1, p2}}
  MinRoom = 2
  MaxVotes = 4
  MaxBallots = 2
  MaxChanges = 4
SPECIFICATION FairSpec
INVARIANT CompletedIsFull
PROPERTIES VotesAreBoxes NewLeaderStandsInRoom EveryVoteIsDecided RemovalLeadsToElection
CHECK_DEADLOCK FALSE
