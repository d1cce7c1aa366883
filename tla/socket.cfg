SPECIFICATION FairSpec
CONSTANTS
  MAX_RECONNECT_ATTEMPTS = 5
  MaxSockets = 3
  MaxOutages = 2
INVARIANT NeverStranded
PROPERTIES NoRetryAfterUnmount ConnectsOrGivesUp
CHECK_DEADLOCK FALSE
