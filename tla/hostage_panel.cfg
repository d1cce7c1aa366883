CONSTANTS
  Me = Me
  a = a
  b = b
  c = c
  Others <- MCOthers
  Home <- MCHome
  Count = 1
  MaxRounds = 2
  MaxLeads = 1
  MaxAsked = 1
  MaxQueue = 1
SPECIFICATION PanelFairSpec
INVARIANT FreshPanelGoesOn
PROPERTIES GameEnds
CHECK_DEADLOCK FALSE
