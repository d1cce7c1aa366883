CONSTANTS
  Me = Me
  a = a
  b = b
  c = c
  Others <- MCOthers
  Home <- MCHome
  Count = 1
  MaxRounds = 2
  MaxLeads = 0
  MaxAsked = 1
  MaxQueue = 1
SPECIFICATION PanelSpec
INVARIANT PanelGoesOn
CHECK_DEADLOCK FALSE
