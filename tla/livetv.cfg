SPECIFICATION MCSpec
CONSTANTS
  LivePods = {p1, p2}
  Blocks = {b1, b2}
  Gone = {g}
  Cloud = {b2}
  MaxKeys = 6
  LiveEvents = 1
  InPostgres = TRUE
  MaxLoads = 2
  MaxTouches = 1
  MaxFailures = 3
  MaxDowns = 1
  Grabs = {g1, g2}
  Grace = 2
  MaxPlayers = 3
  MaxPassErrors = 2

  
PROPERTIES
  
  
  
  RenamedIsServed
  AbandonedEnds
CHECK_DEADLOCK FALSE
