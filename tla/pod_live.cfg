SPECIFICATION FairSpec
CONSTANTS
  Lives = {l1, l2, l3}
  Watches = {w1, w2}
  None = None
  RestartLimit = 3
  UnhealthyAfter = 2
  MaxAdv = 2
  MaxFaults = 2
  SlowTicks = TRUE
  May = {"exit", "wedge", "term"}
PROPERTIES
  Settles
CHECK_DEADLOCK FALSE
