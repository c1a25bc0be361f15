SPECIFICATION Spec
CONSTANTS
  Lives = {l1, l2, l3}
  Watches = {w1, w2}
  None = None
  RestartLimit = 2
  UnhealthyAfter = 2
  MaxAdv = 2
  MaxFaults = 2
  SlowTicks = FALSE
  May = {"livetv", "term", "fail", "patch", "abort", "migrate", "exit", "wedge"}
SYMMETRY Symmetric
INVARIANTS
  OnePlex
  WaitClosesOwn
PROPERTIES
  StoppedIsNotLost
CHECK_DEADLOCK FALSE
