SPECIFICATION Spec
CONSTANTS
  viewer = viewer
  None = None
  Pods = {1}
  Jobs = {play, seek, seek2}
  Whole = {}
  Sessions = {viewer}
  SessionOf <- MCSessionOf
  Max = 1
  MaxAbandoned = 2
  MaxFaults = 1
INVARIANTS
  OneConversionPerSlot
  NoStalePlacement
SYMMETRY Seeks
CHECK_DEADLOCK FALSE
