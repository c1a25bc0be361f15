SPECIFICATION MediaSpec
CONSTANTS
  Inputs <- MCInputs
  Runs <- MCRuns
  MaxAhead = 3
  PipeFaults = 1
  Window = 2
  MaxSegments = 6
  MaxLiveErrors = 1
  MaxOutputs = 5
  MaxThrottles = 1
  MaxLostPuts = 1
  Managers = {m1, m2}
  StaleAfter = 3
  MaxBegins = 3
  MaxWriteErrors = 1
  MaxDeaths = 1
  viewer = viewer
  None = None
  Pods = {1}
  Jobs = {play, optimize}
  Whole = {optimize}
  Sessions = {viewer}
  SessionOf <- MCSessionOf
  Max = 2
  MaxAbandoned = 1
  MaxFaults = 1
INVARIANTS
  SegmentsWhole
  OnGridIsSeekPoint
PROPERTIES
  
  RelayFlows
  FeedInOrder
  CountFollows
  CancelledIsAnswered
  SlotsReturned
CHECK_DEADLOCK FALSE
