SPECIFICATION MCSpec
CONSTANTS
  BootPods = {p1, p2}
  ClaimCode = 1
  MaxSignIns = 1
  MaxCrashes = 1
  MaxRefusals = 1
  Conns = {c1}
  Idle = 2
  StreamBytes = 2
  SendBuffer = 3
  MaxStall = 1
  MaxDelivery = 3
  DrainTicks = 3
  Doors = {1, 2, 3}
  Circle = 6
  Replicas <- MCReplicas
  Requests = {r1}
  NoKey = 1
  MaxMoves = 3
  MaxListErrors = 1
  Libraries = {0, 2, 5}
  TaskKey = 3
  JobRetries = 1
  arm = arm
  amd = amd
  amd2 = amd2
  CodecPods = {arm, amd, amd2}
  PlatformOf <- MCPlatformOf
  Codecs <- MCCodecs
  Found = {"aac"}
  Candidates = 2
  MaxCodecErrors = 2
  MaxBuilds = 2
  MaxTerms = 2
INVARIANTS
  OneServer
  SuccessIsWhole
PROPERTIES
  WaitsForStreams
  
  DoorSettles
  DecodersFetched
CHECK_DEADLOCK FALSE
