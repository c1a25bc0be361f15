SPECIFICATION FairSpec
CONSTANTS
  Pods = {p1, p2}
  NoPod = NoPod
  Duration = 2
  RenewEvery = 1
  CallMax = 0
  StopMax = 0
  DNSFails = TRUE
  GivesUp = FALSE
  MaxFaults = 1
INVARIANT OneLeaderWorker
PROPERTY EventuallyOwned
