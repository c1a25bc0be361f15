SPECIFICATION Spec
CONSTANTS
  Pods = {p1, p2}
  NoPod = NoPod
  Duration = 9
  RenewEvery = 1
  CallMax = 1
  StopMax = 12
  DNSFails = FALSE
  GivesUp = FALSE
  MaxFaults = 1
INVARIANT AtMostOneOwner
