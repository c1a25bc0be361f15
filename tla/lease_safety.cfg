SPECIFICATION Spec
CONSTANTS
  Pods = {p1, p2}
  NoPod = NoPod
  Duration = 9
  RenewEvery = 1
  CallMax = 1
  StopMax = 1
  DNSFails = FALSE
  GivesUp = TRUE
  MaxFaults = 1
SYMMETRY Symmetric
INVARIANT
  AtMostOneOwner
