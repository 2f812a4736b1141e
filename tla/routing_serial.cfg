SPECIFICATION FairSpec
CONSTANTS
  Sessions = {s1, s2}
  Requests = {r1, r2}
  Claims = {c1, c2}
  IPs = {ip1, ip2}
  None = None
  IdleTTL = 2
  MaxStream = 2
  SerialClients = TRUE
  PodsFail = TRUE
  CallsRelease = FALSE
INVARIANT NoLeak
INVARIANT StreamNotCut
PROPERTY ImplementsAssignment
PROPERTY IdleReclaimed
