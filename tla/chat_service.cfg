SPECIFICATION ServiceSpec
CONSTANTS
  Sessions = {s1, s2}
  Requests = {r1, r2}
  Claims = {c1, c2}
  IPs = {ip1, ip2}
  None = None
  IdleTTL = 1
  MaxStream = 1
  SessionTTL = 3
  Timeout = 1
  SerialClients = FALSE
  PodsFail = TRUE
  CallsRelease = FALSE
SYMMETRY Symmetry
INVARIANT ServiceTypeOK
INVARIANT OneSessionPerAgent
INVARIANT RememberedWhileRouted
INVARIANT OneAnswerAtATime
