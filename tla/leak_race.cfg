SPECIFICATION Spec
CONSTANTS
  Sessions = {s1, s2}
  Requests = {r1, r2}
  Claims = {c1, c2, c3}
  IPs = {ip1, ip2}
  None = None
  IdleTTL = 1
  MaxStream = 1
  SerialClients = FALSE
  PodsFail = FALSE
  CallsRelease = FALSE
SYMMETRY Symmetry
INVARIANT NoLeak
