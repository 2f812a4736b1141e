SPECIFICATION Spec
CONSTANTS
  Keys = {k1, k2}
  Agents = {a1, a2}
  Addrs = {ip1, ip2}
  None = None
  Budget = 2
  MaxUsed = 2
  MaxDay = 1
  MaxRestarts = 1
  Modes = {"direct", "sandbox"}
SYMMETRY Symmetry
INVARIANT TypeOK
INVARIANT NoDoubleCount
INVARIANT CountedOnce
INVARIANT DailyBound
PROPERTY RefusesTillMidnight
