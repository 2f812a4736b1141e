SPECIFICATION Spec
CONSTANTS
  Keys = {k1, k2}
  Rpm = 40
  Burst = 1
  TicksPerSecond = 4
SYMMETRY Symmetry
INVARIANT RateBound
