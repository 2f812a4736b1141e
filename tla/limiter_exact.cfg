SPECIFICATION Spec
CONSTANTS
  Keys = {k1, k2}
  Rpm = 40
  Burst = 2
  TicksPerSecond = 4
SYMMETRY Symmetry
INVARIANT TypeOK
INVARIANT RateBound
PROPERTY DecidesAsIdeal
