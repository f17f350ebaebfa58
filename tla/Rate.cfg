\* Two emails for one bucket, two handlers that may lie for a second, a restart.
CONSTANTS
  k1 = k1
  k2 = k2
  c1 = c1
  c2 = c2
  Keys = {k1, k2}
  Callers = {c1, c2}
  kRateLimitMax = 2
  kRateLimitWindowSecs = 3
  kMaxRateBuckets = 1
  Boot = 3
  MaxTime = 5
  MaxRestarts = 1
  MaxStall = 1
SPECIFICATION Spec
SYMMETRY Symmetry
INVARIANTS TypeOK LimitsKept
PROPERTY NoEarlyPardon
